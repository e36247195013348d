----------------------------- MODULE Tlay2Proofs -----------------------------
(***************************************************************************)
(* The CRC and the frames of Tlay2, for bytes, payloads and a buffer of    *)
(* any size, and any number of bytes lost.                                 *)
(*                                                                         *)
(* First the CRC: the table is that of the polynomial, the remainder is    *)
(* linear in what is divided, so a byte through the table is eight bits    *)
(* divided, and a frame with its CRC has the CRC 0.  Then induction over   *)
(* the bytes of a sequence, as a lemma about sets of numbers.  Then the    *)
(* frame on the line: a newline only at its end, and no escape byte before *)
(* that, so that the readers can be followed byte by byte: through a frame *)
(* they are in step with, through what is left of one, and through a debug *)
(* message that cuts in.  Along the way some of the frames accepted are    *)
(* matched with frames sent, and the faults account for the others and for *)
(* the frames that are missing.                                            *)
(***************************************************************************)
EXTENDS Tlay2, TLAPS, SequenceTheorems, FiniteSetTheorems, WellFoundedInduction

-----------------------------------------------------------------------------
(* The CRC: bits, the table, and division. *)

Weights == {1, 2, 4, 8}
Plus(p, q) == IF p # q THEN 1 ELSE 0

\* A bit is 0 or 1.
LEMMA BitIs ==
    ASSUME NEW n \in Nibble
    PROVE  /\ n = 8 * Bit(n, 8) + 4 * Bit(n, 4) + 2 * Bit(n, 2) + Bit(n, 1)
           /\ \A w \in Weights : Bit(n, w) \in {0, 1}
           /\ Bit(0, 8) = 0 /\ Bit(0, 4) = 0 /\ Bit(0, 2) = 0 /\ Bit(0, 1) = 0
BY DEF Nibble, Bit, Weights

\* A nibble is known by its bits.
LEMMA SameBits ==
    ASSUME NEW a \in Nibble, NEW b \in Nibble, \A w \in Weights : Bit(a, w) = Bit(b, w)
    PROVE  a = b
<1>1. Bit(a, 8) = Bit(b, 8) /\ Bit(a, 4) = Bit(b, 4) /\ Bit(a, 2) = Bit(b, 2) /\ Bit(a, 1) = Bit(b, 1)
  BY DEF Weights
<1>2. QED
  BY <1>1, BitIs

\* Any four bits are a nibble.
LEMMA BitsOf ==
    ASSUME NEW p \in {0, 1}, NEW q \in {0, 1}, NEW r \in {0, 1}, NEW s \in {0, 1},
           NEW n, n = 8 * p + 4 * q + 2 * r + s
    PROVE  /\ n \in Nibble
           /\ Bit(n, 8) = p /\ Bit(n, 4) = q /\ Bit(n, 2) = r /\ Bit(n, 1) = s
BY DEF Bit, Nibble

\* The bits of an exclusive or.
LEMMA XorBits ==
    ASSUME NEW a \in Nibble, NEW b \in Nibble
    PROVE  /\ XorNibble[a][b] \in Nibble
           /\ \A w \in Weights : Bit(XorNibble[a][b], w) = Plus(Bit(a, w), Bit(b, w))
<1> DEFINE bit(k) == IF Bit(a, k) # Bit(b, k) THEN k ELSE 0
           d(k) == Plus(Bit(a, k), Bit(b, k))
<1>1. XorNibble[a][b] = bit(1) + bit(2) + bit(4) + bit(8)
  BY DEF XorNibble
<1>2. bit(8) = 8 * d(8) /\ bit(4) = 4 * d(4) /\ bit(2) = 2 * d(2) /\ bit(1) = d(1)
  BY DEF Plus
<1>3. d(8) \in {0, 1} /\ d(4) \in {0, 1} /\ d(2) \in {0, 1} /\ d(1) \in {0, 1}
  BY DEF Plus
<1> HIDE DEF bit, d
<1>4. XorNibble[a][b] = 8 * d(8) + 4 * d(4) + 2 * d(2) + d(1)
  BY <1>1, <1>2, <1>3
<1>5. /\ XorNibble[a][b] \in Nibble
      /\ Bit(XorNibble[a][b], 8) = d(8) /\ Bit(XorNibble[a][b], 4) = d(4)
      /\ Bit(XorNibble[a][b], 2) = d(2) /\ Bit(XorNibble[a][b], 1) = d(1)
  BY <1>3, <1>4, BitsOf
<1>6. QED
  BY <1>5 DEF d, Weights

\* Exclusive or is a group on nibbles in which all are their own inverse.
LEMMA XorNibbleLaws ==
    ASSUME NEW a \in Nibble, NEW b \in Nibble
    PROVE  /\ XorNibble[a][b] \in Nibble
           /\ XorNibble[a][b] = XorNibble[b][a]
           /\ XorNibble[a][0] = a /\ XorNibble[a][a] = 0
<1>1. 0 \in Nibble
  BY DEF Nibble
<1>2. \A w \in Weights : /\ Bit(a, w) \in {0, 1} /\ Bit(b, w) \in {0, 1} /\ Bit(0, w) = 0
  BY BitIs DEF Weights
<1>3. XorNibble[a][b] = XorNibble[b][a]
  <2>1. \A w \in Weights : Bit(XorNibble[a][b], w) = Bit(XorNibble[b][a], w)
    BY XorBits DEF Plus
  <2>2. QED
    BY <2>1, XorBits, SameBits
<1>4. XorNibble[a][0] = a
  <2>1. \A w \in Weights : Bit(XorNibble[a][0], w) = Bit(a, w)
    BY <1>1, <1>2, XorBits DEF Plus
  <2>2. QED
    BY <1>1, <2>1, XorBits, SameBits
<1>5. XorNibble[a][a] = 0
  <2>1. \A w \in Weights : Bit(XorNibble[a][a], w) = Bit(0, w)
    BY <1>1, <1>2, XorBits DEF Plus
  <2>2. QED
    BY <1>1, <2>1, XorBits, SameBits
<1>6. QED
  BY <1>3, <1>4, <1>5, XorBits

\* ... and associative.
LEMMA XorNibbleAssociates ==
    ASSUME NEW a \in Nibble, NEW b \in Nibble, NEW c \in Nibble
    PROVE  XorNibble[XorNibble[a][b]][c] = XorNibble[a][XorNibble[b][c]]
<1> DEFINE ab == XorNibble[a][b]  bc == XorNibble[b][c]
<1>1. ab \in Nibble /\ bc \in Nibble
  BY XorBits
<1>2. ASSUME NEW w \in Weights
      PROVE  Bit(XorNibble[ab][c], w) = Bit(XorNibble[a][bc], w)
  <2>1. Bit(ab, w) = Plus(Bit(a, w), Bit(b, w)) /\ Bit(bc, w) = Plus(Bit(b, w), Bit(c, w))
    BY XorBits
  <2> HIDE DEF ab, bc
  <2>2. /\ Bit(XorNibble[ab][c], w) = Plus(Bit(ab, w), Bit(c, w))
        /\ Bit(XorNibble[a][bc], w) = Plus(Bit(a, w), Bit(bc, w))
    BY <1>1, XorBits
  <2>3. Bit(a, w) \in {0, 1} /\ Bit(b, w) \in {0, 1} /\ Bit(c, w) \in {0, 1}
    BY BitIs
  <2>4. QED
    BY <2>1, <2>2, <2>3 DEF Plus
<1> HIDE DEF ab, bc
<1>3. XorNibble[ab][c] = XorNibble[a][bc]
  BY <1>1, <1>2, XorBits, SameBits
<1>4. QED
  BY <1>3 DEF ab, bc

\* A byte is two nibbles.
LEMMA ByteParts ==
    /\ \A n \in Byte : n \div 16 \in Nibble /\ n % 16 \in Nibble
                       /\ n = 16 * (n \div 16) + (n % 16)
    /\ \A h, l \in Nibble : /\ 16 * h + l \in Byte
                            /\ (16 * h + l) \div 16 = h /\ (16 * h + l) % 16 = l
BY DEF Byte, Nibble

\* A byte is known by its nibbles.
LEMMA SameParts ==
    ASSUME NEW a \in Byte, NEW b \in Byte, a \div 16 = b \div 16, a % 16 = b % 16
    PROVE  a = b
BY ByteParts

\* The nibbles of an exclusive or of bytes.
LEMMA XorParts ==
    ASSUME NEW a \in Byte, NEW b \in Byte
    PROVE  /\ Xor(a, b) \in Byte
           /\ Xor(a, b) \div 16 = XorNibble[a \div 16][b \div 16]
           /\ Xor(a, b) % 16 = XorNibble[a % 16][b % 16]
<1>1. /\ a \div 16 \in Nibble /\ a % 16 \in Nibble
      /\ b \div 16 \in Nibble /\ b % 16 \in Nibble
  BY ByteParts
<1>2. XorNibble[a \div 16][b \div 16] \in Nibble /\ XorNibble[a % 16][b % 16] \in Nibble
  BY <1>1, XorBits
<1>3. QED
  BY <1>2, ByteParts DEF Xor

\* Exclusive or is a group on bytes in which all are their own inverse.
LEMMA XorLaws ==
    ASSUME NEW a \in Byte, NEW b \in Byte
    PROVE  /\ Xor(a, b) \in Byte /\ Xor(a, b) = Xor(b, a)
           /\ Xor(a, 0) = a /\ Xor(a, a) = 0
<1>1. /\ a \div 16 \in Nibble /\ a % 16 \in Nibble
      /\ b \div 16 \in Nibble /\ b % 16 \in Nibble
  BY ByteParts
<1>2. 0 \in Byte /\ 0 \div 16 = 0 /\ 0 % 16 = 0
  BY DEF Byte
<1>3. Xor(a, b) = Xor(b, a)
  BY <1>1, XorNibbleLaws DEF Xor
<1>4. Xor(a, 0) = a
  BY <1>1, <1>2, XorNibbleLaws, ByteParts DEF Xor
<1>5. Xor(a, a) = 0
  BY <1>1, XorNibbleLaws DEF Xor
<1>6. QED
  BY <1>3, <1>4, <1>5, XorParts

\* ... and associative.
LEMMA XorAssociates ==
    ASSUME NEW a \in Byte, NEW b \in Byte, NEW c \in Byte
    PROVE  Xor(Xor(a, b), c) = Xor(a, Xor(b, c))
<1>1. Xor(a, b) \in Byte /\ Xor(b, c) \in Byte
  BY XorParts
<1>2. /\ a \div 16 \in Nibble /\ a % 16 \in Nibble
      /\ b \div 16 \in Nibble /\ b % 16 \in Nibble
      /\ c \div 16 \in Nibble /\ c % 16 \in Nibble
  BY ByteParts
<1>3. Xor(Xor(a, b), c) \div 16 = Xor(a, Xor(b, c)) \div 16
  <2>1. /\ Xor(Xor(a, b), c) \div 16 = XorNibble[Xor(a, b) \div 16][c \div 16]
        /\ Xor(a, Xor(b, c)) \div 16 = XorNibble[a \div 16][Xor(b, c) \div 16]
        /\ Xor(a, b) \div 16 = XorNibble[a \div 16][b \div 16]
        /\ Xor(b, c) \div 16 = XorNibble[b \div 16][c \div 16]
    BY <1>1, XorParts
  <2>2. QED
    BY <1>2, <2>1, XorNibbleAssociates
<1>4. Xor(Xor(a, b), c) % 16 = Xor(a, Xor(b, c)) % 16
  <2>1. /\ Xor(Xor(a, b), c) % 16 = XorNibble[Xor(a, b) % 16][c % 16]
        /\ Xor(a, Xor(b, c)) % 16 = XorNibble[a % 16][Xor(b, c) % 16]
        /\ Xor(a, b) % 16 = XorNibble[a % 16][b % 16]
        /\ Xor(b, c) % 16 = XorNibble[b % 16][c % 16]
    BY <1>1, XorParts
  <2>2. QED
    BY <1>2, <2>1, XorNibbleAssociates
<1>5. QED
  BY <1>1, <1>3, <1>4, XorParts, SameParts

\* The nibbles after a bit has entered.
LEMMA DivideBits ==
    ASSUME NEW rem \in Byte, NEW bit \in {0, 1}
    PROVE  LET h == rem \div 16
               l == rem % 16
               d == Divide(rem, bit)
           IN  /\ d \in Byte
               /\ Bit(d \div 16, 8) = Bit(h, 4) /\ Bit(d \div 16, 4) = Bit(h, 2)
               /\ Bit(d \div 16, 2) = Bit(h, 1) /\ Bit(d \div 16, 1) = Bit(l, 8)
               /\ Bit(d % 16, 8) = Bit(l, 4)
               /\ Bit(d % 16, 4) = Plus(Bit(l, 2), Bit(h, 8))
               /\ Bit(d % 16, 2) = Plus(Bit(l, 1), Bit(h, 8))
               /\ Bit(d % 16, 1) = Plus(bit, Bit(h, 8))
<1> DEFINE h == rem \div 16
           l == rem % 16
           e == (2 * rem + bit) % 256
<1>1. h \in Nibble /\ l \in Nibble /\ rem = 16 * h + l
  BY ByteParts
<1>2. /\ e \in Byte
      /\ e \div 16 = 8 * Bit(h, 4) + 4 * Bit(h, 2) + 2 * Bit(h, 1) + Bit(l, 8)
      /\ e % 16 = 8 * Bit(l, 4) + 4 * Bit(l, 2) + 2 * Bit(l, 1) + bit
  <2>1. /\ h = 8 * Bit(h, 8) + 4 * Bit(h, 4) + 2 * Bit(h, 2) + Bit(h, 1)
        /\ l = 8 * Bit(l, 8) + 4 * Bit(l, 4) + 2 * Bit(l, 2) + Bit(l, 1)
        /\ \A w \in Weights : Bit(h, w) \in {0, 1} /\ Bit(l, w) \in {0, 1}
    BY <1>1, BitIs
  <2> HIDE DEF h, l
  <2>2. /\ Bit(h, 8) \in {0, 1} /\ Bit(h, 4) \in {0, 1} /\ Bit(h, 2) \in {0, 1} /\ Bit(h, 1) \in {0, 1}
        /\ Bit(l, 8) \in {0, 1} /\ Bit(l, 4) \in {0, 1} /\ Bit(l, 2) \in {0, 1} /\ Bit(l, 1) \in {0, 1}
    BY <2>1 DEF Weights
  <2> DEFINE u == 8 * Bit(h, 4) + 4 * Bit(h, 2) + 2 * Bit(h, 1) + Bit(l, 8)
             v == 8 * Bit(l, 4) + 4 * Bit(l, 2) + 2 * Bit(l, 1) + bit
  <2>3. 2 * rem + bit = 256 * Bit(h, 8) + (16 * u + v)
    BY <1>1, <2>1, <2>2
  <2>4. u \in Nibble /\ v \in Nibble
    BY <2>2 DEF Nibble
  <2> HIDE DEF u, v
  <2>5. 16 * u + v \in Byte /\ (16 * u + v) \div 16 = u /\ (16 * u + v) % 16 = v
    BY <2>4, ByteParts
  <2>6. e = 16 * u + v
    <3>1. PICK y \in 0 .. 255 : y = 16 * u + v
      BY <2>5 DEF Byte
    <3>2. (256 * Bit(h, 8) + y) % 256 = y
      <4>1. Bit(h, 8) = 0 \/ Bit(h, 8) = 1
        BY <2>2
      <4>2. QED
        BY <4>1
    <3>3. QED
      BY <2>3, <3>1, <3>2
  <2>7. QED
    BY <2>5, <2>6 DEF u, v
<1>3. /\ \A w \in Weights : Bit(h, w) \in {0, 1} /\ Bit(l, w) \in {0, 1}
      /\ 8 \in Weights /\ 4 \in Weights /\ 2 \in Weights /\ 1 \in Weights
  BY <1>1, BitIs DEF Weights
<1> HIDE DEF h, l
<1>4. /\ e \div 16 \in Nibble /\ e % 16 \in Nibble
      /\ Bit(e \div 16, 8) = Bit(h, 4) /\ Bit(e \div 16, 4) = Bit(h, 2)
      /\ Bit(e \div 16, 2) = Bit(h, 1) /\ Bit(e \div 16, 1) = Bit(l, 8)
      /\ Bit(e % 16, 8) = Bit(l, 4) /\ Bit(e % 16, 4) = Bit(l, 2)
      /\ Bit(e % 16, 2) = Bit(l, 1) /\ Bit(e % 16, 1) = bit
  <2> DEFINE eh == e \div 16  el == e % 16
  <2>1. /\ eh = 8 * Bit(h, 4) + 4 * Bit(h, 2) + 2 * Bit(h, 1) + Bit(l, 8)
        /\ el = 8 * Bit(l, 4) + 4 * Bit(l, 2) + 2 * Bit(l, 1) + bit
    BY <1>2
  <2> HIDE DEF eh, el
  <2>2. /\ eh \in Nibble
        /\ Bit(eh, 8) = Bit(h, 4) /\ Bit(eh, 4) = Bit(h, 2)
        /\ Bit(eh, 2) = Bit(h, 1) /\ Bit(eh, 1) = Bit(l, 8)
    BY <1>3, <2>1, BitsOf
  <2>3. /\ el \in Nibble
        /\ Bit(el, 8) = Bit(l, 4) /\ Bit(el, 4) = Bit(l, 2)
        /\ Bit(el, 2) = Bit(l, 1) /\ Bit(el, 1) = bit
    BY <1>3, <2>1, BitsOf
  <2>4. QED
    BY <2>2, <2>3 DEF eh, el
<1>5. rem >= 128 <=> Bit(h, 8) = 1
  BY <1>1 DEF Bit, Nibble
<1>6. CASE Bit(h, 8) = 1
  <2>1. Divide(rem, bit) = Xor(e, 7)
    BY <1>5, <1>6 DEF Divide
  <2>2. 7 \in Byte /\ 7 \div 16 = 0 /\ 7 % 16 = 7 /\ 0 \in Nibble /\ 7 \in Nibble
    BY DEF Byte, Nibble
  <2> DEFINE x == Xor(e, 7)
  <2>3. /\ x \in Byte /\ x \div 16 = XorNibble[e \div 16][0] /\ x % 16 = XorNibble[e % 16][7]
    BY <1>2, <2>2, XorParts
  <2>4. x \div 16 = e \div 16
    BY <1>4, <2>2, <2>3, XorNibbleLaws
  <2>5. \A w \in Weights : Bit(x % 16, w) = Plus(Bit(e % 16, w), Bit(7, w))
    BY <1>4, <2>2, <2>3, XorBits
  <2>6. Bit(7, 8) = 0 /\ Bit(7, 4) = 1 /\ Bit(7, 2) = 1 /\ Bit(7, 1) = 1
    BY DEF Bit
  <2> HIDE DEF x, e
  <2>7. /\ Bit(x % 16, 8) = Plus(Bit(l, 4), 0) /\ Bit(x % 16, 4) = Plus(Bit(l, 2), 1)
        /\ Bit(x % 16, 2) = Plus(Bit(l, 1), 1) /\ Bit(x % 16, 1) = Plus(bit, 1)
    BY <1>3, <1>4, <2>5, <2>6
  <2>8. Plus(Bit(l, 4), 0) = Bit(l, 4)
    BY <1>3 DEF Plus
  <2>9. QED
    BY <1>4, <1>6, <2>1, <2>3, <2>4, <2>7, <2>8 DEF x, h, l
<1>7. CASE Bit(h, 8) = 0
  <2>1. rem < 128
    BY <1>1, <1>5, <1>7 DEF Nibble
  <2>2. Divide(rem, bit) = e
    BY <2>1 DEF Divide, Byte
  <2>3. /\ Plus(Bit(l, 2), 0) = Bit(l, 2) /\ Plus(Bit(l, 1), 0) = Bit(l, 1) /\ Plus(bit, 0) = bit
    BY <1>3 DEF Plus
  <2> HIDE DEF e
  <2>4. QED
    BY <1>2, <1>4, <1>7, <2>2, <2>3 DEF h, l
<1>8. QED
  BY <1>3, <1>6, <1>7

\* Division takes sums to sums.
LEMMA DivideLinear ==
    ASSUME NEW a \in Byte, NEW b \in Byte, NEW p \in {0, 1}, NEW q \in {0, 1}
    PROVE  Divide(Xor(a, b), Plus(p, q)) = Xor(Divide(a, p), Divide(b, q))
<1> DEFINE c == Xor(a, b)  r == Plus(p, q)
           da == Divide(a, p)  db == Divide(b, q)  dc == Divide(c, r)
<1>1. /\ c \in Byte /\ c \div 16 = XorNibble[a \div 16][b \div 16]
      /\ c % 16 = XorNibble[a % 16][b % 16]
  BY XorParts
<1>2. r \in {0, 1}
  BY DEF Plus
<1>3. /\ a \div 16 \in Nibble /\ a % 16 \in Nibble
      /\ b \div 16 \in Nibble /\ b % 16 \in Nibble
  BY ByteParts
<1> HIDE DEF c
<1>4. \A w \in Weights : /\ Bit(c \div 16, w) = Plus(Bit(a \div 16, w), Bit(b \div 16, w))
                         /\ Bit(c % 16, w) = Plus(Bit(a % 16, w), Bit(b % 16, w))
                         /\ Bit(a \div 16, w) \in {0, 1} /\ Bit(b \div 16, w) \in {0, 1}
                         /\ Bit(a % 16, w) \in {0, 1} /\ Bit(b % 16, w) \in {0, 1}
  BY <1>1, <1>3, XorBits, BitIs
<1>5. da \in Byte /\ db \in Byte /\ dc \in Byte
  BY <1>1, <1>2, DivideBits
<1>6. /\ da \div 16 \in Nibble /\ da % 16 \in Nibble
      /\ db \div 16 \in Nibble /\ db % 16 \in Nibble
      /\ dc \div 16 \in Nibble /\ dc % 16 \in Nibble
  BY <1>5, ByteParts
<1>7. \A u, v, x, y \in {0, 1} : Plus(Plus(u, v), Plus(x, y)) = Plus(Plus(u, x), Plus(v, y))
  BY DEF Plus
<1>8. \A w \in Weights : Bit(dc \div 16, w) = Plus(Bit(da \div 16, w), Bit(db \div 16, w))
  <2>1. 8 \in Weights /\ 4 \in Weights /\ 2 \in Weights /\ 1 \in Weights
    BY DEF Weights
  <2>2. \A w \in Weights : w = 8 \/ w = 4 \/ w = 2 \/ w = 1
    BY DEF Weights
  <2>a. /\ Bit(da \div 16, 8) = Bit(a \div 16, 4) /\ Bit(da \div 16, 4) = Bit(a \div 16, 2)
        /\ Bit(da \div 16, 2) = Bit(a \div 16, 1) /\ Bit(da \div 16, 1) = Bit(a % 16, 8)
    BY DivideBits
  <2>b. /\ Bit(db \div 16, 8) = Bit(b \div 16, 4) /\ Bit(db \div 16, 4) = Bit(b \div 16, 2)
        /\ Bit(db \div 16, 2) = Bit(b \div 16, 1) /\ Bit(db \div 16, 1) = Bit(b % 16, 8)
    BY DivideBits
  <2>c. /\ Bit(dc \div 16, 8) = Bit(c \div 16, 4) /\ Bit(dc \div 16, 4) = Bit(c \div 16, 2)
        /\ Bit(dc \div 16, 2) = Bit(c \div 16, 1) /\ Bit(dc \div 16, 1) = Bit(c % 16, 8)
    BY <1>1, <1>2, DivideBits
  <2> HIDE DEF da, db, dc
  <2>3. QED
    BY <1>4, <2>1, <2>2, <2>a, <2>b, <2>c
<1>9. \A w \in Weights : Bit(dc % 16, w) = Plus(Bit(da % 16, w), Bit(db % 16, w))
  <2>1. 8 \in Weights /\ 4 \in Weights /\ 2 \in Weights /\ 1 \in Weights
    BY DEF Weights
  <2>2. \A w \in Weights : w = 8 \/ w = 4 \/ w = 2 \/ w = 1
    BY DEF Weights
  <2>a. /\ Bit(da % 16, 8) = Bit(a % 16, 4)
        /\ Bit(da % 16, 4) = Plus(Bit(a % 16, 2), Bit(a \div 16, 8))
        /\ Bit(da % 16, 2) = Plus(Bit(a % 16, 1), Bit(a \div 16, 8))
        /\ Bit(da % 16, 1) = Plus(p, Bit(a \div 16, 8))
    BY DivideBits
  <2>b. /\ Bit(db % 16, 8) = Bit(b % 16, 4)
        /\ Bit(db % 16, 4) = Plus(Bit(b % 16, 2), Bit(b \div 16, 8))
        /\ Bit(db % 16, 2) = Plus(Bit(b % 16, 1), Bit(b \div 16, 8))
        /\ Bit(db % 16, 1) = Plus(q, Bit(b \div 16, 8))
    BY DivideBits
  <2>c. /\ Bit(dc % 16, 8) = Bit(c % 16, 4)
        /\ Bit(dc % 16, 4) = Plus(Bit(c % 16, 2), Bit(c \div 16, 8))
        /\ Bit(dc % 16, 2) = Plus(Bit(c % 16, 1), Bit(c \div 16, 8))
        /\ Bit(dc % 16, 1) = Plus(r, Bit(c \div 16, 8))
    BY <1>1, <1>2, DivideBits
  <2> HIDE DEF da, db, dc
  <2>3. /\ Bit(dc % 16, 8) = Plus(Bit(da % 16, 8), Bit(db % 16, 8))
        /\ Bit(dc % 16, 4) = Plus(Bit(da % 16, 4), Bit(db % 16, 4))
        /\ Bit(dc % 16, 2) = Plus(Bit(da % 16, 2), Bit(db % 16, 2))
        /\ Bit(dc % 16, 1) = Plus(Bit(da % 16, 1), Bit(db % 16, 1))
    BY <1>4, <1>7, <2>1, <2>a, <2>b, <2>c
  <2>4. QED
    BY <2>2, <2>3
<1> HIDE DEF da, db, dc
<1> DEFINE x == Xor(da, db)
<1>10. /\ x \in Byte /\ x \div 16 = XorNibble[da \div 16][db \div 16]
       /\ x % 16 = XorNibble[da % 16][db % 16]
  BY <1>5, XorParts
<1> HIDE DEF x
<1>11. dc \div 16 = x \div 16
  BY <1>6, <1>8, <1>10, XorBits, SameBits
<1>12. dc % 16 = x % 16
  BY <1>6, <1>9, <1>10, XorBits, SameBits
<1>13. QED
  BY <1>5, <1>10, <1>11, <1>12, SameParts DEF c, da, db, dc, x

\* A nibble enters and leaves a byte.
LEMMA DivideNibbleType ==
    ASSUME NEW a \in Byte, NEW n \in Nibble
    PROVE  DivideNibble(a, n) \in Byte
<1>1. \A w \in Weights : Bit(n, w) \in {0, 1}
  BY BitIs
<1>2. Bit(n, 8) \in {0, 1} /\ Bit(n, 4) \in {0, 1} /\ Bit(n, 2) \in {0, 1} /\ Bit(n, 1) \in {0, 1}
  BY <1>1 DEF Weights
<1>3. \A r \in Byte, p \in {0, 1} : Divide(r, p) \in Byte
  BY DivideBits
<1>4. QED
  BY <1>2, <1>3 DEF DivideNibble

\* The remainder is linear in the old one and what enters.
LEMMA DivideNibbleLinear ==
    ASSUME NEW a \in Byte, NEW b \in Byte, NEW m \in Nibble, NEW n \in Nibble
    PROVE  DivideNibble(Xor(a, b), XorNibble[m][n])
             = Xor(DivideNibble(a, m), DivideNibble(b, n))
<1>1. /\ Bit(XorNibble[m][n], 8) = Plus(Bit(m, 8), Bit(n, 8))
      /\ Bit(XorNibble[m][n], 4) = Plus(Bit(m, 4), Bit(n, 4))
      /\ Bit(XorNibble[m][n], 2) = Plus(Bit(m, 2), Bit(n, 2))
      /\ Bit(XorNibble[m][n], 1) = Plus(Bit(m, 1), Bit(n, 1))
  BY XorBits DEF Weights
<1>2. \A w \in Weights : Bit(m, w) \in {0, 1} /\ Bit(n, w) \in {0, 1}
  BY BitIs
<1>3. /\ Bit(m, 8) \in {0, 1} /\ Bit(m, 4) \in {0, 1} /\ Bit(m, 2) \in {0, 1} /\ Bit(m, 1) \in {0, 1}
      /\ Bit(n, 8) \in {0, 1} /\ Bit(n, 4) \in {0, 1} /\ Bit(n, 2) \in {0, 1} /\ Bit(n, 1) \in {0, 1}
  BY <1>2 DEF Weights
<1> DEFINE a1 == Divide(a, Bit(m, 8))   b1 == Divide(b, Bit(n, 8))
           a2 == Divide(a1, Bit(m, 4))  b2 == Divide(b1, Bit(n, 4))
           a3 == Divide(a2, Bit(m, 2))  b3 == Divide(b2, Bit(n, 2))
<1>4. \A r \in Byte, p \in {0, 1} : Divide(r, p) \in Byte
  BY DivideBits
<1>5. a1 \in Byte /\ b1 \in Byte /\ a2 \in Byte /\ b2 \in Byte /\ a3 \in Byte /\ b3 \in Byte
  BY <1>3, <1>4
<1>6. Divide(Xor(a, b), Plus(Bit(m, 8), Bit(n, 8))) = Xor(a1, b1)
  BY <1>3, DivideLinear
<1> HIDE DEF a1, b1
<1>7. Divide(Xor(a1, b1), Plus(Bit(m, 4), Bit(n, 4))) = Xor(a2, b2)
  BY <1>3, <1>5, DivideLinear
<1> HIDE DEF a2, b2
<1>8. Divide(Xor(a2, b2), Plus(Bit(m, 2), Bit(n, 2))) = Xor(a3, b3)
  BY <1>3, <1>5, DivideLinear
<1> HIDE DEF a3, b3
<1>9. Divide(Xor(a3, b3), Plus(Bit(m, 1), Bit(n, 1)))
        = Xor(Divide(a3, Bit(m, 1)), Divide(b3, Bit(n, 1)))
  BY <1>3, <1>5, DivideLinear
<1>10. /\ DivideNibble(a, m) = Divide(a3, Bit(m, 1))
       /\ DivideNibble(b, n) = Divide(b3, Bit(n, 1))
  BY DEF DivideNibble, a1, a2, a3, b1, b2, b3
<1>11. QED
  BY <1>1, <1>6, <1>7, <1>8, <1>9, <1>10 DEF DivideNibble

\* A nibble enters an empty upper half.
LEMMA NibbleEnters ==
    ASSUME NEW l \in Nibble, NEW n \in Nibble
    PROVE  DivideNibble(l, n) = 16 * l + n
<1>1. \A w \in Weights : Bit(n, w) \in {0, 1}
  BY BitIs
<1>2. PICK p \in {0, 1}, q \in {0, 1}, r \in {0, 1}, s \in {0, 1} :
         p = Bit(n, 8) /\ q = Bit(n, 4) /\ r = Bit(n, 2) /\ s = Bit(n, 1)
  BY <1>1 DEF Weights
<1>3. n = 8 * p + 4 * q + 2 * r + s
  BY <1>2, BitIs
<1>4. \A x \in 0 .. 127, y \in {0, 1} : Divide(x, y) = 2 * x + y
  BY DEF Divide
<1>5. Divide(l, p) = 2 * l + p
  BY <1>4 DEF Nibble
<1>6. Divide(2 * l + p, q) = 4 * l + 2 * p + q
  BY <1>4 DEF Nibble
<1>7. Divide(4 * l + 2 * p + q, r) = 8 * l + 4 * p + 2 * q + r
  BY <1>4 DEF Nibble
<1>8. Divide(8 * l + 4 * p + 2 * q + r, s) = 16 * l + 8 * p + 4 * q + 2 * r + s
  <2>1. 8 * l + 4 * p + 2 * q + r \in 0 .. 127
    BY DEF Nibble
  <2>2. QED
    BY <1>4, <2>1 DEF Nibble
<1>9. DivideNibble(l, n) = 16 * l + 8 * p + 4 * q + 2 * r + s
  BY <1>2, <1>5, <1>6, <1>7, <1>8 DEF DivideNibble
<1>10. QED
  BY <1>3, <1>9 DEF Nibble

\* The table holds what is left of a nibble that leaves.
LEMMA TableIs ==
    ASSUME NEW h \in Nibble
    PROVE  DivideNibble(16 * h, 0) = crc_table[h + 1]
<1>1. \A w \in Weights : Bit(h, w) \in {0, 1}
  BY BitIs
<1>2. PICK p \in {0, 1}, q \in {0, 1}, r \in {0, 1}, s \in {0, 1} :
         p = Bit(h, 8) /\ q = Bit(h, 4) /\ r = Bit(h, 2) /\ s = Bit(h, 1)
  BY <1>1 DEF Weights
<1>3. h = 8 * p + 4 * q + 2 * r + s
  BY <1>2, BitIs
<1>4. 0 \in Nibble /\ 0 \in {0, 1}
  BY DEF Nibble
<1>5. Bit(0, 8) = 0 /\ Bit(0, 4) = 0 /\ Bit(0, 2) = 0 /\ Bit(0, 1) = 0
  BY DEF Bit
<1>6. 16 * h \in Byte /\ (16 * h) \div 16 = h /\ (16 * h) % 16 = 0
  BY DEF Nibble, Byte
<1>7. \A x \in {0, 1} : Plus(0, x) = x
  BY DEF Plus
<1> DEFINE d1 == Divide(16 * h, 0)  d2 == Divide(d1, 0)
           d3 == Divide(d2, 0)      d4 == Divide(d3, 0)
<1>8. /\ d1 \in Byte
      /\ Bit(d1 \div 16, 8) = q /\ Bit(d1 \div 16, 4) = r
      /\ Bit(d1 \div 16, 2) = s /\ Bit(d1 \div 16, 1) = 0
      /\ Bit(d1 % 16, 8) = 0 /\ Bit(d1 % 16, 4) = p /\ Bit(d1 % 16, 2) = p
      /\ Bit(d1 % 16, 1) = p
  <2> DEFINE z == 16 * h
  <2>1. z \in Byte /\ z \div 16 = h /\ z % 16 = 0
    BY <1>6
  <2> HIDE DEF z
  <2>2. /\ Divide(z, 0) \in Byte
        /\ Bit(Divide(z, 0) \div 16, 8) = q /\ Bit(Divide(z, 0) \div 16, 4) = r
        /\ Bit(Divide(z, 0) \div 16, 2) = s /\ Bit(Divide(z, 0) \div 16, 1) = 0
        /\ Bit(Divide(z, 0) % 16, 8) = 0 /\ Bit(Divide(z, 0) % 16, 4) = Plus(0, p)
        /\ Bit(Divide(z, 0) % 16, 2) = Plus(0, p) /\ Bit(Divide(z, 0) % 16, 1) = Plus(0, p)
    BY <1>2, <1>4, <1>5, <2>1, DivideBits
  <2>3. QED
    BY <1>7, <2>2 DEF z
<1> HIDE DEF d1
<1>9. /\ d2 \in Byte
      /\ Bit(d2 \div 16, 8) = r /\ Bit(d2 \div 16, 4) = s
      /\ Bit(d2 \div 16, 2) = 0 /\ Bit(d2 \div 16, 1) = 0
      /\ Bit(d2 % 16, 8) = p /\ Bit(d2 % 16, 4) = Plus(p, q)
      /\ Bit(d2 % 16, 2) = Plus(p, q) /\ Bit(d2 % 16, 1) = q
  BY <1>4, <1>7, <1>8, DivideBits
<1> HIDE DEF d2
<1>10. /\ d3 \in Byte
       /\ Bit(d3 \div 16, 8) = s /\ Bit(d3 \div 16, 4) = 0
       /\ Bit(d3 \div 16, 2) = 0 /\ Bit(d3 \div 16, 1) = p
       /\ Bit(d3 % 16, 8) = Plus(p, q) /\ Bit(d3 % 16, 4) = Plus(Plus(p, q), r)
       /\ Bit(d3 % 16, 2) = Plus(q, r) /\ Bit(d3 % 16, 1) = r
  BY <1>4, <1>7, <1>9, DivideBits
<1> HIDE DEF d3
<1>11. /\ d4 \in Byte
       /\ Bit(d4 \div 16, 8) = 0 /\ Bit(d4 \div 16, 4) = 0
       /\ Bit(d4 \div 16, 2) = p /\ Bit(d4 \div 16, 1) = Plus(p, q)
       /\ Bit(d4 % 16, 8) = Plus(Plus(p, q), r) /\ Bit(d4 % 16, 4) = Plus(Plus(q, r), s)
       /\ Bit(d4 % 16, 2) = Plus(r, s) /\ Bit(d4 % 16, 1) = s
  BY <1>4, <1>7, <1>10, DivideBits
<1>12. DivideNibble(16 * h, 0) = d4
  BY <1>5 DEF DivideNibble, d1, d2, d3
<1> HIDE DEF d4
<1>13. /\ d4 \div 16 = 2 * p + Plus(p, q)
       /\ d4 % 16 = 8 * Plus(Plus(p, q), r) + 4 * Plus(Plus(q, r), s) + 2 * Plus(r, s) + s
       /\ d4 = 16 * (d4 \div 16) + (d4 % 16)
  <2>1. d4 \div 16 \in Nibble /\ d4 % 16 \in Nibble /\ d4 = 16 * (d4 \div 16) + (d4 % 16)
    BY <1>11, ByteParts
  <2> DEFINE u == d4 \div 16  v == d4 % 16
  <2>2. /\ u = 8 * Bit(u, 8) + 4 * Bit(u, 4) + 2 * Bit(u, 2) + Bit(u, 1)
        /\ v = 8 * Bit(v, 8) + 4 * Bit(v, 4) + 2 * Bit(v, 2) + Bit(v, 1)
    BY <2>1, BitIs
  <2>3. Plus(p, q) \in {0, 1}
    BY DEF Plus
  <2>4. QED
    BY <1>11, <2>1, <2>2, <2>3
<1>14. /\ Len(crc_table) = 16
       /\ crc_table[1] = 0 /\ crc_table[2] = 7 /\ crc_table[3] = 14 /\ crc_table[4] = 9
       /\ crc_table[5] = 28 /\ crc_table[6] = 27 /\ crc_table[7] = 18 /\ crc_table[8] = 21
       /\ crc_table[9] = 56 /\ crc_table[10] = 63 /\ crc_table[11] = 54 /\ crc_table[12] = 49
       /\ crc_table[13] = 36 /\ crc_table[14] = 35 /\ crc_table[15] = 42 /\ crc_table[16] = 45
  BY DEF crc_table
<1>15. CASE p = 0 /\ q = 0
  <2>1. CASE r = 0 /\ s = 0
    BY <1>3, <1>12, <1>13, <1>14, <1>15, <2>1 DEF Plus
  <2>2. CASE r = 0 /\ s = 1
    BY <1>3, <1>12, <1>13, <1>14, <1>15, <2>2 DEF Plus
  <2>3. CASE r = 1 /\ s = 0
    BY <1>3, <1>12, <1>13, <1>14, <1>15, <2>3 DEF Plus
  <2>4. CASE r = 1 /\ s = 1
    BY <1>3, <1>12, <1>13, <1>14, <1>15, <2>4 DEF Plus
  <2>5. QED
    BY <2>1, <2>2, <2>3, <2>4
<1>16. CASE p = 0 /\ q = 1
  <2>1. CASE r = 0 /\ s = 0
    BY <1>3, <1>12, <1>13, <1>14, <1>16, <2>1 DEF Plus
  <2>2. CASE r = 0 /\ s = 1
    BY <1>3, <1>12, <1>13, <1>14, <1>16, <2>2 DEF Plus
  <2>3. CASE r = 1 /\ s = 0
    BY <1>3, <1>12, <1>13, <1>14, <1>16, <2>3 DEF Plus
  <2>4. CASE r = 1 /\ s = 1
    BY <1>3, <1>12, <1>13, <1>14, <1>16, <2>4 DEF Plus
  <2>5. QED
    BY <2>1, <2>2, <2>3, <2>4
<1>17. CASE p = 1 /\ q = 0
  BY <1>3, <1>12, <1>13, <1>14, <1>17 DEF Plus
<1>18. CASE p = 1 /\ q = 1
  BY <1>3, <1>12, <1>13, <1>14, <1>18 DEF Plus
<1>19. QED
  BY <1>15, <1>16, <1>17, <1>18

\* So a step of the table is four steps of the division.
LEMMA NibbleIsDivided ==
    ASSUME NEW crc_ \in Byte, NEW n \in Nibble
    PROVE  /\ 16 * n \in Byte
           /\ crc_nibble(crc_, n) = DivideNibble(Xor(crc_, 16 * n), 0)
<1> DEFINE h == crc_ \div 16  l == crc_ % 16  v == XorNibble[h][n]
<1>1. h \in Nibble /\ l \in Nibble /\ crc_ = 16 * h + l
  BY ByteParts
<1>2. v \in Nibble /\ 0 \in Nibble /\ XorNibble[0][0] = 0 /\ XorNibble[l][0] = l
  BY <1>1, XorNibbleLaws DEF Nibble
<1>3. (crc_ * 16) % 256 = 16 * l
  BY <1>1 DEF Nibble
<1>4. /\ 16 * n \in Byte /\ (16 * n) \div 16 = n /\ (16 * n) % 16 = 0
  BY DEF Nibble, Byte
<1> DEFINE x == Xor(crc_, 16 * n)
<1>5. x \in Byte /\ x \div 16 = v /\ x % 16 = l
  BY <1>2, <1>4, XorParts
<1> HIDE DEF v, l
<1>6. /\ 16 * v \in Byte /\ (16 * v) \div 16 = v /\ (16 * v) % 16 = 0
      /\ l \in Byte /\ l \div 16 = 0 /\ l % 16 = l
  BY <1>1, <1>2 DEF Nibble, Byte
<1>7. x = Xor(16 * v, l)
  <2>1. /\ Xor(16 * v, l) \in Byte
        /\ Xor(16 * v, l) \div 16 = XorNibble[v][0]
        /\ Xor(16 * v, l) % 16 = XorNibble[0][l]
    BY <1>6, XorParts
  <2>2. XorNibble[v][0] = v /\ XorNibble[0][l] = l
    BY <1>1, <1>2, XorNibbleLaws
  <2> HIDE DEF x
  <2>3. QED
    BY <1>5, <2>1, <2>2, SameParts
<1>8. DivideNibble(Xor(16 * v, l), 0) = Xor(DivideNibble(16 * v, 0), DivideNibble(l, 0))
  BY <1>2, <1>6, DivideNibbleLinear
<1>9. DivideNibble(16 * v, 0) = crc_table[v + 1] /\ DivideNibble(l, 0) = 16 * l
  <2>1. DivideNibble(l, 0) = 16 * l + 0
    BY <1>1, <1>2, NibbleEnters
  <2>2. 16 * l + 0 = 16 * l
    BY <1>1 DEF Nibble
  <2>3. QED
    BY <1>2, <2>1, <2>2, TableIs
<1>10. crc_nibble(crc_, n) = Xor(crc_table[v + 1], 16 * l)
  BY <1>3 DEF crc_nibble, v
<1>11. QED
  BY <1>4, <1>7, <1>8, <1>9, <1>10

\* crc8.c:28-41: the table does what dividing by eight bits does.
LEMMA UpdateIsDivided ==
    ASSUME NEW crc_ \in Byte, NEW c \in Byte
    PROVE  /\ Xor(crc_, c) \in Byte
           /\ crc_update(crc_, c) = DivideByte(Xor(crc_, c), 0)
           /\ crc_update(crc_, c) \in Byte
<1> DEFINE h == c \div 16  l == c % 16  x == Xor(crc_, 16 * h)
           y == DivideNibble(x, 0)
<1>1. h \in Nibble /\ l \in Nibble /\ c = 16 * h + l /\ 0 \in Nibble
  BY ByteParts DEF Nibble
<1>2. /\ 16 * h \in Byte /\ (16 * h) \div 16 = h /\ (16 * h) % 16 = 0
      /\ l \in Byte /\ l \div 16 = 0 /\ l % 16 = l /\ 0 \div 16 = 0 /\ 0 % 16 = 0
  BY <1>1 DEF Nibble, Byte
<1>3. x \in Byte /\ y \in Byte
  BY <1>1, <1>2, XorParts, DivideNibbleType
<1>4. c = Xor(16 * h, l)
  <2>1. /\ Xor(16 * h, l) \in Byte
        /\ Xor(16 * h, l) \div 16 = XorNibble[h][0]
        /\ Xor(16 * h, l) % 16 = XorNibble[0][l]
    BY <1>2, XorParts
  <2>2. XorNibble[h][0] = h /\ XorNibble[0][l] = l
    BY <1>1, XorNibbleLaws
  <2>3. QED
    BY <2>1, <2>2, SameParts
<1>5. Xor(crc_, c) = Xor(x, l)
  BY <1>2, <1>4, XorAssociates
<1>6. crc_nibble(crc_, h) = y
  BY <1>1, NibbleIsDivided
<1>7. crc_nibble(y, l) = DivideNibble(Xor(y, 16 * l), 0)
  BY <1>1, <1>3, NibbleIsDivided
<1>8. DivideNibble(Xor(x, l), 0) = Xor(y, 16 * l)
  <2>1. DivideNibble(Xor(x, l), XorNibble[0][0]) = Xor(y, DivideNibble(l, 0))
    BY <1>1, <1>2, <1>3, DivideNibbleLinear
  <2>2. XorNibble[0][0] = 0 /\ DivideNibble(l, 0) = 16 * l + 0 /\ 16 * l + 0 = 16 * l
    BY <1>1, XorNibbleLaws, NibbleEnters DEF Nibble
  <2>3. QED
    BY <2>1, <2>2
<1>9. crc_update(crc_, c) = crc_nibble(y, l)
  BY <1>6 DEF crc_update
<1>10. DivideByte(Xor(crc_, c), 0) = DivideNibble(DivideNibble(Xor(crc_, c), 0), 0)
  BY <1>2 DEF DivideByte
<1>11. Xor(crc_, c) \in Byte
  BY XorParts
<1>12. DivideNibble(DivideNibble(Xor(crc_, c), 0), 0) \in Byte
  BY <1>1, <1>11, DivideNibbleType
<1> HIDE DEF x, y, h, l
<1>13. QED
  BY <1>5, <1>7, <1>8, <1>9, <1>10, <1>11, <1>12

\* A byte enters a remainder, linearly.
LEMMA ByteEnters ==
    ASSUME NEW r \in Byte, NEW c \in Byte
    PROVE  /\ DivideByte(r, 0) \in Byte /\ DivideByte(r, c) \in Byte
           /\ DivideByte(r, c) = Xor(DivideByte(r, 0), c)
<1> DEFINE h == c \div 16  l == c % 16  x == DivideNibble(r, 0)
<1>1. /\ h \in Nibble /\ l \in Nibble /\ c = 16 * h + l /\ 0 \in Nibble
      /\ h \in Byte /\ 0 \in Byte /\ 0 \div 16 = 0 /\ 0 % 16 = 0
  BY ByteParts DEF Nibble, Byte
<1>2. x \in Byte
  BY <1>1, DivideNibbleType
<1>3. XorNibble[0][h] = h /\ XorNibble[0][l] = l
  BY <1>1, XorNibbleLaws
<1>4. Xor(r, 0) = r
  BY <1>1, XorLaws
<1>5. DivideNibble(r, h) = Xor(x, h)
  <2>1. DivideNibble(Xor(r, 0), XorNibble[0][h]) = Xor(x, DivideNibble(0, h))
    BY <1>1, DivideNibbleLinear
  <2>2. DivideNibble(0, h) = 16 * 0 + h /\ 16 * 0 + h = h
    BY <1>1, NibbleEnters DEF Nibble
  <2>3. QED
    BY <1>3, <1>4, <2>1, <2>2
<1>6. DivideNibble(Xor(x, h), l) = Xor(DivideNibble(x, 0), c)
  <2>1. DivideNibble(Xor(x, h), XorNibble[0][l]) = Xor(DivideNibble(x, 0), DivideNibble(h, l))
    BY <1>1, <1>2, DivideNibbleLinear
  <2>2. DivideNibble(h, l) = c
    BY <1>1, NibbleEnters
  <2>3. QED
    BY <1>3, <2>1, <2>2
<1>7. DivideByte(r, 0) = DivideNibble(x, 0) /\ DivideByte(r, 0) \in Byte
  BY <1>1, <1>2, DivideNibbleType DEF DivideByte
<1>8. DivideByte(r, c) = Xor(DivideNibble(x, 0), c)
  BY <1>5, <1>6 DEF DivideByte
<1> HIDE DEF x, h, l
<1>9. QED
  BY <1>7, <1>8, XorParts

\* crc8.c:34-37 against the division: the CRC with one byte more is the remainder
\* with one byte more.
LEMMA UpdateIsRemainder ==
    ASSUME NEW r \in Byte, NEW c \in Byte
    PROVE  crc_update(DivideByte(r, 0), c) = DivideByte(DivideByte(r, c), 0)
BY ByteEnters, UpdateIsDivided

\* What goes in twice leaves nothing.
LEMMA OwnCrcCancels ==
    ASSUME NEW r \in Byte
    PROVE  crc_update(r, r) = 0
<1>1. Xor(r, r) = 0
  BY XorLaws
<1>2. 0 \in Nibble /\ 0 \div 16 = 0 /\ 0 % 16 = 0
  BY DEF Nibble
<1>3. DivideNibble(0, 0) = 0
  <2>1. DivideNibble(0, 0) = 16 * 0 + 0
    BY <1>2, NibbleEnters
  <2>2. QED
    BY <2>1
<1>4. QED
  BY <1>1, <1>2, <1>3, UpdateIsDivided DEF DivideByte

-----------------------------------------------------------------------------
(* Sequences of bytes, by induction. *)

\* Induction, as a fact about a set of numbers.
LEMMA Induct ==
    ASSUME NEW T, 0 \in T, \A k \in Nat : k \in T => k + 1 \in T
    PROVE  \A k \in Nat : k \in T
<1> DEFINE B == {k \in Nat : k \notin T}
<1>1. SUFFICES ASSUME B # {} PROVE FALSE
  OBVIOUS
<1>2. IsWellFoundedOn(OpToRel(<, Nat), Nat)
  BY NatLessThanWellFounded
<1>3. PICK m \in B : \A n \in B : <<n, m>> \notin OpToRel(<, Nat)
  BY <1>1, <1>2, WFMin
<1>4. \A n \in B : ~(n < m)
  BY <1>3 DEF OpToRel
<1>5. m # 0 /\ m - 1 \in Nat /\ m - 1 \notin B
  BY <1>4
<1>6. QED
  BY <1>5

\* What the functions f[1] .. f[N] make of z, one after the other.
IsFold(g, N, S, z, f) ==
    /\ g \in [0 .. N -> S] /\ g[0] = z
    /\ \A n \in 1 .. N : g[n] = f[n][g[n - 1]]

\* The functions can be applied one after the other.
LEMMA FoldExists ==
    ASSUME NEW N \in Nat, NEW S, NEW z \in S, NEW f \in [1 .. N -> [S -> S]]
    PROVE  \E g : IsFold(g, N, S, z, f)
<1> DEFINE Good(k, g) == g[0] = z /\ \A n \in 1 .. k : g[n] = f[n][g[n - 1]]
           T == {k \in Nat : k <= N => \E g \in [0 .. k -> S] : Good(k, g)}
<1>1. 0 \in T
  <2>1. [i \in 0 .. 0 |-> z] \in [0 .. 0 -> S] /\ Good(0, [i \in 0 .. 0 |-> z])
    OBVIOUS
  <2>2. QED
    BY <2>1
<1>2. ASSUME NEW k \in Nat, k \in T PROVE k + 1 \in T
  <2> SUFFICES ASSUME k + 1 <= N PROVE \E g \in [0 .. k + 1 -> S] : Good(k + 1, g)
    OBVIOUS
  <2>1. PICK g \in [0 .. k -> S] : Good(k, g)
    BY <1>2
  <2> DEFINE h == [i \in 0 .. k + 1 |-> IF i <= k THEN g[i] ELSE f[k + 1][g[k]]]
  <2>2. f[k + 1][g[k]] \in S
    <3>1. k + 1 \in 1 .. N /\ g[k] \in S
      OBVIOUS
    <3>2. QED
      BY <3>1
  <2>3. h \in [0 .. k + 1 -> S]
    BY <2>2
  <2>4. h[0] = z
    BY <2>1
  <2>5. ASSUME NEW n \in 1 .. k + 1 PROVE h[n] = f[n][h[n - 1]]
    <3>1. CASE n <= k
      <4>1. h[n] = g[n] /\ h[n - 1] = g[n - 1] /\ n \in 1 .. k
        BY <3>1
      <4>2. QED
        BY <2>1, <4>1
    <3>2. CASE n = k + 1
      <4>1. h[n] = f[n][g[k]] /\ h[n - 1] = g[k]
        BY <3>2
      <4>2. QED
        BY <4>1
    <3>3. QED
      BY <3>1, <3>2
  <2>6. QED
    BY <2>3, <2>4, <2>5
<1> HIDE DEF T
<1>3. N \in T
  BY <1>1, <1>2, Induct
<1>4. QED
  BY <1>3 DEF T, IsFold

\* The CRCs of the beginnings of a sequence.
LEMMA CrcsAre ==
    ASSUME NEW s \in Seq(Byte)
    PROVE  /\ Crcs(s) \in [0 .. Len(s) -> Byte]
           /\ Crcs(s)[0] = 0
           /\ \A n \in 1 .. Len(s) : Crcs(s)[n] = crc_update(Crcs(s)[n - 1], s[n])
<1> DEFINE Is(g) == g = [n \in 0 .. Len(s) |->
                            IF n = 0 THEN crc_init ELSE crc_update(g[n - 1], s[n])]
<1>1. Crcs(s) = CHOOSE g : Is(g)
  BY Zenon DEF Crcs
<1>2. Len(s) \in Nat /\ \A n \in 1 .. Len(s) : s[n] \in Byte
  BY LenProperties, ElementOfSeq
<1>3. PICK g \in [0 .. Len(s) -> Byte] :
         g[0] = 0 /\ \A n \in 1 .. Len(s) : g[n] = crc_update(g[n - 1], s[n])
  <2> DEFINE f == [n \in 1 .. Len(s) |-> [r \in Byte |-> crc_update(r, s[n])]]
  <2>1. f \in [1 .. Len(s) -> [Byte -> Byte]]
    BY <1>2, UpdateIsDivided
  <2>2. 0 \in Byte
    BY DEF Byte
  <2>3. PICK g \in [0 .. Len(s) -> Byte] :
           g[0] = 0 /\ \A n \in 1 .. Len(s) : g[n] = f[n][g[n - 1]]
    <3> DEFINE N == Len(s)
    <3>1. N \in Nat /\ f \in [1 .. N -> [Byte -> Byte]]
      BY <1>2, <2>1
    <3> HIDE DEF f, N
    <3>2. \E g : IsFold(g, N, Byte, 0, f)
      BY <2>2, <3>1, FoldExists
    <3>3. QED
      BY <3>2 DEF N, IsFold
  <2>4. \A n \in 1 .. Len(s) : n - 1 \in 0 .. Len(s)
    BY <1>2
  <2>5. \A n \in 1 .. Len(s) : g[n - 1] \in Byte
    BY <2>4
  <2>6. \A n \in 1 .. Len(s) : f[n][g[n - 1]] = crc_update(g[n - 1], s[n])
    BY <2>5
  <2>7. QED
    BY <2>3, <2>6
<1>4. Is(g)
  <2> DEFINE h == [n \in 0 .. Len(s) |->
                      IF n = 0 THEN crc_init ELSE crc_update(g[n - 1], s[n])]
  <2>1. \A n \in 0 .. Len(s) : g[n] = h[n]
    BY <1>2, <1>3 DEF crc_init
  <2>2. g = h
    BY <2>1
  <2>3. QED
    BY <2>2
<1> HIDE DEF Is
<1>5. Is(Crcs(s))
  BY <1>1, <1>4, Zenon
<1> DEFINE c == Crcs(s)
<1> HIDE DEF c
<1>6. c = [n \in 0 .. Len(s) |->
              IF n = 0 THEN crc_init ELSE crc_update(c[n - 1], s[n])]
  BY <1>5 DEF Is, c
<1>7. c[0] = 0 /\ \A n \in 1 .. Len(s) : c[n] = crc_update(c[n - 1], s[n])
  <2>1. \A n \in 1 .. Len(s) : n \in 0 .. Len(s) /\ n # 0
    OBVIOUS
  <2>2. 0 \in 0 .. Len(s)
    BY <1>2
  <2>3. QED
    BY <1>6, <2>1, <2>2 DEF crc_init
<1>8. c \in [0 .. Len(s) -> Byte]
  <2> DEFINE T == {k \in Nat : k <= Len(s) => c[k] \in Byte}
  <2>1. 0 \in T
    BY <1>7 DEF Byte
  <2>2. ASSUME NEW k \in Nat, k \in T PROVE k + 1 \in T
    <3> SUFFICES ASSUME k + 1 <= Len(s) PROVE c[k + 1] \in Byte
      OBVIOUS
    <3>1. k + 1 \in 1 .. Len(s) /\ k + 1 - 1 = k /\ c[k] \in Byte
      BY <1>2, <2>2
    <3>2. c[k + 1] = crc_update(c[k], s[k + 1])
      BY <1>7, <3>1
    <3>3. QED
      BY <1>2, <3>1, <3>2, UpdateIsDivided
  <2> HIDE DEF T
  <2>3. \A k \in Nat : k \in T
    BY <2>1, <2>2, Induct
  <2>4. \A k \in 0 .. Len(s) : c[k] \in Byte
    BY <2>3 DEF T
  <2>5. QED
    BY <1>6, <2>4
<1>9. QED
  BY <1>7, <1>8 DEF c

\* The remainders of the beginnings of a sequence.
LEMMA RemaindersAre ==
    ASSUME NEW s \in Seq(Byte)
    PROVE  /\ Remainders(s) \in [0 .. Len(s) -> Byte]
           /\ Remainders(s)[0] = 0
           /\ \A n \in 1 .. Len(s) : Remainders(s)[n] = DivideByte(Remainders(s)[n - 1], s[n])
<1> DEFINE Is(g) == g = [n \in 0 .. Len(s) |->
                            IF n = 0 THEN 0 ELSE DivideByte(g[n - 1], s[n])]
<1>1. Remainders(s) = CHOOSE g : Is(g)
  BY Zenon DEF Remainders
<1>2. Len(s) \in Nat /\ \A n \in 1 .. Len(s) : s[n] \in Byte
  BY LenProperties, ElementOfSeq
<1>3. PICK g \in [0 .. Len(s) -> Byte] :
         g[0] = 0 /\ \A n \in 1 .. Len(s) : g[n] = DivideByte(g[n - 1], s[n])
  <2> DEFINE f == [n \in 1 .. Len(s) |-> [r \in Byte |-> DivideByte(r, s[n])]]
  <2>1. f \in [1 .. Len(s) -> [Byte -> Byte]]
    BY <1>2, ByteEnters
  <2>2. 0 \in Byte
    BY DEF Byte
  <2>3. PICK g \in [0 .. Len(s) -> Byte] :
           g[0] = 0 /\ \A n \in 1 .. Len(s) : g[n] = f[n][g[n - 1]]
    <3> DEFINE N == Len(s)
    <3>1. N \in Nat /\ f \in [1 .. N -> [Byte -> Byte]]
      BY <1>2, <2>1
    <3> HIDE DEF f, N
    <3>2. \E g : IsFold(g, N, Byte, 0, f)
      BY <2>2, <3>1, FoldExists
    <3>3. QED
      BY <3>2 DEF N, IsFold
  <2>4. \A n \in 1 .. Len(s) : n - 1 \in 0 .. Len(s)
    BY <1>2
  <2>5. \A n \in 1 .. Len(s) : g[n - 1] \in Byte
    BY <2>4
  <2>6. \A n \in 1 .. Len(s) : f[n][g[n - 1]] = DivideByte(g[n - 1], s[n])
    BY <2>5
  <2>7. QED
    BY <2>3, <2>6
<1>4. Is(g)
  <2> DEFINE h == [n \in 0 .. Len(s) |->
                      IF n = 0 THEN 0 ELSE DivideByte(g[n - 1], s[n])]
  <2>1. \A n \in 0 .. Len(s) : g[n] = h[n]
    BY <1>2, <1>3
  <2>2. g = h
    BY <2>1
  <2>3. QED
    BY <2>2
<1> HIDE DEF Is
<1>5. Is(Remainders(s))
  BY <1>1, <1>4, Zenon
<1> DEFINE c == Remainders(s)
<1> HIDE DEF c
<1>6. c = [n \in 0 .. Len(s) |->
              IF n = 0 THEN 0 ELSE DivideByte(c[n - 1], s[n])]
  BY <1>5 DEF Is, c
<1>7. c[0] = 0 /\ \A n \in 1 .. Len(s) : c[n] = DivideByte(c[n - 1], s[n])
  <2>1. \A n \in 1 .. Len(s) : n \in 0 .. Len(s) /\ n # 0
    OBVIOUS
  <2>2. 0 \in 0 .. Len(s)
    BY <1>2
  <2>3. QED
    BY <1>6, <2>1, <2>2
<1>8. c \in [0 .. Len(s) -> Byte]
  <2> DEFINE T == {k \in Nat : k <= Len(s) => c[k] \in Byte}
  <2>1. 0 \in T
    BY <1>7 DEF Byte
  <2>2. ASSUME NEW k \in Nat, k \in T PROVE k + 1 \in T
    <3> SUFFICES ASSUME k + 1 <= Len(s) PROVE c[k + 1] \in Byte
      OBVIOUS
    <3>1. k + 1 \in 1 .. Len(s) /\ k + 1 - 1 = k /\ c[k] \in Byte
      BY <1>2, <2>2
    <3>2. c[k + 1] = DivideByte(c[k], s[k + 1])
      BY <1>7, <3>1
    <3>3. QED
      BY <1>2, <3>1, <3>2, ByteEnters
  <2> HIDE DEF T
  <2>3. \A k \in Nat : k \in T
    BY <2>1, <2>2, Induct
  <2>4. \A k \in 0 .. Len(s) : c[k] \in Byte
    BY <2>3 DEF T
  <2>5. QED
    BY <1>6, <2>4
<1>9. QED
  BY <1>7, <1>8 DEF c

\* The beginning of a sequence has the CRC and the remainder it has alone.
LEMMA OneByteMore ==
    ASSUME NEW s \in Seq(Byte), NEW b \in Byte
    PROVE  /\ Append(s, b) \in Seq(Byte)
           /\ Crc(Append(s, b)) = crc_update(Crc(s), b)
           /\ Remainder(Append(s, b)) = crc_update(Remainder(s), b)
<1> DEFINE t == Append(s, b)
<1>1. /\ t \in Seq(Byte) /\ Len(s) \in Nat /\ Len(t) = Len(s) + 1 /\ t[Len(s) + 1] = b
      /\ \A n \in 1 .. Len(s) : t[n] = s[n]
  BY AppendProperties, LenProperties
<1> HIDE DEF t
<1>2. Crcs(t)[Len(s)] = Crcs(s)[Len(s)]
  <2> DEFINE T == {k \in Nat : k <= Len(s) => Crcs(t)[k] = Crcs(s)[k]}
  <2>1. 0 \in T
    BY <1>1, CrcsAre
  <2>2. ASSUME NEW k \in Nat, k \in T PROVE k + 1 \in T
    <3> SUFFICES ASSUME k + 1 <= Len(s) PROVE Crcs(t)[k + 1] = Crcs(s)[k + 1]
      OBVIOUS
    <3>1. /\ k + 1 \in 1 .. Len(s) /\ k + 1 \in 1 .. Len(t) /\ k + 1 - 1 = k
          /\ Crcs(t)[k] = Crcs(s)[k]
      BY <1>1, <2>2
    <3>2. Crcs(t)[k + 1] = crc_update(Crcs(t)[k], t[k + 1])
      BY <1>1, <3>1, CrcsAre
    <3>3. Crcs(s)[k + 1] = crc_update(Crcs(s)[k], s[k + 1])
      BY <3>1, CrcsAre
    <3>4. QED
      BY <1>1, <3>1, <3>2, <3>3
  <2> HIDE DEF T
  <2>3. Len(s) \in T
    BY <1>1, <2>1, <2>2, Induct
  <2>4. QED
    BY <1>1, <2>3 DEF T
<1>3. Remainders(t)[Len(s)] = Remainders(s)[Len(s)]
  <2> DEFINE T == {k \in Nat : k <= Len(s) => Remainders(t)[k] = Remainders(s)[k]}
  <2>1. 0 \in T
    BY <1>1, RemaindersAre
  <2>2. ASSUME NEW k \in Nat, k \in T PROVE k + 1 \in T
    <3> SUFFICES ASSUME k + 1 <= Len(s) PROVE Remainders(t)[k + 1] = Remainders(s)[k + 1]
      OBVIOUS
    <3>1. /\ k + 1 \in 1 .. Len(s) /\ k + 1 \in 1 .. Len(t) /\ k + 1 - 1 = k
          /\ Remainders(t)[k] = Remainders(s)[k]
      BY <1>1, <2>2
    <3>2. Remainders(t)[k + 1] = DivideByte(Remainders(t)[k], t[k + 1])
      BY <1>1, <3>1, RemaindersAre
    <3>3. Remainders(s)[k + 1] = DivideByte(Remainders(s)[k], s[k + 1])
      BY <3>1, RemaindersAre
    <3>4. QED
      BY <1>1, <3>1, <3>2, <3>3
  <2> HIDE DEF T
  <2>3. Len(s) \in T
    BY <1>1, <2>1, <2>2, Induct
  <2>4. QED
    BY <1>1, <2>3 DEF T
<1>4. Len(t) \in 1 .. Len(t) /\ Len(t) - 1 = Len(s)
  BY <1>1
<1>5. Crc(t) = crc_update(Crc(s), b)
  <2>1. Crcs(t)[Len(t)] = crc_update(Crcs(t)[Len(t) - 1], t[Len(t)])
    BY <1>1, <1>4, CrcsAre
  <2>2. QED
    BY <1>1, <1>2, <1>4, <2>1 DEF Crc
<1>6. Remainder(t) = crc_update(Remainder(s), b)
  <2>1. Remainders(t)[Len(t)] = DivideByte(Remainders(t)[Len(t) - 1], t[Len(t)])
    BY <1>1, <1>4, RemaindersAre
  <2>2. Remainders(t)[Len(t)] = DivideByte(Remainders(s)[Len(s)], b)
    BY <1>1, <1>3, <1>4, <2>1
  <2>3. Remainders(s)[Len(s)] \in Byte
    BY <1>1, RemaindersAre
  <2>4. QED
    BY <2>2, <2>3, UpdateIsRemainder DEF Remainder
<1>7. QED
  BY <1>1, <1>5, <1>6 DEF t

\* Of no bytes.
LEMMA NoBytes ==
    /\ <<>> \in Seq(Byte) /\ Crc(<<>>) = 0 /\ Remainder(<<>>) = 0 /\ 0 \in Byte
<1>1. <<>> \in Seq(Byte) /\ Len(<<>>) = 0 /\ 0 \in Byte
  BY DEF Byte
<1>2. Crc(<<>>) = 0
  BY <1>1, CrcsAre DEF Crc
<1>3. Remainders(<<>>)[0] = 0
  BY <1>1, RemaindersAre
<1>4. 0 \in Nibble /\ 0 \div 16 = 0 /\ 0 % 16 = 0
  BY DEF Nibble
<1>5. DivideNibble(0, 0) = 0
  <2>1. DivideNibble(0, 0) = 16 * 0 + 0
    BY <1>4, NibbleEnters
  <2>2. QED
    BY <2>1
<1>6. QED
  BY <1>1, <1>2, <1>3, <1>4, <1>5 DEF Remainder, DivideByte

\* A CRC and a remainder are bytes.
LEMMA CrcType ==
    ASSUME NEW s \in Seq(Byte)
    PROVE  Crc(s) \in Byte
BY LenProperties, CrcsAre DEF Crc

\* A frame with its CRC has the CRC 0.
LEMMA WithItsCrc ==
    ASSUME NEW s \in Seq(Byte)
    PROVE  Append(s, Crc(s)) \in Seq(Byte) /\ Crc(Append(s, Crc(s))) = 0
BY CrcType, OneByteMore, OwnCrcCancels

-----------------------------------------------------------------------------
(* What is kept whatever comes: types, the buffer and its CRC. *)

\* A frame that readers should take.
GoodFrame(f) == f \in Seq(Byte) /\ Len(f) >= 3 /\ Crc(f) = 0

TypeInv ==
    /\ dir \in {"down", "up"}
    /\ sent \in Seq(Seq(Byte)) /\ \A i \in 1 .. Len(sent) : GoodFrame(sent[i])
    /\ accepted \in Seq(Seq(Byte))
    /\ out \in Seq(Byte) /\ buff \in Seq(Byte) /\ crc \in Byte
    /\ esc \in BOOLEAN /\ skip \in BOOLEAN /\ debugged \in BOOLEAN
    /\ drops \in Nat /\ cost \in Nat
    /\ out # <<>> => sent # <<>>
    /\ dir = "down" => IF skip THEN Len(buff) = BufSize ELSE Len(buff) < BufSize
    /\ dir = "up" => ~skip

\* tlay2.cpp:45-49 and crc8.c: the device's CRC is that of its buffer, and the
\* remainder of the division.
CrcInv == dir = "down" => crc = Crc(buff) /\ crc = Remainder(buff)

\* What escaping does to a byte gives a byte.
LEMMA XorType ==
    ASSUME NEW c \in Byte
    PROVE  Xor(c, 128) \in Byte
<1>1. 128 \in Byte
  BY DEF Byte
<1>2. QED
  BY <1>1, XorLaws

\* What is put of a byte.
LEMMA Escaped ==
    ASSUME NEW c \in Byte
    PROVE  /\ put_escaped(c) \in Seq(Byte) /\ put_escaped(c) # <<>>
           /\ c \notin {NL, ESC} => put_escaped(c) = <<c>>
           /\ c \in {NL, ESC} => put_escaped(c) = <<ESC, Xor(c, 128)>>
<1>1. ESC \in Byte
  BY DEF ESC, Byte
<1>2. QED
  BY <1>1, XorType DEF put_escaped

\* 138 and 92.
LEMMA EscapedBytes ==
    /\ Xor(NL, 128) \notin {NL, ESC} /\ Xor(ESC, 128) \notin {NL, ESC}
    /\ Xor(Xor(NL, 128), 128) = NL /\ Xor(Xor(ESC, 128), 128) = ESC
<1>1. NL \in Byte /\ ESC \in Byte /\ 128 \in Byte /\ NL # ESC
  BY DEF NL, ESC, Byte
<1>2. ASSUME NEW c \in Byte
      PROVE  Xor(c, 128) \in Byte /\ Xor(Xor(c, 128), 128) = c
  <2>1. Xor(Xor(c, 128), 128) = Xor(c, Xor(128, 128))
    BY <1>1, XorAssociates
  <2>2. QED
    BY <1>1, <2>1, XorLaws
<1>3. Xor(NL, 128) % 16 = 10 /\ Xor(ESC, 128) % 16 = 12
  <2>1. 10 \in Nibble /\ 12 \in Nibble
    BY DEF Nibble
  <2>2. NL % 16 = 10 /\ ESC % 16 = 12 /\ 128 % 16 = 0
    BY DEF NL, ESC
  <2>3. QED
    BY <1>1, <2>1, <2>2, XorParts, XorNibbleLaws
<1>4. Xor(NL, 128) # NL /\ Xor(ESC, 128) # ESC
  <2>1. ASSUME NEW c \in Byte, Xor(c, 128) = c
        PROVE  FALSE
    <3>1. Xor(c, Xor(c, 128)) = Xor(c, c)
      BY <2>1
    <3>2. Xor(c, Xor(c, 128)) = Xor(Xor(c, c), 128)
      BY <1>1, XorAssociates
    <3>3. Xor(c, c) = 0 /\ 0 \in Byte
      BY XorLaws DEF Byte
    <3>4. Xor(0, 128) = 128
      BY <1>1, <3>3, XorLaws
    <3>5. QED
      BY <3>1, <3>2, <3>3, <3>4
  <2>2. QED
    BY <1>1, <2>1
<1>5. NL % 16 = 10 /\ ESC % 16 = 12
  BY DEF NL, ESC
<1>6. QED
  BY <1>1, <1>2, <1>3, <1>4, <1>5

\* What is put of a frame, from its end.
LEMMA PutsAre ==
    ASSUME NEW s \in Seq(Byte)
    PROVE  /\ Puts(s) \in [0 .. Len(s) -> Seq(Byte)]
           /\ Puts(s)[0] = <<NL>>
           /\ \A n \in 1 .. Len(s) :
                 Puts(s)[n] = put_escaped(s[Len(s) - n + 1]) \o Puts(s)[n - 1]
<1> DEFINE Is(g) == g = [n \in 0 .. Len(s) |->
                            IF n = 0 THEN <<NL>>
                            ELSE put_escaped(s[Len(s) - n + 1]) \o g[n - 1]]
<1>1. Puts(s) = CHOOSE g : Is(g)
  BY Zenon DEF Puts
<1>2. Len(s) \in Nat /\ \A n \in 1 .. Len(s) : s[n] \in Byte
  BY LenProperties, ElementOfSeq
<1>3. \A n \in 1 .. Len(s) : put_escaped(s[Len(s) - n + 1]) \in Seq(Byte)
  <2>1. \A n \in 1 .. Len(s) : Len(s) - n + 1 \in 1 .. Len(s)
    BY <1>2
  <2>2. QED
    BY <1>2, <2>1, Escaped
<1> DEFINE e == [n \in 1 .. Len(s) |-> put_escaped(s[Len(s) - n + 1])]
<1>4. PICK g \in [0 .. Len(s) -> Seq(Byte)] :
         g[0] = <<NL>> /\ \A n \in 1 .. Len(s) : g[n] = e[n] \o g[n - 1]
  <2> DEFINE N == Len(s)
             f == [n \in 1 .. N |-> [q \in Seq(Byte) |-> e[n] \o q]]
             z == <<NL>>
  <2>1. N \in Nat /\ f \in [1 .. N -> [Seq(Byte) -> Seq(Byte)]]
    <3>1. \A n \in 1 .. N : e[n] \in Seq(Byte)
      BY <1>3
    <3> HIDE DEF e
    <3>2. \A n \in 1 .. N, q \in Seq(Byte) : e[n] \o q \in Seq(Byte)
      BY <3>1, ConcatProperties
    <3>3. QED
      BY <1>2, <3>2
  <2>2. z \in Seq(Byte)
    BY DEF NL, Byte
  <2>3. \E g : IsFold(g, N, Seq(Byte), z, f)
    <3> HIDE DEF f, N, z
    <3>1. QED
      BY <2>1, <2>2, FoldExists
  <2>4. PICK g : IsFold(g, N, Seq(Byte), z, f)
    BY <2>3
  <2>5. \A n \in 1 .. N : g[n - 1] \in Seq(Byte)
    BY <1>2, <2>4 DEF IsFold
  <2>6. \A n \in 1 .. N : f[n][g[n - 1]] = e[n] \o g[n - 1]
    <3> HIDE DEF e
    <3>1. QED
      BY <2>5
  <2> HIDE DEF f, e
  <2>7. QED
    BY <2>4, <2>6 DEF IsFold
<1>5. Is(g)
  <2> DEFINE h == [n \in 0 .. Len(s) |-> IF n = 0 THEN <<NL>>
                                         ELSE put_escaped(s[Len(s) - n + 1]) \o g[n - 1]]
  <2>1. \A n \in 0 .. Len(s) : g[n] = h[n]
    <3>1. ASSUME NEW n \in 1 .. Len(s)
          PROVE  g[n] = put_escaped(s[Len(s) - n + 1]) \o g[n - 1]
      BY <1>4
    <3>2. ASSUME NEW n \in 0 .. Len(s), n # 0
          PROVE  n \in 1 .. Len(s)
      BY <1>2
    <3> HIDE DEF e
    <3>3. QED
      BY <1>4, <3>1, <3>2
  <2>2. g = h
    BY <2>1
  <2>3. QED
    BY <2>2
<1> HIDE DEF Is, e
<1>6. Is(Puts(s))
  BY <1>1, <1>5, Zenon
<1> DEFINE c == Puts(s)
<1> HIDE DEF c
<1>7. c = [n \in 0 .. Len(s) |-> IF n = 0 THEN <<NL>>
                                 ELSE put_escaped(s[Len(s) - n + 1]) \o c[n - 1]]
  BY <1>6 DEF Is, c
<1>8. /\ c[0] = <<NL>>
      /\ \A n \in 1 .. Len(s) : c[n] = put_escaped(s[Len(s) - n + 1]) \o c[n - 1]
  <2>1. \A n \in 1 .. Len(s) : n \in 0 .. Len(s) /\ n # 0
    OBVIOUS
  <2>2. 0 \in 0 .. Len(s)
    BY <1>2
  <2>3. QED
    BY <1>7, <2>1, <2>2
<1>9. c \in [0 .. Len(s) -> Seq(Byte)]
  <2> DEFINE T == {k \in Nat : k <= Len(s) => c[k] \in Seq(Byte)}
  <2>1. 0 \in T
    <3>1. <<NL>> \in Seq(Byte)
      BY DEF Byte, NL
    <3>2. QED
      BY <1>8, <3>1
  <2>2. ASSUME NEW k \in Nat, k \in T PROVE k + 1 \in T
    <3> SUFFICES ASSUME k + 1 <= Len(s) PROVE c[k + 1] \in Seq(Byte)
      OBVIOUS
    <3>1. k + 1 \in 1 .. Len(s) /\ k + 1 - 1 = k /\ c[k] \in Seq(Byte)
      BY <1>2, <2>2
    <3>2. PICK m \in 1 .. Len(s) : m = k + 1 /\ m - 1 = k
      BY <3>1
    <3>3. c[m] = put_escaped(s[Len(s) - m + 1]) \o c[m - 1]
      BY <1>8
    <3>4. put_escaped(s[Len(s) - m + 1]) \in Seq(Byte)
      BY <1>3
    <3>5. QED
      BY <3>1, <3>2, <3>3, <3>4, ConcatProperties
  <2> HIDE DEF T
  <2>3. \A k \in Nat : k \in T
    BY <2>1, <2>2, Induct
  <2>4. \A k \in 0 .. Len(s) : c[k] \in Seq(Byte)
    BY <2>3 DEF T
  <2>5. QED
    BY <1>7, <2>4
<1>10. QED
  BY <1>8, <1>9 DEF c

\* Beginnings of a sequence.
LEMMA Beginning ==
    ASSUME NEW S, NEW s \in Seq(S), NEW k \in 0 .. Len(s)
    PROVE  /\ SubSeq(s, 1, k) \in Seq(S) /\ Len(SubSeq(s, 1, k)) = k
           /\ \A i \in 1 .. k : SubSeq(s, 1, k)[i] = s[i]
<1>1. Len(s) \in Nat /\ \A i \in 1 .. k : s[i] \in S
  BY LenProperties, ElementOfSeq
<1>2. k \in Int /\ 1 \in Int
  BY <1>1
<1>3. /\ SubSeq(s, 1, k) \in Seq(S)
      /\ Len(SubSeq(s, 1, k)) = IF 1 <= k THEN k - 1 + 1 ELSE 0
      /\ \A i \in 1 .. k - 1 + 1 : SubSeq(s, 1, k)[i] = s[1 + i - 1]
  BY <1>1, <1>2, SubSeqProperties
<1>4. k - 1 + 1 = k /\ \A i \in 1 .. k : 1 + i - 1 = i
  BY <1>2
<1>5. QED
  BY <1>1, <1>3, <1>4

\* A beginning with the next element.
LEMMA BeginningGrows ==
    ASSUME NEW S, NEW s \in Seq(S), NEW k \in 0 .. Len(s)
    PROVE  /\ k < Len(s) => Append(SubSeq(s, 1, k), s[k + 1]) = SubSeq(s, 1, k + 1)
           /\ SubSeq(s, 1, Len(s)) = s /\ SubSeq(s, 1, 0) = <<>>
<1>1. Len(s) \in Nat /\ k \in Nat
  BY LenProperties
<1>2. ASSUME k < Len(s)
      PROVE  Append(SubSeq(s, 1, k), s[k + 1]) = SubSeq(s, 1, k + 1)
  <2> DEFINE a == SubSeq(s, 1, k)  b == SubSeq(s, 1, k + 1)  c == s[k + 1]
  <2>1. k + 1 \in 1 .. Len(s) /\ k + 1 \in 0 .. Len(s) /\ c \in S
    BY <1>1, <1>2, ElementOfSeq
  <2>2. a \in Seq(S) /\ Len(a) = k /\ \A i \in 1 .. k : a[i] = s[i]
    BY Beginning
  <2>3. b \in Seq(S) /\ Len(b) = k + 1 /\ \A i \in 1 .. k + 1 : b[i] = s[i]
    BY <2>1, Beginning
  <2>4. b[k + 1] = c
    BY <1>1, <2>3
  <2> HIDE DEF a, b, c
  <2>5. /\ Append(a, c) \in Seq(S) /\ Len(Append(a, c)) = k + 1
        /\ \A i \in 1 .. k : Append(a, c)[i] = a[i] /\ Append(a, c)[k + 1] = c
    BY <2>1, <2>2, AppendProperties
  <2>6. \A i \in 1 .. k + 1 : Append(a, c)[i] = b[i]
    <3>1. \A i \in 1 .. k + 1 : i \in 1 .. k \/ i = k + 1
      BY <1>1
    <3>2. Append(a, c)[k + 1] = c
      BY <2>1, <2>2, AppendProperties
    <3>3. QED
      BY <2>2, <2>3, <2>4, <2>5, <3>1, <3>2
  <2>7. Append(a, c) = b
    BY <2>3, <2>5, <2>6, SeqEqual
  <2>8. QED
    BY <2>7 DEF a, b, c
<1>3. SubSeq(s, 1, Len(s)) = s
  BY SubSeqFull
<1>4. SubSeq(s, 1, 0) = <<>>
  BY SubSeqEmpty
<1>5. QED
  BY <1>2, <1>3, <1>4

\* The reader takes the byte c.
Reads(c) == IF dir = "down" THEN process(c) ELSE server_read(c)

\* With the invariant: what the reader's step may do.
LEMMA ReadsKeeps ==
    ASSUME TypeInv, CrcInv, NEW c \in Byte, Reads(c), dir' = dir
    PROVE  /\ buff' \in Seq(Byte) /\ crc' \in Byte /\ esc' \in BOOLEAN /\ skip' \in BOOLEAN
           /\ accepted' \in Seq(Seq(Byte)) /\ Len(accepted') >= Len(accepted)
           /\ dir = "down" => IF skip' THEN Len(buff') = BufSize ELSE Len(buff') < BufSize
           /\ dir = "up" => ~skip'
           /\ CrcInv'
<1>1. /\ buff \in Seq(Byte) /\ crc \in Byte /\ esc \in BOOLEAN /\ skip \in BOOLEAN
      /\ accepted \in Seq(Seq(Byte)) /\ dir \in {"down", "up"} /\ Len(buff) \in Nat
      /\ dir = "down" => IF skip THEN Len(buff) = BufSize ELSE Len(buff) < BufSize
      /\ dir = "up" => ~skip
  BY LenProperties DEF TypeInv
<1>2. /\ Append(accepted, buff) \in Seq(Seq(Byte))
      /\ Len(Append(accepted, buff)) = Len(accepted) + 1 /\ Len(accepted) \in Nat
  BY <1>1, AppendProperties, LenProperties
<1>3. /\ <<>> \in Seq(Byte) /\ Len(<<>>) = 0 /\ 0 \in Byte
      /\ Crc(<<>>) = 0 /\ Remainder(<<>>) = 0
  BY NoBytes
<1>4. Xor(c, 128) \in Byte
  BY XorType
<1>5. ASSUME NEW b \in Byte
      PROVE  /\ Append(buff, b) \in Seq(Byte) /\ Len(Append(buff, b)) = Len(buff) + 1
             /\ crc_update(crc, b) \in Byte
             /\ dir = "down" => /\ crc_update(crc, b) = Crc(Append(buff, b))
                                /\ crc_update(crc, b) = Remainder(Append(buff, b))
  BY <1>1, AppendProperties, OneByteMore, UpdateIsDivided DEF CrcInv
<1>6. CASE dir = "down"
  <2>1. process(c)
    BY <1>6 DEF Reads
  <2>2. CASE skip /\ c = NL
    <3>1. reset
      BY <2>1, <2>2 DEF process
    <3>2. /\ buff' = <<>> /\ crc' = 0 /\ esc' = FALSE /\ skip' = FALSE /\ accepted' = accepted
      BY <3>1 DEF reset, crc_init
    <3>3. CrcInv'
      BY <1>3, <3>2 DEF CrcInv
    <3>4. Len(buff') < BufSize /\ ~skip' /\ Len(accepted') >= Len(accepted)
      BY <1>2, <1>3, <3>2, Tlay2Assumption
    <3>5. /\ buff' \in Seq(Byte) /\ crc' \in Byte /\ esc' \in BOOLEAN /\ skip' \in BOOLEAN
          /\ accepted' \in Seq(Seq(Byte))
      BY <1>1, <1>3, <3>2
    <3>6. QED
      BY <3>3, <3>4, <3>5
  <2>3. CASE skip /\ c # NL
    <3>1. UNCHANGED <<buff, crc, esc, skip, accepted>>
      BY <2>1, <2>3 DEF process
    <3>2. QED
      BY <1>1, <1>2, <3>1 DEF CrcInv
  <2>4. CASE ~skip
    <3>1. ASSUME NEW b \in Byte, store(b)
          PROVE  /\ buff' \in Seq(Byte) /\ crc' \in Byte /\ esc' \in BOOLEAN
                 /\ skip' \in BOOLEAN /\ accepted' = accepted
                 /\ IF skip' THEN Len(buff') = BufSize ELSE Len(buff') < BufSize
                 /\ crc' = Crc(buff') /\ crc' = Remainder(buff')
      <4>1. /\ buff' = Append(buff, b) /\ crc' = crc_update(crc, b) /\ esc' = FALSE
            /\ skip' = (Len(buff') = BufSize) /\ accepted' = accepted
        BY <3>1 DEF store
      <4>2. Len(buff') <= BufSize /\ Len(buff') \in Nat
        BY <1>1, <1>5, <1>6, <2>4, <4>1, Tlay2Assumption
      <4>3. skip' \in BOOLEAN
        BY <4>1, Zenon
      <4>4. skip' <=> Len(buff') = BufSize
        BY <4>1, Zenon
      <4>5. QED
        <5>1. IF skip' THEN Len(buff') = BufSize ELSE Len(buff') < BufSize
          <6>1. Len(buff') = BufSize \/ Len(buff') < BufSize
            BY <4>2, Tlay2Assumption
          <6>2. QED
            BY <4>4, <6>1
        <5>2. buff' \in Seq(Byte) /\ crc' \in Byte /\ crc' = Crc(buff') /\ crc' = Remainder(buff')
          BY <1>5, <1>6, <4>1
        <5>3. QED
          BY <4>1, <4>3, <5>1, <5>2
    <3>2. CASE store(Xor(c, 128)) \/ store(c)
      <4>1. PICK b \in Byte : store(b)
        BY <1>4, <3>2
      <4>2. QED
        BY <1>1, <1>2, <1>6, <3>1, <4>1 DEF CrcInv
    <3>3. CASE frame_end
      <4>1. /\ buff' = <<>> /\ crc' = 0 /\ esc' = esc /\ skip' = skip
            /\ accepted' \in {accepted, Append(accepted, buff)}
        BY <3>3 DEF frame_end, crc_init
      <4>2. QED
        <5>1. CrcInv'
          BY <1>3, <4>1 DEF CrcInv
        <5>2. Len(buff') < BufSize /\ ~skip' /\ Len(accepted') >= Len(accepted)
          BY <1>2, <1>3, <2>4, <4>1, Tlay2Assumption
        <5>3. /\ buff' \in Seq(Byte) /\ crc' \in Byte /\ esc' \in BOOLEAN
              /\ skip' \in BOOLEAN /\ accepted' \in Seq(Seq(Byte))
          BY <1>1, <1>2, <1>3, <4>1
        <5>4. QED
          BY <5>1, <5>2, <5>3
    <3>4. CASE esc' = TRUE /\ UNCHANGED <<buff, crc, skip, accepted>>
      BY <1>1, <1>2, <3>4 DEF CrcInv
    <3>5. QED
      BY <2>1, <2>4, <3>2, <3>3, <3>4 DEF process
  <2>5. QED
    BY <2>2, <2>3, <2>4
<1>7. CASE dir = "up"
  <2>1. server_read(c)
    BY <1>7 DEF Reads
  <2>2. crc' = crc /\ skip' = skip
    BY <2>1 DEF server_read
  <2>a. CrcInv'
    BY <1>7 DEF CrcInv
  <2>3. CASE esc
    <3>1. buff' = Append(buff, Xor(c, 128)) /\ esc' = FALSE /\ accepted' = accepted
      BY <2>1, <2>3 DEF server_read
    <3>2. buff' \in Seq(Byte) /\ esc' \in BOOLEAN
      BY <1>1, <1>4, <1>5, <3>1
    <3>3. accepted' \in Seq(Seq(Byte)) /\ Len(accepted') >= Len(accepted)
      BY <1>1, <1>2, <3>1
    <3>4. QED
      BY <1>1, <1>7, <2>2, <2>a, <3>2, <3>3
  <2>4. CASE ~esc /\ c = NL
    <3>1. /\ buff' = <<>> /\ esc' = esc
          /\ accepted' \in {accepted, Append(accepted, buff)}
      BY <2>1, <2>4 DEF server_read
    <3>2. QED
      BY <1>1, <1>2, <1>3, <1>7, <2>2, <3>1 DEF CrcInv
  <2>5. CASE ~esc /\ c # NL
    <3>1. \/ esc' = TRUE /\ buff' = buff /\ accepted' = accepted
          \/ buff' = Append(buff, c) /\ esc' = esc /\ accepted' = accepted
      BY <2>1, <2>5 DEF server_read
    <3>2. buff' \in Seq(Byte) /\ esc' \in BOOLEAN
      BY <1>1, <1>5, <3>1
    <3>3. accepted' \in Seq(Seq(Byte)) /\ Len(accepted') >= Len(accepted)
      BY <1>1, <1>2, <3>1
    <3>4. QED
      BY <1>1, <1>7, <2>2, <2>a, <3>2, <3>3
  <2>6. QED
    BY <2>3, <2>4, <2>5
<1>8. QED
  BY <1>1, <1>6, <1>7

\* What Frame makes ends in its CRC.
LEMMA FrameIsGood ==
    ASSUME NEW ctr \in Byte, NEW pid \in Byte, NEW p \in Seq(Byte)
    PROVE  GoodFrame(Frame(ctr, pid, p))
<1> DEFINE s == <<ctr, pid>> \o p
<1>1. s \in Seq(Byte) /\ Len(s) = 2 + Len(p) /\ Len(p) \in Nat
  <2>1. <<ctr, pid>> \in Seq(Byte) /\ Len(<<ctr, pid>>) = 2
    OBVIOUS
  <2>2. QED
    BY <2>1, ConcatProperties, LenProperties
<1> HIDE DEF s
<1>2. Append(s, Crc(s)) \in Seq(Byte) /\ Crc(Append(s, Crc(s))) = 0
  BY <1>1, WithItsCrc
<1>3. Len(Append(s, Crc(s))) = Len(s) + 1
  BY <1>1, CrcType, AppendProperties
<1>4. Frame(ctr, pid, p) = Append(s, Crc(s))
  BY DEF Frame, s
<1>5. QED
  BY <1>1, <1>2, <1>3, <1>4 DEF GoodFrame

\* The debug message too.
LEMMA DebugIsGood == GoodFrame(DebugMessage)
<1>1. 0 \in Byte /\ <<68>> \in Seq(Byte)
  BY DEF Byte
<1>2. QED
  BY <1>1, FrameIsGood DEF DebugMessage

\* What is sent is a good frame.
LEMMA SentAreGood ==
    ASSUME TypeInv, msgout \/ dbgout
    PROVE  \E f : GoodFrame(f) /\ send(f)
<1>1. Len(sent) \in Nat
  BY LenProperties DEF TypeInv
<1>2. (Len(sent) % 255) + 1 \in Byte /\ 0 \in Byte /\ 1 \in Byte
  <2>1. \A m \in Nat : (m % 255) + 1 \in 0 .. 255
    OBVIOUS
  <2>2. (Len(sent) % 255) + 1 \in Byte
    BY <1>1, <2>1, Zenon DEF Byte
  <2>3. QED
    BY <2>2 DEF Byte
<1>3. CASE msgout
  <2>1. PICK p \in Payloads : send(Frame((Len(sent) % 255) + 1, 1, p))
    BY <1>3 DEF msgout
  <2>2. p \in Seq(Byte)
    BY Tlay2Assumption
  <2>3. QED
    BY <1>2, <2>1, <2>2, FrameIsGood
<1>4. CASE dbgout
  <2>1. PICK p \in Payloads : send(Frame(0, 0, p))
    BY <1>4 DEF dbgout
  <2>2. p \in Seq(Byte)
    BY Tlay2Assumption
  <2>3. QED
    BY <1>2, <2>1, <2>2, FrameIsGood
<1>5. QED
  BY <1>3, <1>4

\* Bytes are put.
LEMMA EncodedType ==
    ASSUME NEW f \in Seq(Byte)
    PROVE  Encoded(f) \in Seq(Byte)
<1>1. Len(f) \in 0 .. Len(f)
  BY LenProperties
<1>2. QED
  BY <1>1, PutsAre DEF Encoded

\* The type invariant is kept.
LEMMA TypeStep ==
    ASSUME TypeInv, CrcInv, [Next]_vars
    PROVE  TypeInv' /\ CrcInv'
<1>1. CASE msgout \/ dbgout
  <2>1. PICK f : GoodFrame(f) /\ send(f)
    BY <1>1, SentAreGood
  <2>2. /\ sent' = Append(sent, f) /\ out' = Encoded(f)
        /\ UNCHANGED <<dir, buff, crc, esc, skip, accepted, drops, debugged, cost>>
    BY <2>1 DEF send
  <2>3. f \in Seq(Byte) /\ Encoded(f) \in Seq(Byte)
    BY <2>1, EncodedType DEF GoodFrame
  <2>4. sent \in Seq(Seq(Byte)) /\ \A i \in 1 .. Len(sent) : GoodFrame(sent[i])
    BY DEF TypeInv
  <2>5. sent' \in Seq(Seq(Byte)) /\ \A i \in 1 .. Len(sent') : GoodFrame(sent'[i])
    <3>1. /\ Append(sent, f) \in Seq(Seq(Byte)) /\ Len(Append(sent, f)) = Len(sent) + 1
          /\ \A i \in 1 .. Len(sent) : Append(sent, f)[i] = sent[i]
          /\ Append(sent, f)[Len(sent) + 1] = f /\ Len(sent) \in Nat
      BY <2>3, <2>4, AppendProperties, LenProperties
    <3>2. \A i \in 1 .. Len(sent) + 1 : i \in 1 .. Len(sent) \/ i = Len(sent) + 1
      BY <3>1
    <3>3. QED
      BY <2>1, <2>2, <2>4, <3>1, <3>2
  <2>6. sent' # <<>>
    <3>1. Len(Append(sent, f)) = Len(sent) + 1 /\ Len(sent) \in Nat /\ Len(<<>>) = 0
      BY <2>3, <2>4, AppendProperties, LenProperties
    <3>2. QED
      BY <2>2, <3>1
  <2>7. CrcInv'
    BY <2>2 DEF CrcInv
  <2>8. QED
    BY <2>2, <2>3, <2>5, <2>6, <2>7 DEF TypeInv
<1>2. CASE debug_out
  <2>1. /\ dir = "up" /\ debugged' = TRUE
        /\ sent' = IF Len(out) <= 1 THEN Append(sent, DebugMessage)
                   ELSE Front(sent) \o <<DebugMessage, Last(sent)>>
        /\ out' = <<NL>> \o Encoded(DebugMessage) \o out
        /\ cost' = cost + (IF Cut THEN 1 ELSE 0) + (IF esc THEN 1 ELSE 0)
        /\ UNCHANGED <<dir, buff, crc, esc, skip, accepted, drops>>
    BY <1>2 DEF debug_out
  <2>2. GoodFrame(DebugMessage) /\ DebugMessage \in Seq(Byte)
    BY DebugIsGood DEF GoodFrame
  <2>3. out' \in Seq(Byte)
    <3>1. <<NL>> \in Seq(Byte) /\ Encoded(DebugMessage) \in Seq(Byte) /\ out \in Seq(Byte)
      BY <2>2, EncodedType DEF NL, Byte, TypeInv
    <3>2. QED
      BY <2>1, <3>1, ConcatProperties
  <2>4. /\ sent \in Seq(Seq(Byte)) /\ \A i \in 1 .. Len(sent) : GoodFrame(sent[i])
        /\ Len(sent) \in Nat /\ \A i \in 1 .. Len(sent) : sent[i] \in Seq(Byte)
    BY LenProperties DEF TypeInv, GoodFrame
  <2>5. /\ sent' \in Seq(Seq(Byte)) /\ sent' # <<>>
        /\ \A i \in 1 .. Len(sent') : GoodFrame(sent'[i])
    <3>1. CASE Len(out) <= 1
      <4> DEFINE t == Append(sent, DebugMessage)
      <4>1. /\ t \in Seq(Seq(Byte)) /\ Len(t) = Len(sent) + 1
            /\ \A i \in 1 .. Len(sent) : t[i] = sent[i]
            /\ t[Len(sent) + 1] = DebugMessage
        BY <2>2, <2>4, AppendProperties
      <4>2. \A i \in 1 .. Len(sent) + 1 : i \in 1 .. Len(sent) \/ i = Len(sent) + 1
        BY <2>4
      <4>3. sent' = t
        BY <2>1, <3>1
      <4>4. Len(<<>>) = 0
        OBVIOUS
      <4> HIDE DEF t
      <4>5. \A i \in 1 .. Len(t) : GoodFrame(t[i])
        BY <2>2, <2>4, <4>1, <4>2
      <4>6. t # <<>>
        BY <2>4, <4>1, <4>4
      <4>7. QED
        BY <4>1, <4>3, <4>5, <4>6
    <3>2. CASE ~(Len(out) <= 1)
      <4>1. out # <<>> /\ sent # <<>>
        <5>1. Len(<<>>) = 0
          OBVIOUS
        <5>2. QED
          BY <3>2, <5>1 DEF TypeInv
      <4>2. Len(sent) >= 1
        BY <2>4, <4>1, EmptySeq
      <4> DEFINE f == Front(sent)  e == <<DebugMessage, Last(sent)>>  t == f \o e
      <4>3. f \in Seq(Seq(Byte)) /\ Len(f) = Len(sent) - 1
            /\ \A i \in 1 .. Len(sent) - 1 : f[i] = sent[i]
        <5>1. Len(sent) - 1 \in 0 .. Len(sent)
          BY <2>4, <4>2
        <5>2. QED
          BY <2>4, <5>1, Beginning DEF Front
      <4>4. Last(sent) = sent[Len(sent)]
        BY DEF Last
      <4>5. e \in Seq(Seq(Byte)) /\ Len(e) = 2 /\ e[1] = DebugMessage /\ e[2] = sent[Len(sent)]
        BY <2>2, <2>4, <4>2, <4>4
      <4> HIDE DEF f, e
      <4>6. /\ t \in Seq(Seq(Byte)) /\ Len(t) = Len(f) + Len(e)
            /\ \A i \in 1 .. Len(f) : t[i] = f[i]
            /\ \A i \in 1 .. Len(e) : t[Len(f) + i] = e[i]
        <5>1. \A i \in 1 .. Len(f) + Len(e) : t[i] = IF i <= Len(f) THEN f[i] ELSE e[i - Len(f)]
          BY <4>3, <4>5, ConcatProperties
        <5>2. t \in Seq(Seq(Byte)) /\ Len(t) = Len(f) + Len(e)
          BY <4>3, <4>5, ConcatProperties
        <5>3. \A i \in 1 .. Len(f) : i \in 1 .. Len(f) + Len(e) /\ i <= Len(f)
          BY <2>4, <4>2, <4>3, <4>5
        <5>4. \A i \in 1 .. Len(e) : /\ Len(f) + i \in 1 .. Len(f) + Len(e)
                                     /\ ~(Len(f) + i <= Len(f)) /\ Len(f) + i - Len(f) = i
          BY <2>4, <4>2, <4>3, <4>5
        <5>5. QED
          BY <5>1, <5>2, <5>3, <5>4
      <4>7. t[Len(sent)] = DebugMessage /\ t[Len(sent) + 1] = sent[Len(sent)]
            /\ Len(t) = Len(sent) + 1
        <5>1. 1 \in 1 .. Len(e) /\ 2 \in 1 .. Len(e) /\ Len(f) + 1 = Len(sent)
              /\ Len(f) + 2 = Len(sent) + 1 /\ Len(f) + Len(e) = Len(sent) + 1
          BY <2>4, <4>2, <4>3, <4>5
        <5>2. t[Len(f) + 1] = e[1] /\ t[Len(f) + 2] = e[2]
          BY <4>6, <5>1
        <5>3. QED
          BY <4>5, <4>6, <5>1, <5>2
      <4>8. ASSUME NEW i \in 1 .. Len(t) PROVE GoodFrame(t[i])
        <5> HIDE DEF t
        <5>1. CASE i \in 1 .. Len(sent) - 1
          BY <2>4, <4>3, <4>6, <5>1
        <5>2. CASE i = Len(sent)
          BY <2>2, <4>7, <5>2
        <5>3. CASE i = Len(sent) + 1
          BY <2>4, <4>2, <4>7, <5>3
        <5>4. QED
          BY <2>4, <4>7, <5>1, <5>2, <5>3
      <4>9. sent' = t
        BY <2>1, <3>2 DEF f, e
      <4>10. t # <<>>
        <5> HIDE DEF t
        <5>1. Len(<<>>) = 0
          OBVIOUS
        <5>2. QED
          BY <2>4, <4>7, <5>1
      <4>11. QED
        BY <4>6, <4>8, <4>9, <4>10
    <3>3. QED
      BY <3>1, <3>2
  <2>6. cost' \in Nat
    BY <2>1 DEF TypeInv
  <2>7. CrcInv'
    BY <2>1 DEF CrcInv
  <2>8. QED
    BY <2>1, <2>3, <2>5, <2>6, <2>7 DEF TypeInv
<1>3. CASE putch
  <2>1. /\ out # <<>> /\ out' = Tail(out) /\ Reads(Head(out))
        /\ UNCHANGED <<dir, sent, drops, debugged, cost>>
    BY <1>3 DEF putch, Reads
  <2>2. Head(out) \in Byte /\ Tail(out) \in Seq(Byte) /\ dir' = dir
    BY <2>1, HeadTailProperties DEF TypeInv
  <2>3. /\ buff' \in Seq(Byte) /\ crc' \in Byte /\ esc' \in BOOLEAN /\ skip' \in BOOLEAN
        /\ accepted' \in Seq(Seq(Byte))
        /\ dir = "down" => IF skip' THEN Len(buff') = BufSize ELSE Len(buff') < BufSize
        /\ dir = "up" => ~skip'
        /\ CrcInv'
    BY <2>1, <2>2, ReadsKeeps
  <2>4. QED
    BY <2>1, <2>2, <2>3 DEF TypeInv
<1>4. CASE lose
  <2>1. /\ out # <<>> /\ out' = Tail(out) /\ drops' = drops + 1 /\ cost' = cost + 2
        /\ UNCHANGED <<dir, sent, buff, crc, esc, skip, accepted, debugged>>
    BY <1>4 DEF lose
  <2>2. Tail(out) \in Seq(Byte) /\ drops' \in Nat /\ cost' \in Nat
    BY <2>1, HeadTailProperties DEF TypeInv
  <2>3. CrcInv'
    BY <2>1 DEF CrcInv
  <2>4. QED
    BY <2>1, <2>2, <2>3 DEF TypeInv
<1>5. CASE UNCHANGED vars
  BY <1>5 DEF vars, TypeInv, CrcInv
<1>6. QED
  BY <1>1, <1>2, <1>3, <1>4, <1>5 DEF Next

\* Nothing has been read.
LEMMA InitTypes == Init => TypeInv /\ CrcInv
<1> SUFFICES ASSUME Init PROVE TypeInv /\ CrcInv
  OBVIOUS
<1>1. <<>> \in Seq(Byte) /\ Crc(<<>>) = 0 /\ Remainder(<<>>) = 0 /\ 0 \in Byte
  BY NoBytes
<1>2. <<>> \in Seq(Seq(Byte)) /\ Len(<<>>) = 0 /\ 0 < BufSize
  BY Tlay2Assumption
<1>3. QED
  <2>1. \A i \in 1 .. Len(sent) : GoodFrame(sent[i])
    BY <1>2 DEF Init
  <2>2. dir = "down" => IF skip THEN Len(buff) = BufSize ELSE Len(buff) < BufSize
    BY <1>2 DEF Init
  <2>3. CrcInv
    BY <1>1 DEF Init, CrcInv, crc_init
  <2>4. QED
    BY <1>1, <1>2, <2>1, <2>2, <2>3 DEF Init, TypeInv, crc_init

\* Types, the bound of the buffer and the meaning of the CRC hold always.
THEOREM LineTypes == Spec => [](TypeInv /\ CrcInv)
<1>1. TypeInv /\ CrcInv /\ [Next]_vars => TypeInv' /\ CrcInv'
  BY TypeStep
<1>2. QED
  BY InitTypes, <1>1, PTL DEF Spec

\* crc8.c:28-41: for every sequence of bytes.
THEOREM CrcIsRemainderAlways == Spec => []CrcIsRemainder
<1>1. TypeInv /\ CrcInv => CrcIsRemainder
  BY DEF CrcInv, CrcIsRemainder
<1>2. QED
  BY <1>1, LineTypes, PTL

\* tlay2.cpp:44-49: for a buffer of any size over three bytes, any payloads and
\* any loss on the line, the reader never writes behind its buffer.
THEOREM NeverBehindBuffer == Spec => []WithinBuffer
<1>1. TypeInv => WithinBuffer
  BY DEF TypeInv, WithinBuffer
<1>2. QED
  BY <1>1, LineTypes, PTL

-----------------------------------------------------------------------------
(* A frame on the line. *)

\* What is on the line up to the end of a frame: no newline but at the end, and
\* no escape byte before that.
Tidy(o) ==
    /\ o \in Seq(Byte) /\ o # <<>> /\ o[Len(o)] = NL
    /\ \A i \in 1 .. Len(o) - 1 : o[i] # NL
    /\ Len(o) > 1 => o[Len(o) - 1] # ESC

\* A sequence with a byte before it.
LEMMA InFront ==
    ASSUME NEW c \in Byte, NEW q \in Seq(Byte)
    PROVE  /\ <<c>> \o q \in Seq(Byte) /\ <<c>> \o q # <<>>
           /\ Len(<<c>> \o q) = Len(q) + 1 /\ Len(q) \in Nat
           /\ (<<c>> \o q)[1] = c /\ Head(<<c>> \o q) = c /\ Tail(<<c>> \o q) = q
           /\ \A i \in 1 .. Len(q) : (<<c>> \o q)[i + 1] = q[i]
<1> DEFINE h == <<c>>  t == h \o q
<1>1. h \in Seq(Byte) /\ Len(h) = 1 /\ h[1] = c /\ Len(q) \in Nat
  BY LenProperties
<1> HIDE DEF h
<1>2. /\ t \in Seq(Byte) /\ Len(t) = Len(h) + Len(q)
      /\ \A i \in 1 .. Len(h) + Len(q) : t[i] = IF i <= Len(h) THEN h[i] ELSE q[i - Len(h)]
  BY <1>1, ConcatProperties
<1>3. t[1] = c
  <2>1. 1 \in 1 .. Len(h) + Len(q) /\ 1 <= Len(h)
    BY <1>1
  <2>2. QED
    BY <1>1, <1>2, <2>1
<1>4. ASSUME NEW i \in 1 .. Len(q) PROVE t[i + 1] = q[i]
  <2>1. i + 1 \in 1 .. Len(h) + Len(q) /\ ~(i + 1 <= Len(h)) /\ i + 1 - Len(h) = i
    BY <1>1
  <2>2. t[i + 1] = q[i + 1 - Len(h)]
    BY <1>2, <2>1
  <2>3. QED
    BY <2>1, <2>2
<1> HIDE DEF t
<1>5. t # <<>>
  <2>1. Len(<<>>) = 0
    OBVIOUS
  <2>2. QED
    BY <1>1, <1>2, <2>1
<1>6. Head(t) = c
  BY <1>3
<1>7. Tail(t) = q
  <2>1. /\ Tail(t) \in Seq(Byte) /\ Len(Tail(t)) = Len(t) - 1
        /\ \A i \in 1 .. Len(Tail(t)) : Tail(t)[i] = t[i + 1]
    BY <1>2, <1>5, HeadTailProperties
  <2>2. Len(Tail(t)) = Len(q)
    BY <1>1, <1>2, <2>1
  <2>3. \A i \in 1 .. Len(q) : Tail(t)[i] = q[i]
    BY <1>4, <2>1, <2>2
  <2>4. QED
    BY <2>1, <2>2, <2>3, SeqEqual
<1>8. QED
  BY <1>1, <1>2, <1>3, <1>4, <1>5, <1>6, <1>7 DEF h, t

\* A byte before what is still to come.
LEMMA ConsTidy ==
    ASSUME NEW c \in Byte, NEW q, Tidy(q), c # NL, c # ESC \/ Len(q) > 1
    PROVE  Tidy(<<c>> \o q)
<1> DEFINE t == <<c>> \o q
<1>1. /\ t \in Seq(Byte) /\ t # <<>> /\ Len(t) = Len(q) + 1 /\ Len(q) \in Nat
      /\ t[1] = c /\ \A i \in 1 .. Len(q) : t[i + 1] = q[i]
  <2>1. q \in Seq(Byte)
    BY DEF Tidy
  <2>2. QED
    BY <2>1, InFront
<1> HIDE DEF t
<1>2. Len(q) >= 1
  BY <1>1, EmptySeq DEF Tidy
<1>3. ASSUME NEW i \in 2 .. Len(t) PROVE t[i] = q[i - 1] /\ i - 1 \in 1 .. Len(q)
  <2>1. i - 1 \in 1 .. Len(q) /\ i - 1 + 1 = i
    BY <1>1
  <2>2. t[i - 1 + 1] = q[i - 1]
    BY <1>1, <2>1
  <2>3. QED
    BY <2>1, <2>2
<1>4. t[Len(t)] = NL
  <2>1. Len(t) \in 2 .. Len(t) /\ Len(t) - 1 = Len(q)
    BY <1>1, <1>2
  <2>2. QED
    BY <1>3, <2>1 DEF Tidy
<1>5. ASSUME NEW i \in 1 .. Len(t) - 1 PROVE t[i] # NL
  <2>1. CASE i = 1
    BY <1>1, <2>1
  <2>2. CASE i # 1
    <3>1. i \in 2 .. Len(t) /\ i - 1 \in 1 .. Len(q) - 1
      BY <1>1, <2>2
    <3>2. QED
      BY <1>3, <3>1 DEF Tidy
  <2>3. QED
    BY <2>1, <2>2
<1>6. t[Len(t) - 1] # ESC
  <2>1. CASE Len(q) = 1
    <3>1. Len(t) - 1 = 1
      BY <1>1, <2>1
    <3>2. QED
      BY <1>1, <2>1, <3>1
  <2>2. CASE Len(q) > 1
    <3>1. Len(t) - 1 \in 2 .. Len(t) /\ Len(t) - 1 - 1 = Len(q) - 1
      BY <1>1, <2>2
    <3>2. t[Len(t) - 1] = q[Len(q) - 1]
      BY <1>3, <3>1
    <3>3. QED
      BY <2>2, <3>2 DEF Tidy
  <2>3. QED
    BY <1>1, <1>2, <2>1, <2>2
<1>7. QED
  BY <1>1, <1>4, <1>5, <1>6 DEF Tidy, t

\* A byte less is to come.
LEMMA TailTidy ==
    ASSUME NEW o, Tidy(o)
    PROVE  /\ Head(o) \in Byte /\ Tail(o) \in Seq(Byte) /\ Len(o) \in Nat /\ Len(o) >= 1
           /\ Len(o) = 1 \/ Len(o) > 1
           /\ Len(o) = 1 => Head(o) = NL /\ Tail(o) = <<>>
           /\ Len(o) > 1 => /\ Tidy(Tail(o)) /\ Head(o) # NL
                            /\ Head(o) = ESC => Head(Tail(o)) # NL
<1>1. o \in Seq(Byte) /\ o # <<>> /\ Len(o) \in Nat
  BY LenProperties DEF Tidy
<1>2. Len(o) >= 1
  BY <1>1, EmptySeq
<1> DEFINE t == Tail(o)
<1>3. /\ Head(o) \in Byte /\ t \in Seq(Byte) /\ Len(t) = Len(o) - 1
      /\ \A i \in 1 .. Len(t) : t[i] = o[i + 1]
  BY <1>1, HeadTailProperties
<1>4. Head(o) = o[1]
  OBVIOUS
<1> HIDE DEF t
<1>5. ASSUME Len(o) = 1 PROVE Head(o) = NL /\ t = <<>>
  <2>1. t = <<>>
    BY <1>3, <1>5, EmptySeq
  <2>2. QED
    BY <1>4, <1>5, <2>1 DEF Tidy
<1>6. ASSUME Len(o) > 1
      PROVE  Tidy(t) /\ Head(o) # NL /\ (Head(o) = ESC => Head(t) # NL)
  <2>1. Head(o) # NL
    <3>1. 1 \in 1 .. Len(o) - 1
      BY <1>1, <1>6
    <3>2. QED
      BY <1>4, <3>1 DEF Tidy
  <2>2. t # <<>>
    <3>1. Len(<<>>) = 0
      OBVIOUS
    <3>2. QED
      BY <1>3, <1>6, <3>1
  <2>3. t[Len(t)] = NL
    <3>1. Len(t) \in 1 .. Len(t) /\ Len(t) + 1 = Len(o)
      BY <1>1, <1>3, <1>6
    <3>2. QED
      BY <1>3, <3>1 DEF Tidy
  <2>4. ASSUME NEW i \in 1 .. Len(t) - 1 PROVE t[i] # NL
    <3>1. i \in 1 .. Len(t) /\ i + 1 \in 1 .. Len(o) - 1
      BY <1>1, <1>3, <1>6
    <3>2. QED
      BY <1>3, <3>1 DEF Tidy
  <2>5. Len(t) > 1 => t[Len(t) - 1] # ESC
    <3>1. ASSUME Len(t) > 1
          PROVE  Len(t) - 1 \in 1 .. Len(t) /\ Len(t) - 1 + 1 = Len(o) - 1
      BY <1>1, <1>3, <1>6, <3>1
    <3>2. QED
      BY <1>3, <1>6, <3>1 DEF Tidy
  <2>6. ASSUME Head(o) = ESC PROVE Head(t) # NL
    <3>1. Len(o) # 2
      BY <1>4, <1>6, <2>6 DEF Tidy
    <3>2. 1 \in 1 .. Len(t) - 1
      BY <1>1, <1>3, <1>6, <3>1
    <3>3. t[1] # NL
      BY <2>4, <3>2
    <3>4. QED
      BY <3>3
  <2>7. QED
    BY <1>3, <2>1, <2>2, <2>3, <2>4, <2>5, <2>6 DEF Tidy
<1>7. Len(o) = 1 \/ Len(o) > 1
  <2>1. \A k \in Nat : k >= 1 => k = 1 \/ k > 1
    OBVIOUS
  <2>2. QED
    BY <1>1, <1>2, <2>1
<1>8. QED
  BY <1>1, <1>2, <1>3, <1>5, <1>6, <1>7 DEF t

\* The n-th byte from the end of a frame, and what is put behind it.
NthLast(f, n) == f[Len(f) - n + 1]
Behind(f, n) == Puts(f)[n - 1]

\* What is put of a frame from any of its bytes on.
PutsByte(p, c, x, q) ==
    /\ c \in Byte /\ x \in Byte /\ x = Xor(c, 128)
    /\ c \notin {NL, ESC} => p = <<c>> \o q
    /\ c \in {NL, ESC} => /\ p = <<ESC>> \o (<<x>> \o q) /\ Tidy(<<x>> \o q)
                          /\ Xor(x, 128) = c
    /\ Tidy(p)

\* By what a byte is put before what follows it.
LEMMA PutsStep ==
    ASSUME NEW f \in Seq(Byte), NEW n \in 1 .. Len(f), Tidy(Behind(f, n))
    PROVE  PutsByte(Puts(f)[n], NthLast(f, n), Xor(NthLast(f, n), 128), Behind(f, n))
<1> DEFINE c == NthLast(f, n)  q == Behind(f, n)
<1>0. Tidy(q)
  OBVIOUS
<1>1. Len(f) - n + 1 \in 1 .. Len(f)
  BY LenProperties
<1>2. c \in Byte /\ Xor(c, 128) \in Byte /\ q \in Seq(Byte) /\ ESC \in Byte /\ NL # ESC
  <2>1. c \in Byte
    BY <1>1, ElementOfSeq DEF NthLast
  <2> HIDE DEF c, q
  <2>2. ESC \in Byte /\ NL # ESC
    BY DEF ESC, NL, Byte
  <2>3. q \in Seq(Byte)
    BY <1>0 DEF Tidy
  <2>4. QED
    BY <2>1, <2>2, <2>3, XorType
<1>3. Puts(f)[n] = put_escaped(c) \o q
  BY PutsAre DEF NthLast, Behind
<1> HIDE DEF c, q
<1>4. c \in {NL, ESC} => Xor(c, 128) \notin {NL, ESC} /\ Xor(Xor(c, 128), 128) = c
  BY EscapedBytes
<1>5. ASSUME c \notin {NL, ESC}
      PROVE  Puts(f)[n] = <<c>> \o q /\ Tidy(<<c>> \o q)
  <2>1. put_escaped(c) = <<c>>
    BY <1>2, <1>5, Escaped
  <2>2. QED
    BY <1>0, <1>2, <1>3, <1>5, <2>1, ConsTidy
<1>6. ASSUME c \in {NL, ESC}
      PROVE  /\ Puts(f)[n] = <<ESC>> \o (<<Xor(c, 128)>> \o q)
             /\ Tidy(<<Xor(c, 128)>> \o q) /\ Tidy(<<ESC>> \o (<<Xor(c, 128)>> \o q))
  <2> DEFINE x == Xor(c, 128)
  <2>1. put_escaped(c) = <<ESC, x>>
    BY <1>2, <1>6, Escaped
  <2>2. x \in Byte /\ x \notin {NL, ESC}
    BY <1>2, <1>4, <1>6
  <2> HIDE DEF x
  <2>3. <<ESC, x>> = <<ESC>> \o <<x>>
    OBVIOUS
  <2>4. (<<ESC>> \o <<x>>) \o q = <<ESC>> \o (<<x>> \o q)
    <3>1. <<ESC>> \in Seq(Byte) /\ <<x>> \in Seq(Byte)
      BY <1>2, <2>2
    <3>2. QED
      BY <1>2, <3>1, ConcatAssociative
  <2>5. Tidy(<<x>> \o q) /\ Len(<<x>> \o q) > 1
    <3>1. Len(q) >= 1 /\ Len(q) \in Nat
      BY <1>0, TailTidy
    <3>2. Len(<<x>> \o q) = Len(q) + 1
      BY <1>2, <2>2, InFront
    <3>3. x # NL /\ x # ESC
      BY <2>2
    <3>4. Tidy(<<x>> \o q)
      BY <1>0, <2>2, <3>3, ConsTidy
    <3>5. QED
      BY <3>1, <3>2, <3>4
  <2>6. Tidy(<<ESC>> \o (<<x>> \o q))
    <3> DEFINE r == <<x>> \o q
    <3>1. Tidy(r) /\ Len(r) > 1
      BY <2>5
    <3> HIDE DEF r
    <3>2. Tidy(<<ESC>> \o r)
      BY <1>2, <3>1, ConsTidy
    <3>3. QED
      BY <3>2 DEF r
  <2>7. QED
    BY <1>3, <2>1, <2>3, <2>4, <2>5, <2>6 DEF x
<1>7. Tidy(Puts(f)[n])
  <2>1. CASE c \in {NL, ESC}
    BY <1>6, <2>1
  <2>2. CASE c \notin {NL, ESC}
    BY <1>5, <2>2
  <2>3. QED
    BY <2>1, <2>2
<1>8. QED
  BY <1>2, <1>4, <1>5, <1>6, <1>7 DEF PutsByte, c, q

\* What is put of a frame, from any of its bytes on, is so.
LEMMA PutsTidy ==
    ASSUME NEW f \in Seq(Byte)
    PROVE  \A n \in 0 .. Len(f) : Tidy(Puts(f)[n])
<1> DEFINE T == {k \in Nat : k <= Len(f) => Tidy(Puts(f)[k])}
<1>1. Len(f) \in Nat
  BY LenProperties
<1>2. 0 \in T
  <2>1. Tidy(<<NL>>)
    BY DEF Tidy, NL, Byte
  <2>2. QED
    BY <2>1, PutsAre
<1>3. ASSUME NEW k \in Nat, k \in T PROVE k + 1 \in T
  <2> SUFFICES ASSUME k + 1 <= Len(f) PROVE Tidy(Puts(f)[k + 1])
    OBVIOUS
  <2>1. PICK n \in 1 .. Len(f) : n = k + 1 /\ n - 1 = k
    BY <1>1
  <2>2. Tidy(Puts(f)[n - 1])
    BY <1>1, <1>3, <2>1
  <2>3. Tidy(Puts(f)[n])
    BY <2>2, PutsStep DEF Behind, PutsByte
  <2>4. QED
    BY <2>1, <2>3
<1> HIDE DEF T
<1>4. \A k \in Nat : k \in T
  BY <1>2, <1>3, Induct
<1>5. QED
  BY <1>1, <1>4 DEF T

-----------------------------------------------------------------------------
(* The readers in step with it. *)

\* The reader between two frames.
Clean == buff = <<>> /\ ~esc /\ ~skip

\* The readers alike: behind an overlong frame, a byte of data, an escape byte,
\* and the end of a frame.
LEMMA ReadsPassed ==
    ASSUME TypeInv, NEW c, Reads(c), skip
    PROVE  /\ accepted' = accepted
           /\ c = NL => Clean'
           /\ c # NL => skip'
<1>1. dir = "down" /\ process(c)
  BY DEF TypeInv, Reads
<1>2. IF c = NL THEN reset ELSE UNCHANGED <<buff, crc, esc, skip, accepted>>
  BY <1>1 DEF process
<1>3. CASE c = NL
  BY <1>2, <1>3 DEF reset, Clean
<1>4. CASE c # NL
  BY <1>2, <1>4
<1>5. QED
  BY <1>3, <1>4

\* ... a byte of data ...
LEMMA ReadsData ==
    ASSUME TypeInv, NEW c, Reads(c), ~skip, esc \/ c \notin {NL, ESC},
           NEW b, b = IF esc THEN Xor(c, 128) ELSE c
    PROVE  /\ accepted' = accepted /\ ~esc' /\ buff' = Append(buff, b)
           /\ skip' => dir = "down" /\ Len(buff') = BufSize
<1>1. CASE dir = "down"
  <2>1. process(c)
    BY <1>1 DEF Reads
  <2>2. store(b)
    BY <2>1 DEF process
  <2>3. /\ buff' = Append(buff, b) /\ esc' = FALSE /\ accepted' = accepted
        /\ skip' = (Len(buff') = BufSize)
    BY <2>2 DEF store
  <2>4. skip' => Len(buff') = BufSize
    BY <2>3, Zenon
  <2>5. QED
    BY <1>1, <2>3, <2>4
<1>2. CASE dir # "down"
  <2>1. server_read(c)
    BY <1>2 DEF Reads
  <2>2. skip' = skip
    BY <2>1 DEF server_read
  <2>3. buff' = Append(buff, b) /\ ~esc' /\ accepted' = accepted
    BY <2>1 DEF server_read
  <2>4. QED
    BY <2>2, <2>3
<1>3. QED
  BY <1>1, <1>2

\* ... an escape byte ...
LEMMA ReadsEscape ==
    ASSUME TypeInv, Reads(ESC), ~skip, ~esc
    PROVE  accepted' = accepted /\ esc' /\ buff' = buff /\ ~skip'
<1>1. NL # ESC
  BY DEF NL, ESC
<1>2. CASE dir = "down"
  <2>1. process(ESC)
    BY <1>2 DEF Reads
  <2>2. QED
    BY <1>1, <2>1 DEF process
<1>3. CASE dir # "down"
  <2>1. server_read(ESC)
    BY <1>3 DEF Reads
  <2>2. QED
    BY <1>1, <2>1 DEF server_read
<1>4. QED
  BY <1>2, <1>3

\* ... and the end of a frame, good or not.
LEMMA ReadsEnd ==
    ASSUME TypeInv, CrcInv, Reads(NL), ~skip, ~esc
    PROVE  /\ Clean'
           /\ accepted' = IF GoodFrame(buff) THEN Append(accepted, buff) ELSE accepted
<1>1. buff \in Seq(Byte)
  BY DEF TypeInv
<1>2. CASE dir = "down"
  <2>1. process(NL)
    BY <1>2 DEF Reads
  <2>2. frame_end
    BY <2>1 DEF process
  <2>3. crc = Crc(buff)
    BY <1>2 DEF CrcInv
  <2>4. QED
    BY <1>1, <2>2, <2>3 DEF frame_end, Clean, GoodFrame
<1>3. CASE dir # "down"
  <2>1. server_read(NL)
    BY <1>3 DEF Reads
  <2>2. QED
    BY <1>1, <2>1 DEF server_read, Clean, GoodFrame
<1>4. QED
  BY <1>2, <1>3

\* The reader stands in the frame f, of which o is still to come: it has the
\* bytes before, or those and an escape byte.
Synced(f, o, b, e) ==
    \E n \in 0 .. Len(f) :
        /\ b = SubSeq(f, 1, Len(f) - n)
        /\ \/ ~e /\ o = Puts(f)[n]
           \/ /\ e /\ n > 0 /\ NthLast(f, n) \in {NL, ESC}
              /\ o = <<Xor(NthLast(f, n), 128)>> \o Behind(f, n)

Fits(f) == dir = "down" => Len(f) < BufSize

\* What is to come of the frame ends as a frame does.
LEMMA SyncedIsTidy ==
    ASSUME NEW f \in Seq(Byte), NEW o, NEW b, NEW e, Synced(f, o, b, e)
    PROVE  Tidy(o)
<1>1. PICK n \in 0 .. Len(f) :
          /\ b = SubSeq(f, 1, Len(f) - n)
          /\ \/ ~e /\ o = Puts(f)[n]
             \/ /\ e /\ n > 0 /\ NthLast(f, n) \in {NL, ESC}
                /\ o = <<Xor(NthLast(f, n), 128)>> \o Behind(f, n)
  BY DEF Synced
<1>2. CASE o = Puts(f)[n]
  BY <1>2, PutsTidy
<1>3. CASE /\ n > 0 /\ NthLast(f, n) \in {NL, ESC}
           /\ o = <<Xor(NthLast(f, n), 128)>> \o Behind(f, n)
  <2>1. n \in 1 .. Len(f) /\ n - 1 \in 0 .. Len(f)
    BY <1>3, LenProperties
  <2>2. Tidy(Behind(f, n))
    BY <2>1, PutsTidy DEF Behind
  <2>3. PutsByte(Puts(f)[n], NthLast(f, n), Xor(NthLast(f, n), 128), Behind(f, n))
    BY <2>1, <2>2, PutsStep
  <2>4. QED
    BY <1>3, <2>3 DEF PutsByte
<1>4. QED
  BY <1>1, <1>2, <1>3

\* The reader takes the next byte of the frame.
LEMMA SyncedReads ==
    ASSUME TypeInv, CrcInv, NEW f, GoodFrame(f), NEW o, ~skip, Synced(f, o, buff, esc),
           Reads(Head(o))
    PROVE  \/ /\ Len(o) = 1 /\ accepted' = Append(accepted, f) /\ Clean' /\ Fits(f)
           \/ /\ Len(o) > 1 /\ accepted' = accepted
              /\ \/ ~skip' /\ Synced(f, Tail(o), buff', esc')
                 \/ skip' /\ ~Fits(f)
<1>1. PICK n \in 0 .. Len(f) :
          /\ buff = SubSeq(f, 1, Len(f) - n)
          /\ \/ ~esc /\ o = Puts(f)[n]
             \/ /\ esc /\ n > 0 /\ NthLast(f, n) \in {NL, ESC}
                /\ o = <<Xor(NthLast(f, n), 128)>> \o Behind(f, n)
  BY DEF Synced
<1>2. f \in Seq(Byte) /\ Len(f) >= 3 /\ Crc(f) = 0 /\ Len(f) \in Nat
  BY LenProperties DEF GoodFrame
<1>3. CASE n = 0
  <2>0. Puts(f)[0] = <<NL>>
    BY <1>2, PutsAre
  <2>1. o = <<NL>> /\ ~esc
    BY <1>1, <1>3, <2>0
  <2>2. buff = f
    BY <1>1, <1>2, <1>3, SubSeqFull
  <2>3. Head(o) = NL /\ Len(o) = 1
    BY <2>1
  <2>4. Reads(NL)
    BY <2>3
  <2>5. Clean' /\ accepted' = Append(accepted, f)
    BY <2>1, <2>2, <2>4, ReadsEnd
  <2>6. Fits(f)
    BY <2>2 DEF TypeInv, Fits
  <2>7. QED
    BY <2>3, <2>5, <2>6
<1>4. CASE n # 0
  <2> DEFINE m == n - 1  c == NthLast(f, n)  q == Behind(f, n)  x == Xor(c, 128)
  <2>a. /\ m = n - 1 /\ c = NthLast(f, n) /\ q = Behind(f, n) /\ x = Xor(c, 128)
        /\ c = f[Len(f) - n + 1] /\ q = Puts(f)[m]
    BY DEF NthLast, Behind
  <2>b. /\ buff = SubSeq(f, 1, Len(f) - n)
        /\ \/ ~esc /\ o = Puts(f)[n]
           \/ esc /\ n > 0 /\ c \in {NL, ESC} /\ o = <<x>> \o q
    BY <1>1
  <2> HIDE DEF m, c, q, x
  <2>1. /\ n \in 1 .. Len(f) /\ m \in 0 .. Len(f) /\ Len(f) - n \in 0 .. Len(f)
        /\ Len(f) - n < Len(f) /\ Len(f) - n + 1 = Len(f) - m
    BY <1>2, <1>4, <2>a
  <2>2. Tidy(q) /\ q \in Seq(Byte) /\ Len(q) \in Nat /\ Len(q) >= 1
    <3>1. Tidy(q)
      BY <1>2, <2>1, <2>a, PutsTidy
    <3>2. QED
      BY <3>1, TailTidy DEF Tidy
  <2>3. /\ c \in Byte /\ x \in Byte
        /\ c \notin {NL, ESC} => Puts(f)[n] = <<c>> \o q
        /\ c \in {NL, ESC} => /\ Puts(f)[n] = <<ESC>> \o (<<x>> \o q)
                              /\ Xor(x, 128) = c
    <3>1. PutsByte(Puts(f)[n], c, x, q)
      BY <1>2, <2>1, <2>2, <2>a, PutsStep
    <3>2. QED
      BY <3>1 DEF PutsByte
  <2>4. Append(buff, c) = SubSeq(f, 1, Len(f) - m)
    BY <1>2, <2>1, <2>a, <2>b, BeginningGrows
  <2>5. Len(SubSeq(f, 1, Len(f) - m)) = Len(f) - m /\ Len(f) - m <= Len(f)
    <3>1. Len(f) - m \in 0 .. Len(f)
      BY <1>2, <2>1
    <3>2. QED
      BY <1>2, <3>1, Beginning
  <2>6. ASSUME buff' = Append(buff, c), ~esc', skip' => dir = "down" /\ Len(buff') = BufSize
        PROVE  \/ ~skip' /\ Synced(f, q, buff', esc')
               \/ skip' /\ ~Fits(f)
    <3>1. CASE skip'
      <4>1. BufSize = Len(f) - m /\ dir = "down"
        BY <2>4, <2>5, <2>6, <3>1
      <4>2. QED
        BY <1>2, <2>5, <3>1, <4>1, Tlay2Assumption DEF Fits
    <3>2. CASE ~skip'
      <4>1. /\ m \in 0 .. Len(f) /\ buff' = SubSeq(f, 1, Len(f) - m)
            /\ ~esc' /\ q = Puts(f)[m]
        BY <2>1, <2>4, <2>6, <2>a
      <4>2. Synced(f, q, buff', esc')
        BY <4>1 DEF Synced
      <4>3. QED
        BY <3>2, <4>2
    <3>3. QED
      BY <3>1, <3>2
  <2>7. CASE esc
    <3>1. o = <<x>> \o q /\ c \in {NL, ESC}
      BY <2>7, <2>b
    <3>2. Head(o) = x /\ Tail(o) = q /\ Len(o) = Len(q) + 1
      BY <2>2, <2>3, <3>1, InFront
    <3>3. Reads(x)
      BY <3>2
    <3>4. /\ accepted' = accepted /\ ~esc' /\ buff' = Append(buff, c)
          /\ skip' => dir = "down" /\ Len(buff') = BufSize
      BY <2>3, <2>7, <3>1, <3>3, ReadsData
    <3>5. \/ ~skip' /\ Synced(f, q, buff', esc')
          \/ skip' /\ ~Fits(f)
      BY <2>6, <3>4
    <3>6. Len(o) > 1
      BY <2>2, <3>2
    <3>7. QED
      BY <3>2, <3>4, <3>5, <3>6
  <2>8. CASE ~esc /\ c \notin {NL, ESC}
    <3>1. o = <<c>> \o q
      BY <2>3, <2>8, <2>b
    <3>2. Head(o) = c /\ Tail(o) = q /\ Len(o) = Len(q) + 1
      BY <2>2, <2>3, <3>1, InFront
    <3>3. Reads(c)
      BY <3>2
    <3>4. /\ accepted' = accepted /\ ~esc' /\ buff' = Append(buff, c)
          /\ skip' => dir = "down" /\ Len(buff') = BufSize
      BY <2>3, <2>8, <3>3, ReadsData
    <3>5. \/ ~skip' /\ Synced(f, q, buff', esc')
          \/ skip' /\ ~Fits(f)
      BY <2>6, <3>4
    <3>6. Len(o) > 1
      BY <2>2, <3>2
    <3>7. QED
      BY <3>2, <3>4, <3>5, <3>6
  <2>9. CASE ~esc /\ c \in {NL, ESC}
    <3>1. o = <<ESC>> \o (<<x>> \o q)
      BY <2>3, <2>9, <2>b
    <3>2. ESC \in Byte
      BY DEF ESC, Byte
    <3>3. <<x>> \o q \in Seq(Byte) /\ Len(<<x>> \o q) = Len(q) + 1
      BY <2>2, <2>3, InFront
    <3> DEFINE r == <<x>> \o q
    <3> HIDE DEF r
    <3>4. r \in Seq(Byte) /\ Len(r) = Len(q) + 1 /\ o = <<ESC>> \o r
      BY <3>1, <3>3 DEF r
    <3>5. Head(o) = ESC /\ Tail(o) = r /\ Len(o) = Len(r) + 1
      BY <3>2, <3>4, InFront
    <3>6. Reads(ESC)
      BY <3>5
    <3>7. accepted' = accepted /\ esc' /\ buff' = buff /\ ~skip'
      BY <2>9, <3>6, ReadsEscape
    <3>8. Synced(f, r, buff', esc')
      <4>1. /\ buff' = SubSeq(f, 1, Len(f) - n) /\ esc' /\ n > 0
            /\ NthLast(f, n) \in {NL, ESC}
            /\ r = <<Xor(NthLast(f, n), 128)>> \o Behind(f, n)
        BY <2>1, <2>9, <2>a, <2>b, <3>7 DEF r
      <4>2. QED
        BY <4>1 DEF Synced
    <3>9. Len(o) > 1
      BY <2>2, <3>4, <3>5
    <3>10. QED
      BY <3>5, <3>7, <3>8, <3>9
  <2>10. QED
    BY <2>7, <2>8, <2>9
<1>5. QED
  BY <1>3, <1>4

\* The frame's end will find the reader able to take it for one.
EndsWell(o, e, s) == s \/ ~e \/ Head(o) # NL

\* The reader takes the next byte of what may or may not be the whole frame.
LEMMA TidyReads ==
    ASSUME TypeInv, CrcInv, NEW o, Tidy(o), EndsWell(o, esc, skip), Reads(Head(o))
    PROVE  /\ Len(o) = 1 => Clean'
           /\ Len(o) > 1 => accepted' = accepted /\ EndsWell(Tail(o), esc', skip')
<1>1. /\ Head(o) \in Byte
      /\ Len(o) = 1 => Head(o) = NL
      /\ Len(o) > 1 => Head(o) # NL /\ (Head(o) = ESC => Head(Tail(o)) # NL)
  BY TailTidy
<1>2. CASE skip
  BY <1>1, <1>2, ReadsPassed DEF EndsWell
<1>3. CASE ~skip /\ esc
  <2>1. Head(o) # NL
    BY <1>3 DEF EndsWell
  <2>2. accepted' = accepted /\ ~esc'
    BY <1>3, ReadsData
  <2>3. QED
    BY <1>1, <2>1, <2>2 DEF EndsWell
<1>4. CASE ~skip /\ ~esc /\ Head(o) = NL
  <2>1. Reads(NL)
    BY <1>4
  <2>2. Clean'
    BY <1>4, <2>1, ReadsEnd
  <2>3. QED
    BY <1>1, <1>4, <2>2
<1>5. CASE ~skip /\ ~esc /\ Head(o) = ESC
  <2>1. Reads(ESC)
    BY <1>5
  <2>2. accepted' = accepted
    BY <1>5, <2>1, ReadsEscape
  <2>3. ESC # NL
    BY DEF ESC, NL
  <2>4. QED
    BY <1>1, <1>5, <2>2, <2>3 DEF EndsWell
<1>6. CASE ~skip /\ ~esc /\ Head(o) \notin {NL, ESC}
  <2>1. accepted' = accepted /\ ~esc'
    BY <1>6, ReadsData
  <2>2. QED
    BY <1>1, <1>6, <2>1 DEF EndsWell
<1>7. QED
  BY <1>2, <1>3, <1>4, <1>5, <1>6

\* More is put of a frame the earlier one starts.
LEMMA PutsGrow ==
    ASSUME NEW f \in Seq(Byte)
    PROVE  \A k \in 0 .. Len(f) : \A n \in 0 .. Len(f) :
               n < k => Len(Puts(f)[n]) < Len(Puts(f)[k])
<1> DEFINE L(k) == Len(Puts(f)[k])
<1>1. Len(f) \in Nat
  BY LenProperties
<1>2. ASSUME NEW k \in 0 .. Len(f) PROVE L(k) \in Nat
  BY PutsAre, LenProperties
<1>3. ASSUME NEW n \in 1 .. Len(f) PROVE L(n) > L(n - 1)
  <2> DEFINE e == put_escaped(f[Len(f) - n + 1])  q == Puts(f)[n - 1]
  <2>1. Len(f) - n + 1 \in 1 .. Len(f) /\ n - 1 \in 0 .. Len(f)
    BY <1>1
  <2>2. f[Len(f) - n + 1] \in Byte
    BY <2>1, ElementOfSeq
  <2>3. e \in Seq(Byte) /\ e # <<>>
    BY <2>2, Escaped
  <2>4. q \in Seq(Byte)
    BY <2>1, PutsAre
  <2>5. Puts(f)[n] = e \o q
    BY PutsAre
  <2> HIDE DEF e
  <2>6. Len(e) >= 1 /\ Len(e) \in Nat
    BY <2>3, LenProperties, EmptySeq
  <2>7. Len(e \o q) = Len(e) + Len(q) /\ Len(q) \in Nat
    BY <2>3, <2>4, ConcatProperties, LenProperties
  <2>8. L(n) = Len(e) + Len(q) /\ L(n - 1) = Len(q)
    BY <2>5, <2>7
  <2>9. QED
    BY <2>6, <2>7, <2>8
<1> HIDE DEF L
<1> DEFINE T == {k \in Nat : k <= Len(f) => \A n \in 0 .. Len(f) : n < k => L(n) < L(k)}
<1>4. 0 \in T
  BY <1>1
<1>5. ASSUME NEW k \in Nat, k \in T PROVE k + 1 \in T
  <2> SUFFICES ASSUME k + 1 <= Len(f), NEW n \in 0 .. Len(f), n < k + 1
               PROVE  L(n) < L(k + 1)
    OBVIOUS
  <2>1. PICK m \in 1 .. Len(f) : m = k + 1 /\ m - 1 = k
    BY <1>1
  <2>2. L(m) > L(m - 1)
    BY <1>3
  <2>3. L(n) \in Nat /\ L(k) \in Nat /\ L(k + 1) \in Nat
    <3>1. k \in 0 .. Len(f) /\ k + 1 \in 0 .. Len(f)
      BY <1>1
    <3>2. QED
      BY <1>2, <3>1
  <2>4. n = k \/ L(n) < L(k)
    BY <1>1, <1>5
  <2>5. QED
    BY <2>1, <2>2, <2>3, <2>4
<1> HIDE DEF T
<1>6. \A k \in Nat : k \in T
  BY <1>4, <1>5, Induct
<1>7. ASSUME NEW k \in 0 .. Len(f), NEW n \in 0 .. Len(f), n < k PROVE L(n) < L(k)
  <2>1. k \in Nat /\ k <= Len(f) /\ k \in T
    BY <1>1, <1>6
  <2>2. QED
    BY <1>7, <2>1 DEF T
<1>8. QED
  BY <1>7 DEF L

\* A frame that is about to be put.
LEMMA Starts ==
    ASSUME NEW f, GoodFrame(f)
    PROVE  /\ Tidy(Encoded(f)) /\ Len(Encoded(f)) > 1 /\ Head(Encoded(f)) # NL
           /\ \A e : ~e => Synced(f, Encoded(f), <<>>, e)
<1>1. f \in Seq(Byte) /\ Len(f) >= 3 /\ Len(f) \in 0 .. Len(f) /\ 0 \in 0 .. Len(f)
  BY LenProperties DEF GoodFrame
<1>2. Tidy(Encoded(f))
  BY <1>1, PutsTidy DEF Encoded
<1>3. Len(Encoded(f)) > 1
  <2>1. Puts(f)[0] = <<NL>>
    BY <1>1, PutsAre
  <2>2. Len(Puts(f)[0]) < Len(Encoded(f))
    <3>1. 0 < Len(f)
      BY <1>1
    <3>2. QED
      BY <1>1, <3>1, PutsGrow DEF Encoded
  <2>3. Len(Encoded(f)) \in Nat
    BY <1>2, TailTidy
  <2>4. QED
    BY <2>1, <2>2, <2>3
<1>4. Head(Encoded(f)) # NL
  BY <1>2, <1>3, TailTidy
<1>5. SubSeq(f, 1, Len(f) - Len(f)) = <<>>
  <2>1. Len(f) - Len(f) = 0
    BY <1>1
  <2>2. QED
    BY <1>1, <2>1, BeginningGrows
<1>6. ASSUME NEW e, ~e PROVE Synced(f, Encoded(f), <<>>, e)
  BY <1>1, <1>5, <1>6 DEF Synced, Encoded
<1>7. QED
  BY <1>2, <1>3, <1>4, <1>6

\* As much is to come as of a whole frame only before its first byte.
LEMMA WholeToCome ==
    ASSUME NEW f, GoodFrame(f), NEW o, NEW b, NEW e, Synced(f, o, b, e)
    PROVE  /\ Tidy(o)
           /\ Len(o) >= Len(Encoded(f)) => o = Encoded(f) /\ b = <<>> /\ ~e
           /\ Len(o) = 1 => o = <<NL>> /\ b = f /\ ~e
<1>1. /\ f \in Seq(Byte) /\ Len(f) \in Nat /\ Len(Encoded(f)) \in Nat
      /\ Len(f) \in 0 .. Len(f) /\ 0 \in 0 .. Len(f)
  BY LenProperties, EncodedType DEF GoodFrame
<1>2. Tidy(o)
  BY <1>1, SyncedIsTidy
<1>3. PICK n \in 0 .. Len(f) :
          /\ b = SubSeq(f, 1, Len(f) - n)
          /\ \/ ~e /\ o = Puts(f)[n]
             \/ /\ e /\ n > 0 /\ NthLast(f, n) \in {NL, ESC}
                /\ o = <<Xor(NthLast(f, n), 128)>> \o Behind(f, n)
  BY DEF Synced
<1>4. CASE ~e /\ o = Puts(f)[n]
  <2>0. ASSUME Len(o) = 1 PROVE o = <<NL>> /\ b = f
    <3>1. n = 0
      <4>1. Len(Puts(f)[0]) = 1
        <5>1. Puts(f)[0] = <<NL>>
          BY <1>1, PutsAre
        <5>2. QED
          BY <5>1
      <4>2. 0 < n => Len(Puts(f)[0]) < Len(Puts(f)[n])
        BY <1>1, PutsGrow
      <4>3. ~(0 < n)
        BY <1>4, <2>0, <4>1, <4>2
      <4>4. QED
        BY <4>3
    <3>2. o = <<NL>>
      BY <1>1, <1>4, <3>1, PutsAre
    <3>3. b = f
      BY <1>1, <1>3, <3>1, SubSeqFull
    <3>4. QED
      BY <3>2, <3>3
  <2>1. CASE n < Len(f)
    <3>1. Len(o) < Len(Encoded(f)) /\ Len(o) \in Nat
      BY <1>1, <1>2, <1>4, <2>1, PutsGrow, TailTidy DEF Encoded
    <3>2. QED
      BY <1>1, <1>2, <1>4, <2>0, <3>1
  <2>2. CASE n = Len(f)
    <3>1. o = Encoded(f)
      BY <1>4, <2>2 DEF Encoded
    <3>2. Len(f) - n = 0
      BY <1>1, <2>2
    <3>3. b = <<>>
      BY <1>1, <1>3, <3>2, BeginningGrows
    <3>4. QED
      BY <1>2, <1>4, <2>0, <3>1, <3>3
  <2>3. QED
    BY <1>1, <2>1, <2>2
<1>5. CASE /\ e /\ n > 0 /\ NthLast(f, n) \in {NL, ESC}
           /\ o = <<Xor(NthLast(f, n), 128)>> \o Behind(f, n)
  <2> DEFINE c == NthLast(f, n)  q == Behind(f, n)  x == Xor(c, 128)
  <2>a. c = NthLast(f, n) /\ q = Behind(f, n) /\ x = Xor(c, 128)
    OBVIOUS
  <2>b. c \in {NL, ESC} /\ o = <<x>> \o q
    BY <1>5
  <2> HIDE DEF c, q, x
  <2>1. n \in 1 .. Len(f) /\ n - 1 \in 0 .. Len(f) /\ n \in 0 .. Len(f)
    BY <1>1, <1>5
  <2>2. Tidy(q) /\ Len(q) >= 1 /\ Len(q) \in Nat /\ q \in Seq(Byte)
    <3>1. Tidy(q)
      BY <1>1, <2>1, <2>a, PutsTidy DEF Behind
    <3>2. QED
      BY <3>1, TailTidy DEF Tidy
  <2>3. x \in Byte /\ ESC \in Byte
    <3>1. c \in Byte
      BY <2>b DEF NL, ESC, Byte
    <3>2. x \in Byte
      BY <2>a, <3>1, XorType
    <3>3. QED
      BY <3>2 DEF ESC, Byte
  <2>4. Puts(f)[n] = <<ESC>> \o (<<x>> \o q)
    <3>1. PutsByte(Puts(f)[n], c, x, q)
      BY <1>1, <2>1, <2>2, <2>a, PutsStep
    <3>2. QED
      BY <2>b, <3>1 DEF PutsByte
  <2>5. Len(o) = Len(q) + 1 /\ o \in Seq(Byte)
    BY <2>2, <2>3, <2>b, InFront
  <2>6. Len(Puts(f)[n]) = Len(o) + 1
    BY <2>3, <2>4, <2>5, <2>b, InFront
  <2>7. Len(Puts(f)[n]) <= Len(Encoded(f))
    <3>1. CASE n < Len(f)
      <4>1. Len(Puts(f)[n]) < Len(Encoded(f))
        BY <1>1, <2>1, <3>1, PutsGrow DEF Encoded
      <4>2. QED
        BY <1>1, <2>2, <2>5, <2>6, <4>1
    <3>2. CASE n = Len(f)
      BY <1>1, <3>2 DEF Encoded
    <3>3. QED
      BY <1>1, <2>1, <3>1, <3>2
  <2>8. Len(o) < Len(Encoded(f)) /\ Len(o) > 1
    BY <1>1, <2>2, <2>5, <2>6, <2>7
  <2>9. QED
    BY <1>1, <1>2, <2>2, <2>5, <2>8
<1>6. QED
  BY <1>3, <1>4, <1>5

\* The frame sent last.
LEMMA LastIsGood ==
    ASSUME TypeInv, sent # <<>>
    PROVE  GoodFrame(Last(sent))
<1>1. Len(sent) \in 1 .. Len(sent)
  BY LenProperties, EmptySeq DEF TypeInv
<1>2. QED
  BY <1>1 DEF TypeInv, Last

\* A newline is to come at least.
LEMMA EmptyIsNotTidy == ~Tidy(<<>>)
  BY DEF Tidy

\* A sequence and what follows it.
LEMMA Followed ==
    ASSUME NEW o, Tidy(o), NEW C \in Seq(Byte)
    PROVE  /\ o \o C \in Seq(Byte) /\ o \o C # <<>>
           /\ Head(o \o C) = Head(o)
           /\ Tail(o \o C) = Tail(o) \o C
           /\ Len(o) = 1 => Tail(o \o C) = C
<1> DEFINE t == o \o C
<1>1. o \in Seq(Byte) /\ o # <<>> /\ Len(o) \in Nat /\ Len(o) >= 1 /\ Len(C) \in Nat
  BY TailTidy, LenProperties DEF Tidy
<1>2. t \in Seq(Byte) /\ Len(t) = Len(o) + Len(C)
      /\ \A i \in 1 .. Len(o) + Len(C) : t[i] = IF i <= Len(o) THEN o[i] ELSE C[i - Len(o)]
  BY <1>1, ConcatProperties
<1> HIDE DEF t
<1>3. t # <<>>
  <2>1. Len(<<>>) = 0
    OBVIOUS
  <2>2. QED
    BY <1>1, <1>2, <2>1
<1>4. Head(t) = Head(o)
  <2>1. 1 \in 1 .. Len(o) + Len(C) /\ 1 <= Len(o)
    BY <1>1
  <2>2. t[1] = o[1]
    BY <1>2, <2>1
  <2>3. QED
    BY <2>2
<1>5. /\ Tail(t) \in Seq(Byte) /\ Len(Tail(t)) = Len(t) - 1
      /\ \A i \in 1 .. Len(Tail(t)) : Tail(t)[i] = t[i + 1]
  BY <1>2, <1>3, HeadTailProperties
<1>6. /\ Tail(o) \in Seq(Byte) /\ Len(Tail(o)) = Len(o) - 1
      /\ \A i \in 1 .. Len(Tail(o)) : Tail(o)[i] = o[i + 1]
  BY <1>1, HeadTailProperties
<1> DEFINE p == Tail(o)  u == p \o C  w == Tail(t)
<1>7. Tail(t) = Tail(o) \o C
  <2>1. p \in Seq(Byte) /\ Len(p) = Len(o) - 1 /\ \A i \in 1 .. Len(p) : p[i] = o[i + 1]
    BY <1>6
  <2>2. w \in Seq(Byte) /\ Len(w) = Len(t) - 1 /\ \A i \in 1 .. Len(w) : w[i] = t[i + 1]
    BY <1>5
  <2> HIDE DEF p, w
  <2>3. u \in Seq(Byte) /\ Len(u) = Len(p) + Len(C)
        /\ \A i \in 1 .. Len(p) + Len(C) : u[i] = IF i <= Len(p) THEN p[i] ELSE C[i - Len(p)]
    BY <2>1, ConcatProperties
  <2> HIDE DEF u
  <2>4. Len(u) = Len(w)
    BY <1>1, <1>2, <2>1, <2>2, <2>3
  <2>5. ASSUME NEW i \in 1 .. Len(w) PROVE u[i] = w[i]
    <3>1. w[i] = t[i + 1]
      BY <2>2
    <3>2. t[i + 1] = IF i + 1 <= Len(o) THEN o[i + 1] ELSE C[i + 1 - Len(o)]
      <4>1. i + 1 \in 1 .. Len(o) + Len(C)
        BY <1>1, <1>2, <2>2
      <4>2. QED
        BY <1>2, <4>1
    <3>3. u[i] = IF i <= Len(p) THEN p[i] ELSE C[i - Len(p)]
      <4>1. i \in 1 .. Len(p) + Len(C)
        BY <1>1, <1>2, <2>1, <2>2
      <4>2. QED
        BY <2>3, <4>1
    <3>4. CASE i <= Len(p)
      <4>1. i \in 1 .. Len(p) /\ i + 1 <= Len(o)
        BY <1>1, <2>1, <3>4
      <4>2. QED
        BY <2>1, <3>1, <3>2, <3>3, <3>4, <4>1
    <3>5. CASE ~(i <= Len(p))
      <4>1. ~(i + 1 <= Len(o)) /\ i - Len(p) = i + 1 - Len(o)
        BY <1>1, <2>1, <3>5
      <4>2. QED
        BY <3>1, <3>2, <3>3, <3>5, <4>1
    <3>6. QED
      BY <3>4, <3>5
  <2>6. u = w
    BY <2>2, <2>3, <2>4, <2>5, SeqEqual
  <2>7. QED
    BY <2>6 DEF u, w, p
<1>8. ASSUME Len(o) = 1 PROVE Tail(t) = C
  <2>1. Tail(o) = <<>>
    <3>1. Len(Tail(o)) = 0
      BY <1>6, <1>8
    <3>2. QED
      BY <1>6, <3>1, EmptySeq
  <2>2. <<>> \o C = C
    OBVIOUS
  <2>3. QED
    BY <1>7, <2>1, <2>2
<1>9. QED
  BY <1>2, <1>3, <1>4, <1>7, <1>8 DEF t

-----------------------------------------------------------------------------
(* Which of the frames accepted are frames that were sent. *)

\* m of the frames accepted are frames sent, in that order, among the first w.
Matched(m, w) ==
    \E S \in SUBSET (1 .. Len(accepted)) :
        /\ Cardinality(S) = m
        /\ \E g \in [S -> 1 .. w] :
              /\ \A i \in S : accepted[i] = sent[g[i]]
              /\ \A i, j \in S : i < j => g[i] < g[j]

\* How many may be matched.
LEMMA MatchedType ==
    ASSUME TypeInv, NEW m, NEW w, Matched(m, w)
    PROVE  m \in Nat /\ m <= Len(accepted) /\ Len(accepted) \in Nat
<1>1. PICK S \in SUBSET (1 .. Len(accepted)) : Cardinality(S) = m
  BY DEF Matched
<1>2. Len(accepted) \in Nat
  BY LenProperties DEF TypeInv
<1>3. IsFiniteSet(1 .. Len(accepted)) /\ Cardinality(1 .. Len(accepted)) = Len(accepted)
  BY <1>2, FS_Interval
<1>4. IsFiniteSet(S) /\ Cardinality(S) <= Len(accepted)
  BY <1>3, FS_Subset
<1>5. Cardinality(S) \in Nat
  BY <1>4, FS_CardinalityType
<1>6. QED
  BY <1>1, <1>2, <1>4, <1>5

\* One more frame is accepted.
LEMMA AcceptedGrows ==
    ASSUME TypeInv, NEW f, accepted' = Append(accepted, f)
    PROVE  /\ Len(accepted') = Len(accepted) + 1 /\ Len(accepted) \in Nat
           /\ accepted'[Len(accepted) + 1] = f
           /\ \A i \in 1 .. Len(accepted) : accepted'[i] = accepted[i]
<1>1. accepted \in Seq(Seq(Byte) \cup {f})
  BY DEF TypeInv
<1>2. QED
  BY <1>1, AppendProperties, LenProperties

\* What is matched stays matched.
LEMMA MatchedKeeps ==
    ASSUME TypeInv, NEW m, NEW w \in Int, Matched(m, w), NEW u \in Int, w <= u,
           accepted' = accepted \/ \E f : accepted' = Append(accepted, f),
           \A i \in 1 .. w : sent'[i] = sent[i]
    PROVE  Matched(m, u)'
<1>1. PICK S \in SUBSET (1 .. Len(accepted)) :
          /\ Cardinality(S) = m
          /\ \E g \in [S -> 1 .. w] :
                /\ \A i \in S : accepted[i] = sent[g[i]]
                /\ \A i, j \in S : i < j => g[i] < g[j]
  BY DEF Matched
<1>2. PICK g \in [S -> 1 .. w] :
          /\ \A i \in S : accepted[i] = sent[g[i]]
          /\ \A i, j \in S : i < j => g[i] < g[j]
  BY <1>1
<1>3. /\ Len(accepted) \in Nat /\ Len(accepted') \in Nat /\ Len(accepted) <= Len(accepted')
      /\ \A i \in 1 .. Len(accepted) : accepted'[i] = accepted[i]
  <2>1. CASE accepted' = accepted
    BY <2>1, LenProperties DEF TypeInv
  <2>2. CASE \E f : accepted' = Append(accepted, f)
    BY <2>2, AcceptedGrows
  <2>3. QED
    BY <2>1, <2>2
<1>4. S \in SUBSET (1 .. Len(accepted'))
  BY <1>3
<1>5. g \in [S -> 1 .. u]
  <2>1. 1 .. w \subseteq 1 .. u
    OBVIOUS
  <2>2. QED
    BY <2>1
<1>6. \A i \in S : accepted'[i] = sent'[g[i]]
  BY <1>2, <1>3
<1>7. QED
  BY <1>1, <1>2, <1>4, <1>5, <1>6 DEF Matched

\* A frame that was sent behind those that are matched is accepted.
LEMMA MatchedMore ==
    ASSUME TypeInv, NEW m, NEW w \in Int, Matched(m, w), NEW k \in Nat, w < k, k > 0,
           NEW f, accepted' = Append(accepted, f), sent'[k] = f,
           \A i \in 1 .. w : sent'[i] = sent[i]
    PROVE  Matched(m + 1, k)'
<1>1. PICK S \in SUBSET (1 .. Len(accepted)) :
          /\ Cardinality(S) = m
          /\ \E g \in [S -> 1 .. w] :
                /\ \A i \in S : accepted[i] = sent[g[i]]
                /\ \A i, j \in S : i < j => g[i] < g[j]
  BY DEF Matched
<1>2. PICK g \in [S -> 1 .. w] :
          /\ \A i \in S : accepted[i] = sent[g[i]]
          /\ \A i, j \in S : i < j => g[i] < g[j]
  BY <1>1
<1>3. PICK N \in Nat : N = Len(accepted)
  BY LenProperties DEF TypeInv
<1>4. /\ Len(accepted') = N + 1 /\ accepted'[N + 1] = f
      /\ \A i \in 1 .. N : accepted'[i] = accepted[i]
  BY <1>3, AcceptedGrows
<1> DEFINE T == S \cup {N + 1}
           h == [i \in T |-> IF i \in S THEN g[i] ELSE k]
<1>5. N + 1 \notin S /\ S \subseteq 1 .. N
  BY <1>3
<1>6. Cardinality(T) = m + 1
  <2>1. IsFiniteSet(1 .. N)
    BY FS_Interval
  <2>2. IsFiniteSet(S)
    BY <1>5, <2>1, FS_Subset
  <2>3. QED
    BY <1>1, <1>5, <2>2, FS_AddElement
<1>7. T \in SUBSET (1 .. N + 1)
  <2>1. \A i \in 1 .. N : i \in 1 .. N + 1
    OBVIOUS
  <2>2. \A i \in T : i \in 1 .. N + 1
    BY <1>5, <2>1
  <2>3. QED
    BY <2>2
<1>8. h \in [T -> 1 .. k]
  <2>1. \A i \in S : g[i] \in 1 .. k
    BY <1>2
  <2>2. \A i \in T : h[i] \in 1 .. k
    BY <2>1
  <2>3. QED
    BY <2>2
<1>9. ASSUME NEW i \in T PROVE accepted'[i] = sent'[h[i]]
  <2>1. CASE i \in S
    BY <1>2, <1>4, <1>5, <2>1
  <2>2. CASE i = N + 1
    BY <1>4, <1>5, <2>2
  <2>3. QED
    BY <2>1, <2>2
<1>10. ASSUME NEW i \in T, NEW j \in T, i < j PROVE h[i] < h[j]
  <2>1. i \in S
    BY <1>5, <1>7, <1>10
  <2>2. CASE j \in S
    BY <1>2, <1>10, <2>1, <2>2
  <2>3. CASE j \notin S
    <3>1. h[j] = k /\ h[i] = g[i] /\ g[i] \in 1 .. w
      BY <1>2, <2>1, <2>3
    <3>2. QED
      BY <3>1
  <2>4. QED
    BY <2>2, <2>3
<1> HIDE DEF T, h
<1>11. QED
  BY <1>4, <1>6, <1>7, <1>8, <1>9, <1>10 DEF Matched

\* When m frames were accepted as they were sent: the frames that are missing and
\* not accounted for, and the frames accepted that were not sent.
Owed(m) == Len(sent) - m - cost - Cardinality(TooLong)
Wrong(m) == Len(accepted) - m

\* How many frames are too long for the reader, and how many are missing.
LEMMA TooLongType ==
    ASSUME TypeInv
    PROVE  /\ IsFiniteSet(TooLong) /\ Cardinality(TooLong) \in Nat
           /\ dir = "up" => Cardinality(TooLong) = 0
           /\ Len(sent) \in Nat /\ Len(accepted) \in Nat /\ cost \in Nat
           /\ \A m \in Nat : Owed(m) \in Int /\ Wrong(m) \in Int
           /\ drops \in Nat /\ Misread \in Nat
           /\ drops = 0 /\ ~debugged => Misread = 0
           /\ debugged => Misread >= 2
<1>1. Len(sent) \in Nat /\ Len(accepted) \in Nat /\ cost \in Nat /\ drops \in Nat
  BY LenProperties DEF TypeInv
<1>2. TooLong \subseteq 1 .. Len(sent)
  BY <1>1, LenProperties DEF TooLong, TypeInv
<1>3. IsFiniteSet(1 .. Len(sent))
  BY <1>1, FS_Interval
<1>4. IsFiniteSet(TooLong) /\ Cardinality(TooLong) \in Nat
  <2>1. IsFiniteSet(TooLong)
    BY <1>2, <1>3, FS_Subset
  <2>2. QED
    BY <2>1, FS_CardinalityType
<1>5. ASSUME dir = "up" PROVE Cardinality(TooLong) = 0
  <2>1. TooLong = {}
    BY <1>5 DEF TooLong
  <2>2. QED
    BY <2>1, FS_EmptySet
<1>6. /\ Misread \in Nat
      /\ drops = 0 /\ ~debugged => Misread = 0
      /\ debugged => Misread >= 2
  BY <1>1 DEF Misread
<1>7. QED
  BY <1>1, <1>4, <1>5, <1>6 DEF Owed, Wrong

\* A frame is sent.
LEMMA OwedForSent ==
    ASSUME TypeInv, NEW f \in Seq(Byte), send(f), NEW m \in Nat
    PROVE  /\ Owed(m)' = IF Fits(f) THEN Owed(m) + 1 ELSE Owed(m)
           /\ Wrong(m)' = Wrong(m) /\ Misread' = Misread
           /\ Len(sent') = Len(sent) + 1 /\ Last(sent') = f
           /\ \A i \in 1 .. Len(sent) : sent'[i] = sent[i]
<1>1. /\ sent' = Append(sent, f)
      /\ UNCHANGED <<dir, accepted, cost, drops, debugged>>
  BY DEF send
<1>2. /\ Len(sent') = Len(sent) + 1 /\ Len(sent) \in Nat
      /\ DOMAIN sent = 1 .. Len(sent) /\ DOMAIN sent' = 1 .. Len(sent) + 1
      /\ sent'[Len(sent) + 1] = f
      /\ \A i \in 1 .. Len(sent) : sent'[i] = sent[i]
  BY <1>1, AppendProperties, LenProperties DEF TypeInv
<1>3. \A i \in 1 .. Len(sent) + 1 : i \in 1 .. Len(sent) \/ i = Len(sent) + 1
  BY <1>2
<1>4. Len(f) \in Nat /\ dir' = dir
  BY <1>1, LenProperties
<1>t. Cardinality(TooLong) \in Nat /\ Len(sent) \in Nat /\ cost \in Nat /\ cost' = cost
  BY <1>1, TooLongType
<1>5. Owed(m)' = IF Fits(f) THEN Owed(m) + 1 ELSE Owed(m)
  <2>1. CASE Fits(f)
    <3>1. TooLong' = TooLong
      BY <1>2, <1>3, <1>4, <2>1, Tlay2Assumption DEF TooLong, Fits
    <3>2. QED
      BY <1>t, <1>2, <2>1, <3>1 DEF Owed
  <2>2. CASE ~Fits(f)
    <3>1. TooLong' = TooLong \cup {Len(sent) + 1}
      BY <1>2, <1>3, <1>4, <2>2, Tlay2Assumption DEF TooLong, Fits
    <3>2. Len(sent) + 1 \notin TooLong
      BY <1>2 DEF TooLong
    <3>3. Cardinality(TooLong') = Cardinality(TooLong) + 1
      BY <3>1, <3>2, TooLongType, FS_AddElement
    <3>4. QED
      BY <1>t, <1>2, <2>2, <3>3 DEF Owed
  <2>3. QED
    BY <2>1, <2>2
<1>6. Wrong(m)' = Wrong(m) /\ Misread' = Misread
  BY <1>1 DEF Wrong, Misread
<1>7. QED
  BY <1>2, <1>5, <1>6 DEF Last

\* A byte is put.
LEMMA PutsNext ==
    ASSUME TypeInv, CrcInv, putch
    PROVE  /\ out \in Seq(Byte) /\ out # <<>> /\ out' = Tail(out) /\ sent # <<>>
           /\ Head(out) \in Byte /\ Reads(Head(out))
           /\ UNCHANGED <<dir, sent, drops, debugged, cost>>
           /\ \A m : Owed(m)' = Owed(m)
           /\ Misread' = Misread
           /\ accepted' = accepted => \A m : Wrong(m)' = Wrong(m)
           /\ \A f : accepted' = Append(accepted, f) =>
                  \A m \in Nat : /\ Wrong(m)' = Wrong(m) + 1
                                 /\ Wrong(m + 1)' = Wrong(m)
                                 /\ Owed(m + 1)' = Owed(m) - 1
<1>1. /\ out # <<>> /\ out' = Tail(out) /\ Reads(Head(out))
      /\ UNCHANGED <<dir, sent, drops, debugged, cost>>
  BY DEF putch, Reads
<1>2. out \in Seq(Byte) /\ sent # <<>>
  BY <1>1 DEF TypeInv
<1>3. Head(out) \in Byte
  BY <1>1, <1>2, HeadTailProperties
<1>4. TooLong' = TooLong
  BY <1>1 DEF TooLong
<1>5. (\A m : Owed(m)' = Owed(m)) /\ Misread' = Misread
  BY <1>1, <1>4 DEF Owed, Misread
<1>6. accepted' = accepted => \A m : Wrong(m)' = Wrong(m)
  BY DEF Wrong
<1>7. ASSUME NEW f, accepted' = Append(accepted, f), NEW m \in Nat
      PROVE  /\ Wrong(m)' = Wrong(m) + 1
             /\ Wrong(m + 1)' = Wrong(m)
             /\ Owed(m + 1)' = Owed(m) - 1
  <2>1. Len(accepted') = Len(accepted) + 1 /\ Len(accepted) \in Nat
    BY <1>7, AcceptedGrows
  <2>2. Cardinality(TooLong) \in Nat /\ Len(sent) \in Nat /\ cost \in Nat
    BY TooLongType
  <2>3. sent' = sent /\ cost' = cost
    BY <1>1
  <2>4. QED
    BY <1>4, <1>7, <2>1, <2>2, <2>3 DEF Wrong, Owed
<1>8. QED
  BY <1>1, <1>2, <1>3, <1>5, <1>6, <1>7

\* A byte is lost.
LEMMA OwedForLost ==
    ASSUME TypeInv, lose, NEW m \in Nat
    PROVE  /\ Owed(m)' = Owed(m) - 2 /\ Wrong(m)' = Wrong(m)
           /\ Misread' = Misread + 1
<1>1. /\ cost' = cost + 2 /\ dir' = dir /\ sent' = sent /\ accepted' = accepted
      /\ drops' = drops + 1 /\ debugged' = debugged
  BY DEF lose
<1>2. TooLong' = TooLong
  BY <1>1 DEF TooLong
<1>3. /\ Cardinality(TooLong) \in Nat /\ Len(sent) \in Nat /\ cost \in Nat
      /\ drops \in Nat /\ Len(accepted) \in Nat
  BY TooLongType
<1>4. QED
  BY <1>1, <1>2, <1>3 DEF Owed, Wrong, Misread

\* Where the debug message is among the frames sent, when C is to come behind it.
At(C) == IF Len(C) <= 1 THEN Len(sent) ELSE Len(sent) - 1

\* The debug message cuts in.
LEMMA DebugSent ==
    ASSUME TypeInv, debug_out, NEW C, C = out
    PROVE  /\ Len(sent') = Len(sent) + 1 /\ Len(sent) \in Nat
           /\ At(C) \in Int /\ At(C) >= 0 /\ At(C)' = At(C) + 1
           /\ sent'[At(C) + 1] = DebugMessage
           /\ \A i \in 1 .. At(C) : sent'[i] = sent[i]
           /\ Len(C) <= 1 => At(C) = Len(sent)
           /\ Len(C) > 1 => At(C) = Len(sent) - 1 /\ Last(sent') = Last(sent)
<1>1. /\ sent' = IF Len(C) <= 1 THEN Append(sent, DebugMessage)
                 ELSE Front(sent) \o <<DebugMessage, Last(sent)>>
  BY DEF debug_out
<1>2. /\ sent \in Seq(Seq(Byte)) /\ Len(sent) \in Nat /\ DebugMessage \in Seq(Byte)
      /\ \A i \in 1 .. Len(sent) : sent[i] \in Seq(Byte) /\ Len(C) \in Nat
  BY DebugIsGood, LenProperties DEF TypeInv, GoodFrame
<1>3. CASE Len(C) <= 1
  <2>1. /\ Len(sent') = Len(sent) + 1 /\ sent'[Len(sent) + 1] = DebugMessage
        /\ \A i \in 1 .. Len(sent) : sent'[i] = sent[i]
    BY <1>1, <1>2, <1>3, AppendProperties
  <2>2. At(C) = Len(sent) /\ At(C)' = Len(sent')
    BY <1>3 DEF At
  <2>3. ~(Len(C) > 1)
    <3>1. Len(C) \in Nat
      BY LenProperties DEF TypeInv
    <3>2. QED
      BY <1>3, <3>1
  <2>4. QED
    BY <1>2, <1>3, <2>1, <2>2, <2>3
<1>4. CASE ~(Len(C) <= 1)
  <2>1. sent # <<>> /\ Len(sent) >= 1
    <3>1. out # <<>>
      BY <1>4
    <3>2. QED
      BY <1>2, <3>1, EmptySeq DEF TypeInv
  <2> DEFINE f == Front(sent)  e == <<DebugMessage, Last(sent)>>
  <2>2. /\ f \in Seq(Seq(Byte)) /\ Len(f) = Len(sent) - 1
        /\ \A i \in 1 .. Len(sent) - 1 : f[i] = sent[i]
    <3>1. Len(sent) - 1 \in 0 .. Len(sent)
      BY <1>2, <2>1
    <3>2. QED
      BY <1>2, <3>1, Beginning DEF Front
  <2>3. Last(sent) = sent[Len(sent)] /\ Last(sent) \in Seq(Byte)
    BY <1>2, <2>1 DEF Last
  <2>4. e \in Seq(Seq(Byte)) /\ Len(e) = 2 /\ e[1] = DebugMessage /\ e[2] = Last(sent)
    BY <1>2, <2>3
  <2>5. sent' = f \o e
    BY <1>1, <1>4
  <2> HIDE DEF f, e
  <2>6. /\ sent' \in Seq(Seq(Byte)) /\ Len(sent') = Len(f) + Len(e)
        /\ \A i \in 1 .. Len(f) + Len(e) : sent'[i] = IF i <= Len(f) THEN f[i] ELSE e[i - Len(f)]
    BY <2>2, <2>4, <2>5, ConcatProperties
  <2>7. Len(f) + Len(e) = Len(sent) + 1
    BY <1>2, <2>2, <2>4
  <2>8. /\ sent'[Len(sent')] = Last(sent)
        /\ sent'[Len(sent)] = DebugMessage
        /\ \A i \in 1 .. Len(sent) - 1 : sent'[i] = sent[i]
    <3>1. /\ Len(sent') \in 1 .. Len(f) + Len(e) /\ ~(Len(sent') <= Len(f))
          /\ Len(sent') - Len(f) = 2
          /\ Len(sent) \in 1 .. Len(f) + Len(e) /\ ~(Len(sent) <= Len(f))
          /\ Len(sent) - Len(f) = 1
      BY <1>2, <2>1, <2>2, <2>4, <2>6
    <3>2. ASSUME NEW i \in 1 .. Len(sent) - 1 PROVE sent'[i] = sent[i]
      <4>1. i \in 1 .. Len(f) + Len(e) /\ i <= Len(f)
        BY <1>2, <2>2, <2>4
      <4>2. QED
        BY <2>2, <2>6, <4>1
    <3>3. QED
      BY <2>4, <2>6, <3>1, <3>2
  <2>9. At(C) = Len(sent) - 1 /\ At(C)' = Len(sent') - 1
    BY <1>4 DEF At
  <2>10. QED
    BY <1>2, <1>4, <2>1, <2>6, <2>7, <2>8, <2>9 DEF Last
<1>5. QED
  BY <1>3, <1>4

\* The debug message costs what Cut and esc say.
LEMMA OwedForDebug ==
    ASSUME TypeInv, debug_out, NEW m \in Nat
    PROVE  /\ Owed(m)' = Owed(m) + 1 - (IF Cut THEN 1 ELSE 0) - (IF esc THEN 1 ELSE 0)
           /\ Wrong(m)' = Wrong(m)
<1>1. /\ cost' = cost + (IF Cut THEN 1 ELSE 0) + (IF esc THEN 1 ELSE 0)
      /\ dir = "up" /\ dir' = dir /\ accepted' = accepted
  BY DEF debug_out
<1>2. Len(sent') = Len(sent) + 1 /\ Len(sent) \in Nat /\ cost \in Nat
  BY DebugSent, TooLongType
<1>3. TooLong' = {} /\ TooLong = {}
  BY <1>1 DEF TooLong
<1>4. Cardinality(TooLong') = 0 /\ Cardinality(TooLong) = 0
  BY <1>3, FS_EmptySet
<1>5. QED
  BY <1>1, <1>2, <1>4 DEF Owed, Wrong

-----------------------------------------------------------------------------
(* What the faults account for. *)

\* The reader is where the line is, in the frame sent last.
InStep == ~skip /\ Synced(Last(sent), out, buff, esc)

\* The reader is behind its last frame, in step, or passing over a frame that is
\* too long for it.
Sound ==
    IF out = <<>> THEN Clean
    ELSE InStep \/ (skip /\ Tidy(out) /\ ~Fits(Last(sent)))

\* There is no more wrong than the faults account for, and if the reader is lost
\* one of them has not done its wrong yet.
Spare(m) ==
    /\ Wrong(m) <= Misread
    /\ Sound \/ Wrong(m) <= Misread - 1

\* Nothing is to come.
Quiet(m) ==
    /\ Matched(m, Len(sent)) /\ Spare(m)
    /\ out = <<>>
    /\ Owed(m) <= -1 \/ (Clean /\ Owed(m) <= 0)

\* A frame is to come, or what is left of it.
Sending(m) ==
    /\ Matched(m, Len(sent) - 1) /\ Spare(m)
    /\ Tidy(out)
    /\ \/ Owed(m) <= -1
       \/ EndsWell(out, esc, skip) /\ Owed(m) <= 0
       \/ InStep /\ Fits(Last(sent)) /\ Owed(m) <= 1

\* Behind the debug message the newline of the frame before it is to come.
Ending(m) ==
    /\ Matched(m, Len(sent)) /\ Wrong(m) <= Misread
    /\ out = <<NL>> /\ Clean /\ Owed(m) <= 0

\* Behind the debug message C is still to come: nothing, what is left of a
\* frame, or the whole frame (v = 1).
Rest(C, v) ==
    /\ v \in {0, 1} /\ (C = <<>> \/ Tidy(C))
    /\ v = 1 => C = Encoded(Last(sent)) /\ Len(C) > 1
    /\ At(C) > 0 /\ sent[At(C)] = DebugMessage

\* The newline before the debug message is to come; the last case is that of a
\* frame of which only the newline was to come.
Cutting(C, v, m) ==
    /\ out = <<NL>> \o (Encoded(DebugMessage) \o C) /\ Wrong(m) <= 0
    /\ \/ esc /\ Owed(m) <= 0 /\ Matched(m, At(C) - 1)
       \/ ~esc /\ Owed(m) <= 1 + v /\ Matched(m, At(C) - 1)
       \/ /\ ~esc /\ Owed(m) <= 2 /\ C = <<NL>>
          /\ Matched(m, At(C) - 2) /\ At(C) > 1
          /\ buff = sent[At(C) - 1] /\ GoodFrame(buff)

\* The debug message is to come, or o of it.
Reporting(C, v, m, o) ==
    /\ out = o \o C /\ Tidy(o) /\ Matched(m, At(C) - 1)
    /\ \/ EndsWell(o, esc, skip) /\ Owed(m) <= 0 /\ v = 0 /\ Wrong(m) <= 0
       \/ Synced(DebugMessage, o, buff, esc) /\ Owed(m) <= 1 + v /\ Wrong(m) <= 1

Debugging(m) ==
    /\ debugged /\ dir = "up"
    /\ \E C, v : Rest(C, v) /\ (Cutting(C, v, m) \/ \E o : Reporting(C, v, m, o))

LossInv ==
    \E m : Quiet(m) \/ Sending(m) \/ (debugged /\ Ending(m)) \/ Debugging(m)

\* A reader accepts a frame at its end only, and is done with it then.
LEMMA ReadsOnce ==
    ASSUME TypeInv, CrcInv, NEW c, Reads(c)
    PROVE  \/ accepted' = accepted
           \/ c = NL /\ Clean' /\ \E f : accepted' = Append(accepted, f)
<1>1. CASE skip
  BY <1>1, ReadsPassed
<1>2. CASE ~skip /\ (esc \/ c \notin {NL, ESC})
  <2>1. PICK b : b = IF esc THEN Xor(c, 128) ELSE c
    OBVIOUS
  <2>2. QED
    BY <1>2, <2>1, ReadsData
<1>3. CASE ~skip /\ ~esc /\ c = ESC
  <2>1. Reads(ESC)
    BY <1>3
  <2>2. QED
    BY <1>3, <2>1, ReadsEscape
<1>4. CASE ~skip /\ ~esc /\ c = NL
  <2>1. Reads(NL)
    BY <1>4
  <2>2. QED
    BY <1>4, <2>1, ReadsEnd
<1>5. QED
  BY <1>1, <1>2, <1>3, <1>4

\* What a reader in step makes of the next byte.
LEMMA InStepReads ==
    ASSUME TypeInv, CrcInv, putch, InStep
    PROVE  /\ sent' = sent /\ Tidy(out)
           /\ Fits(Last(sent))' = Fits(Last(sent))
           /\ \/ /\ out' = <<>> /\ Clean' /\ Fits(Last(sent))
                 /\ accepted' = Append(accepted, Last(sent))
              \/ /\ Tidy(out') /\ out' # <<>> /\ accepted' = accepted
                 /\ InStep' \/ (skip' /\ ~Fits(Last(sent)))
<1>1. /\ out # <<>> /\ out' = Tail(out) /\ sent # <<>> /\ Reads(Head(out))
      /\ UNCHANGED <<dir, sent>>
  BY PutsNext
<1>2. PICK f, o : f = Last(sent) /\ o = out
  OBVIOUS
<1>3. GoodFrame(f) /\ f \in Seq(Byte)
  BY <1>1, <1>2, LastIsGood DEF GoodFrame
<1>4. Synced(f, o, buff, esc) /\ ~skip /\ Reads(Head(o))
  BY <1>1, <1>2 DEF InStep
<1>5. Tidy(o)
  BY <1>3, <1>4, SyncedIsTidy
<1>6. /\ Len(o) = 1 => out' = <<>>
      /\ Len(o) > 1 => Tidy(out') /\ out' # <<>> /\ out' = Tail(o)
  BY <1>1, <1>2, <1>5, TailTidy, EmptyIsNotTidy
<1>7. Last(sent') = f /\ Fits(Last(sent))' = Fits(f)
  BY <1>1, <1>2 DEF Fits
<1>8. \/ /\ Len(o) = 1 /\ accepted' = Append(accepted, f) /\ Clean' /\ Fits(f)
      \/ /\ Len(o) > 1 /\ accepted' = accepted
         /\ \/ ~skip' /\ Synced(f, Tail(o), buff', esc')
            \/ skip' /\ ~Fits(f)
  BY <1>3, <1>4, SyncedReads
<1>9. CASE Len(o) = 1 /\ accepted' = Append(accepted, f) /\ Clean' /\ Fits(f)
  BY <1>1, <1>2, <1>5, <1>6, <1>7, <1>9
<1>10. CASE /\ Len(o) > 1 /\ accepted' = accepted
            /\ \/ ~skip' /\ Synced(f, Tail(o), buff', esc')
               \/ skip' /\ ~Fits(f)
  <2>1. InStep' \/ (skip' /\ ~Fits(f))
    BY <1>6, <1>7, <1>10 DEF InStep
  <2>2. QED
    BY <1>1, <1>2, <1>5, <1>6, <1>7, <1>10, <2>1
<1>11. QED
  BY <1>8, <1>9, <1>10

\* What a reader makes of it that passes over a frame.
LEMMA PassingReads ==
    ASSUME TypeInv, CrcInv, putch, skip, Tidy(out)
    PROVE  /\ sent' = sent /\ accepted' = accepted
           /\ Fits(Last(sent))' = Fits(Last(sent))
           /\ \/ out' = <<>> /\ Clean'
              \/ Tidy(out') /\ out' # <<>> /\ skip'
<1>1. /\ out # <<>> /\ out' = Tail(out) /\ Reads(Head(out))
      /\ UNCHANGED <<dir, sent>>
  BY PutsNext
<1>2. Fits(Last(sent))' = Fits(Last(sent))
  BY <1>1 DEF Fits
<1>3. Len(out) = 1 \/ Len(out) > 1
  BY TailTidy
<1>4. CASE Len(out) = 1
  <2>1. out' = <<>> /\ Head(out) = NL
    BY <1>1, <1>4, TailTidy
  <2>2. QED
    BY <1>1, <1>2, <2>1, ReadsPassed
<1>5. CASE Len(out) > 1
  <2>1. Tidy(out') /\ Head(out) # NL
    BY <1>1, <1>5, TailTidy
  <2>2. out' # <<>>
    BY <2>1, EmptyIsNotTidy
  <2>3. QED
    BY <1>1, <1>2, <2>1, <2>2, ReadsPassed
<1>6. QED
  BY <1>3, <1>4, <1>5

\* What is matched, by what a byte that is put does to the frames accepted.
LEMMA PutsMatched ==
    ASSUME TypeInv, CrcInv, putch, NEW m, NEW w \in Int, Matched(m, w)
    PROVE  /\ m \in Nat
           /\ accepted' = accepted \/ (\E f : accepted' = Append(accepted, f)) =>
                  \A u \in Int : w <= u => Matched(m, u)'
           /\ \A k \in Nat : k > 0 /\ w < k /\ accepted' = Append(accepted, sent[k]) =>
                  Matched(m + 1, k)'
<1>1. m \in Nat
  BY MatchedType
<1>2. sent' = sent
  BY PutsNext
<1>3. ASSUME accepted' = accepted \/ \E f : accepted' = Append(accepted, f),
             NEW u \in Int, w <= u
      PROVE  Matched(m, u)'
  BY <1>2, <1>3, MatchedKeeps
<1>4. ASSUME NEW k \in Nat, k > 0, w < k, accepted' = Append(accepted, sent[k])
      PROVE  Matched(m + 1, k)'
  <2>1. PICK f : f = sent[k]
    OBVIOUS
  <2>2. sent'[k] = f /\ accepted' = Append(accepted, f)
    BY <1>2, <1>4, <2>1
  <2>3. QED
    BY <1>2, <1>4, <2>2, MatchedMore
<1>5. QED
  BY <1>1, <1>3, <1>4

\* What is read of a frame alone.
LEMMA SendingReads ==
    ASSUME TypeInv, CrcInv, NEW m, Sending(m), putch
    PROVE  \E k : Quiet(k)' \/ Sending(k)'
<1>1. /\ out \in Seq(Byte) /\ out # <<>> /\ out' = Tail(out) /\ sent # <<>>
      /\ Head(out) \in Byte /\ Reads(Head(out)) /\ sent' = sent
      /\ \A n : Owed(n)' = Owed(n)
      /\ Misread' = Misread
      /\ accepted' = accepted => \A n : Wrong(n)' = Wrong(n)
      /\ \A f : accepted' = Append(accepted, f) =>
             \A n \in Nat : /\ Wrong(n)' = Wrong(n) + 1
                            /\ Wrong(n + 1)' = Wrong(n)
                            /\ Owed(n + 1)' = Owed(n) - 1
  BY PutsNext
<1>2. PICK L \in Nat : L = Len(sent) /\ L > 0
  BY <1>1, LenProperties, EmptySeq DEF TypeInv
<1>3. Matched(m, L - 1) /\ Spare(m) /\ Tidy(out)
  BY <1>2 DEF Sending
<1>4. m \in Nat
  BY <1>2, <1>3, MatchedType
<1>5. Owed(m) \in Int /\ Wrong(m) \in Int /\ Misread \in Nat
  BY <1>4, TooLongType
<1>6. /\ accepted' = accepted \/ (\E f : accepted' = Append(accepted, f)) =>
             Matched(m, L)' /\ Matched(m, L - 1)'
      /\ accepted' = Append(accepted, sent[L]) => Matched(m + 1, L)'
  <2>1. L - 1 \in Int /\ L \in Int /\ L - 1 <= L /\ L - 1 <= L - 1 /\ L - 1 < L
    BY <1>2
  <2>2. QED
    BY <1>2, <1>3, <2>1, PutsMatched
<1>7. /\ Len(out) = 1 \/ Len(out) > 1
      /\ Len(out) = 1 => out' = <<>> /\ Head(out) = NL
      /\ Len(out) > 1 => Tidy(out') /\ Head(out) # NL /\ out' # <<>>
  BY <1>1, <1>3, TailTidy, EmptyIsNotTidy
<1>8. ASSUME NEW k, Matched(k, L)', Spare(k)', out' = <<>>,
             Owed(k)' <= -1 \/ (Clean' /\ Owed(k)' <= 0)
      PROVE  \E n : Quiet(n)' \/ Sending(n)'
  <2>1. Matched(k, Len(sent))'
    BY <1>1, <1>2, <1>8 DEF Matched
  <2>2. Quiet(k)'
    BY <1>8, <2>1 DEF Quiet
  <2>3. QED
    BY <2>2
<1>9. ASSUME Matched(m, L - 1)', Spare(m)', Tidy(out'),
             \/ Owed(m)' <= -1
             \/ EndsWell(out', esc', skip') /\ Owed(m)' <= 0
             \/ InStep' /\ Fits(Last(sent))' /\ Owed(m)' <= 1
      PROVE  \E n : Quiet(n)' \/ Sending(n)'
  <2>1. Matched(m, Len(sent) - 1)'
    BY <1>1, <1>2, <1>9 DEF Matched
  <2>2. Sending(m)'
    BY <1>9, <2>1 DEF Sending
  <2>3. QED
    BY <2>2
<1>10. Wrong(m) <= Misread
  BY <1>3 DEF Spare
<1>11. EndsWell(out, esc, skip) =>
           /\ Len(out) = 1 => Clean'
           /\ Len(out) > 1 => accepted' = accepted /\ EndsWell(out', esc', skip')
  BY <1>1, <1>3, TidyReads
<1>12. CASE InStep
  <2>1. \/ /\ out' = <<>> /\ Clean' /\ accepted' = Append(accepted, Last(sent))
        \/ /\ Tidy(out') /\ out' # <<>> /\ accepted' = accepted
           /\ InStep' \/ (skip' /\ ~Fits(Last(sent)))
    BY <1>12, InStepReads
  <2>2. Fits(Last(sent))' = Fits(Last(sent))
    BY <1>12, InStepReads
  <2>3. CASE out' = <<>> /\ Clean' /\ accepted' = Append(accepted, Last(sent))
    <3>1. accepted' = Append(accepted, sent[L])
      BY <1>2, <2>3 DEF Last
    <3>2. Matched(m + 1, L)'
      BY <1>6, <3>1
    <3>3. Owed(m + 1)' = Owed(m) - 1 /\ Wrong(m + 1)' = Wrong(m)
      BY <1>1, <1>4, <3>1
    <3>4. Owed(m) <= 1
      BY <1>5 DEF Sending
    <3>5. Owed(m + 1)' <= 0
      BY <1>5, <3>3, <3>4
    <3>6. Spare(m + 1)'
      BY <1>1, <1>10, <2>3, <3>3 DEF Spare, Sound
    <3>7. QED
      BY <1>8, <2>3, <3>2, <3>5, <3>6
  <2>4. CASE /\ Tidy(out') /\ out' # <<>> /\ accepted' = accepted
             /\ InStep' \/ (skip' /\ ~Fits(Last(sent)))
    <3>1. Owed(m)' = Owed(m) /\ Wrong(m)' = Wrong(m) /\ Matched(m, L - 1)' /\ Len(out) > 1
      BY <1>1, <1>6, <1>7, <2>4
    <3>2. Sound'
      BY <2>2, <2>4 DEF Sound
    <3>3. Spare(m)'
      BY <1>1, <1>10, <3>1, <3>2 DEF Spare
    <3>4. \/ Owed(m)' <= -1
          \/ EndsWell(out', esc', skip') /\ Owed(m)' <= 0
          \/ InStep' /\ Fits(Last(sent))' /\ Owed(m)' <= 1
      <4>1. CASE Owed(m) <= -1
        BY <3>1, <4>1
      <4>2. CASE EndsWell(out, esc, skip) /\ Owed(m) <= 0
        BY <1>11, <3>1, <4>2
      <4>3. CASE InStep /\ Fits(Last(sent)) /\ Owed(m) <= 1
        BY <2>2, <2>4, <3>1, <4>3
      <4>4. QED
        BY <4>1, <4>2, <4>3 DEF Sending
    <3>5. QED
      BY <1>9, <2>4, <3>1, <3>3, <3>4
  <2>5. QED
    BY <2>1, <2>3, <2>4
<1>13. CASE skip /\ ~Fits(Last(sent))
  <2>1. /\ accepted' = accepted
        /\ Fits(Last(sent))' = Fits(Last(sent))
        /\ \/ out' = <<>> /\ Clean'
           \/ Tidy(out') /\ out' # <<>> /\ skip'
    BY <1>3, <1>13, PassingReads
  <2>2. Owed(m)' = Owed(m) /\ Wrong(m)' = Wrong(m) /\ Matched(m, L - 1)' /\ Matched(m, L)'
    BY <1>1, <1>6, <2>1
  <2>3. Owed(m) <= 0
    <3>1. Owed(m) <= -1 \/ Owed(m) <= 0
      BY <1>13 DEF Sending
    <3>2. QED
      BY <1>5, <3>1
  <2>4. Sound'
    BY <1>13, <2>1 DEF Sound
  <2>5. Spare(m)'
    BY <1>1, <1>10, <2>2, <2>4 DEF Spare
  <2>6. CASE out' = <<>> /\ Clean'
    BY <1>8, <2>2, <2>3, <2>5, <2>6
  <2>7. CASE Tidy(out') /\ out' # <<>> /\ skip'
    <3>1. EndsWell(out', esc', skip')
      BY <2>7 DEF EndsWell
    <3>2. QED
      BY <1>9, <2>2, <2>3, <2>5, <2>7, <3>1
  <2>8. QED
    BY <2>1, <2>6, <2>7
<1>14. CASE ~InStep /\ ~(skip /\ ~Fits(Last(sent)))
  <2>1. Wrong(m) <= Misread - 1
    BY <1>1, <1>3, <1>14 DEF Spare, Sound
  <2>2. Owed(m) <= -1 \/ (EndsWell(out, esc, skip) /\ Owed(m) <= 0)
    BY <1>14 DEF Sending
  <2>3. \/ accepted' = accepted
        \/ Head(out) = NL /\ Clean' /\ \E f : accepted' = Append(accepted, f)
    BY <1>1, ReadsOnce
  <2>4. Matched(m, L)' /\ Matched(m, L - 1)' /\ Owed(m)' = Owed(m)
    BY <1>1, <1>6, <2>3
  <2>5. Spare(m)'
    <3>1. CASE accepted' = accepted
      BY <1>1, <1>5, <2>1, <3>1 DEF Spare
    <3>2. CASE Head(out) = NL /\ Clean' /\ \E f : accepted' = Append(accepted, f)
      <4>1. out' = <<>>
        BY <1>7, <3>2
      <4>2. Sound'
        BY <3>2, <4>1 DEF Sound
      <4>3. Wrong(m)' = Wrong(m) + 1
        BY <1>1, <1>4, <3>2
      <4>4. QED
        BY <1>1, <1>5, <2>1, <4>2, <4>3 DEF Spare
    <3>3. QED
      BY <2>3, <3>1, <3>2
  <2>6. CASE Len(out) = 1
    <3>1. Owed(m)' <= -1 \/ (Clean' /\ Owed(m)' <= 0)
      BY <1>11, <2>2, <2>4, <2>6
    <3>2. QED
      BY <1>7, <1>8, <2>4, <2>5, <2>6, <3>1
  <2>7. CASE Len(out) > 1
    <3>1. Owed(m)' <= -1 \/ (EndsWell(out', esc', skip') /\ Owed(m)' <= 0)
      BY <1>11, <2>2, <2>4, <2>7
    <3>2. QED
      BY <1>7, <1>9, <2>4, <2>5, <2>7, <3>1
  <2>8. QED
    BY <1>7, <2>6, <2>7
<1>15. QED
  BY <1>12, <1>13, <1>14

\* Behind the debug message the newline of the frame it cut is read.
LEMMA EndingReads ==
    ASSUME TypeInv, CrcInv, putch, NEW m, Ending(m)
    PROVE  Quiet(m)'
<1>1. /\ out' = Tail(out) /\ Reads(Head(out)) /\ sent' = sent
      /\ \A n : Owed(n)' = Owed(n)
      /\ Misread' = Misread
      /\ accepted' = accepted => \A n : Wrong(n)' = Wrong(n)
  BY PutsNext
<1>2. out = <<NL>> /\ Clean /\ Matched(m, Len(sent)) /\ Wrong(m) <= Misread /\ Owed(m) <= 0
  BY DEF Ending
<1>3. out' = <<>> /\ Reads(NL) /\ ~skip /\ ~esc /\ buff = <<>>
  BY <1>1, <1>2 DEF Clean
<1>4. ~GoodFrame(buff)
  BY <1>3 DEF GoodFrame
<1>5. Clean' /\ accepted' = accepted
  BY <1>3, <1>4, ReadsEnd
<1>6. Matched(m, Len(sent))'
  BY <1>1, <1>2, <1>5 DEF Matched
<1>7. Spare(m)'
  BY <1>1, <1>2, <1>3, <1>5 DEF Spare, Sound
<1>8. QED
  BY <1>1, <1>2, <1>3, <1>5, <1>6, <1>7 DEF Quiet

\* Where the debug message is, and what is behind it.
LEMMA RestIs ==
    ASSUME TypeInv, NEW C, NEW v, Rest(C, v)
    PROVE  /\ C \in Seq(Byte) /\ v \in {0, 1} /\ At(C) \in Nat /\ At(C) > 0
           /\ sent[At(C)] = DebugMessage
           /\ sent' = sent => At(C)' = At(C) /\ Rest(C, v)' /\ Rest(C, 0)'
<1>1. <<>> \in Seq(Byte) /\ Len(sent) \in Nat
  BY LenProperties DEF TypeInv
<1>2. C \in Seq(Byte) /\ v \in {0, 1} /\ At(C) > 0 /\ sent[At(C)] = DebugMessage
  BY <1>1 DEF Rest, Tidy
<1>3. At(C) \in Nat
  BY <1>1, <1>2 DEF At
<1>4. ASSUME sent' = sent PROVE At(C)' = At(C) /\ Rest(C, v)' /\ Rest(C, 0)'
  <2>1. At(C)' = At(C)
    BY <1>4 DEF At
  <2>2. QED
    BY <1>4, <2>1 DEF Rest
<1>5. QED
  BY <1>2, <1>3, <1>4

\* The reader takes the newline before the debug message.
LEMMA CuttingReads ==
    ASSUME TypeInv, CrcInv, putch, debugged, dir = "up", NEW C, NEW v, NEW m,
           Rest(C, v), Cutting(C, v, m)
    PROVE  \E k : Debugging(k)'
<1>1. /\ out \in Seq(Byte) /\ out # <<>> /\ out' = Tail(out) /\ sent # <<>>
      /\ Head(out) \in Byte /\ Reads(Head(out))
      /\ UNCHANGED <<dir, sent, drops, debugged, cost>>
      /\ \A n : Owed(n)' = Owed(n)
      /\ accepted' = accepted => \A n : Wrong(n)' = Wrong(n)
      /\ \A f : accepted' = Append(accepted, f) =>
             \A n \in Nat : /\ Wrong(n)' = Wrong(n) + 1
                            /\ Wrong(n + 1)' = Wrong(n)
                            /\ Owed(n + 1)' = Owed(n) - 1
  BY PutsNext
<1>2. PICK o : o = Encoded(DebugMessage)
  OBVIOUS
<1>3. /\ GoodFrame(DebugMessage) /\ Tidy(o) /\ o \in Seq(Byte) /\ Head(o) # NL
      /\ \A e : ~e => Synced(DebugMessage, o, <<>>, e)
  BY <1>2, DebugIsGood, Starts DEF Tidy
<1>4. PICK a \in Nat : a = At(C) /\ a > 0
  BY RestIs
<1>a. C \in Seq(Byte) /\ v \in {0, 1} /\ sent[a] = DebugMessage
  BY <1>4, RestIs
<1>5. o \o C \in Seq(Byte)
  BY <1>3, <1>a, ConcatProperties
<1>6. out' = o \o C /\ Head(out) = NL
  <2>1. NL \in Byte
    BY DEF NL, Byte
  <2>2. out = <<NL>> \o (o \o C)
    BY <1>2 DEF Cutting
  <2> DEFINE q == o \o C
  <2>3. q \in Seq(Byte) /\ out = <<NL>> \o q
    BY <1>5, <2>2
  <2> HIDE DEF q
  <2>4. Head(out) = NL /\ Tail(out) = q
    BY <2>1, <2>3, InFront
  <2>5. QED
    BY <1>1, <2>4 DEF q
<1>7. Rest(C, v)' /\ Rest(C, 0)' /\ At(C)' = a
  BY <1>1, <1>4, RestIs
<1>8. Reads(NL)
  BY <1>1, <1>6
<1>9. ~skip
  BY DEF TypeInv
<1>10. debugged' /\ dir' = "up"
  BY <1>1
<1>11. ASSUME NEW k, NEW w, Rest(C, w)', Matched(k, a - 1)',
              \/ EndsWell(o, esc', skip') /\ Owed(k)' <= 0 /\ w = 0 /\ Wrong(k)' <= 0
              \/ Synced(DebugMessage, o, buff', esc') /\ Owed(k)' <= 1 + w /\ Wrong(k)' <= 1
       PROVE  \E n : Debugging(n)'
  <2>1. Matched(k, At(C) - 1)'
    BY <1>7, <1>11 DEF Matched
  <2>2. Reporting(C, w, k, o)'
    BY <1>3, <1>6, <1>11, <2>1 DEF Reporting
  <2>3. Debugging(k)'
    BY <1>10, <1>11, <2>2 DEF Debugging
  <2>4. QED
    BY <2>3
<1>12. ASSUME Matched(m, a - 1)
       PROVE  /\ m \in Nat
              /\ accepted' = accepted \/ (\E f : accepted' = Append(accepted, f)) =>
                     Matched(m, a - 1)'
  <2>1. a - 1 \in Int /\ a - 1 <= a - 1
    BY <1>4
  <2>2. QED
    BY <1>12, <2>1, PutsMatched
<1>13. ASSUME m \in Nat PROVE Owed(m) \in Int /\ Wrong(m) \in Int
  BY <1>13, TooLongType
<1>14. Wrong(m) <= 0
  BY DEF Cutting
<1>15. CASE esc /\ Owed(m) <= 0 /\ Matched(m, a - 1)
  <2>1. ~esc' /\ accepted' = accepted
    BY <1>8, <1>9, <1>15, ReadsData
  <2>2. EndsWell(o, esc', skip')
    BY <2>1 DEF EndsWell
  <2>3. Owed(m)' <= 0 /\ Wrong(m)' <= 0 /\ Matched(m, a - 1)'
    BY <1>1, <1>12, <1>14, <1>15, <2>1
  <2>4. QED
    BY <1>7, <1>11, <2>2, <2>3
<1>16. ASSUME ~esc
       PROVE  /\ Synced(DebugMessage, o, buff', esc')
              /\ accepted' = IF GoodFrame(buff) THEN Append(accepted, buff) ELSE accepted
  <2>1. /\ Clean'
        /\ accepted' = IF GoodFrame(buff) THEN Append(accepted, buff) ELSE accepted
    BY <1>8, <1>9, <1>16, ReadsEnd
  <2>2. QED
    BY <1>3, <2>1 DEF Clean
<1>17. CASE ~esc /\ Owed(m) <= 1 + v /\ Matched(m, a - 1)
  <2>1. m \in Nat /\ Matched(m, a - 1)'
    BY <1>12, <1>16, <1>17
  <2>2. Owed(m)' <= 1 + v
    BY <1>1, <1>17
  <2>3. Wrong(m)' <= 1
    <3>1. CASE accepted' = accepted
      BY <1>1, <1>13, <1>14, <2>1, <3>1
    <3>2. CASE accepted' = Append(accepted, buff)
      <4>1. Wrong(m)' = Wrong(m) + 1
        BY <1>1, <2>1, <3>2
      <4>2. QED
        BY <1>13, <1>14, <2>1, <4>1
    <3>3. QED
      BY <1>16, <1>17, <3>1, <3>2
  <2>4. QED
    BY <1>7, <1>11, <1>16, <1>17, <2>1, <2>2, <2>3
<1>18. CASE /\ ~esc /\ Owed(m) <= 2 /\ Matched(m, a - 2) /\ a > 1
            /\ buff = sent[a - 1] /\ GoodFrame(buff)
  <2>1. accepted' = Append(accepted, sent[a - 1])
    BY <1>16, <1>18
  <2>2. a - 2 \in Int /\ a - 1 \in Nat /\ a - 1 > 0 /\ a - 2 < a - 1
    BY <1>4, <1>18
  <2>3. m \in Nat /\ Matched(m + 1, a - 1)'
    BY <1>18, <2>1, <2>2, PutsMatched
  <2>4. Owed(m + 1)' = Owed(m) - 1 /\ Wrong(m + 1)' = Wrong(m)
    BY <1>1, <2>1, <2>3
  <2>5. Owed(m + 1)' <= 1 + v /\ Wrong(m + 1)' <= 1
    BY <1>13, <1>14, <1>18, <1>a, <2>3, <2>4
  <2>6. QED
    BY <1>7, <1>11, <1>16, <1>18, <2>3, <2>5
<1>19. QED
  BY <1>4, <1>15, <1>17, <1>18 DEF Cutting

\* The reader takes a byte of the debug message.
LEMMA ReportingReads ==
    ASSUME TypeInv, CrcInv, putch, debugged, dir = "up", NEW C, NEW v, NEW m, NEW o,
           Rest(C, v), Reporting(C, v, m, o)
    PROVE  \E k : (Quiet(k) \/ Sending(k) \/ Ending(k) \/ Debugging(k))'
<1>1. /\ out \in Seq(Byte) /\ out # <<>> /\ out' = Tail(out) /\ sent # <<>>
      /\ Head(out) \in Byte /\ Reads(Head(out))
      /\ UNCHANGED <<dir, sent, drops, debugged, cost>>
      /\ \A n : Owed(n)' = Owed(n)
      /\ Misread' = Misread
      /\ accepted' = accepted => \A n : Wrong(n)' = Wrong(n)
      /\ \A f : accepted' = Append(accepted, f) =>
             \A n \in Nat : /\ Wrong(n)' = Wrong(n) + 1
                            /\ Wrong(n + 1)' = Wrong(n)
                            /\ Owed(n + 1)' = Owed(n) - 1
  BY PutsNext
<1>2. GoodFrame(DebugMessage) /\ GoodFrame(Last(sent))
  BY <1>1, DebugIsGood, LastIsGood
<1>3. PICK a \in Nat : a = At(C) /\ a > 0
  BY RestIs
<1>4. /\ C \in Seq(Byte) /\ v \in {0, 1} /\ sent[a] = DebugMessage
      /\ Rest(C, v)' /\ At(C)' = a
  BY <1>1, <1>3, RestIs
<1>5. /\ out = o \o C /\ Tidy(o) /\ Matched(m, a - 1)
      /\ Len(o) = 1 \/ Len(o) > 1
      /\ Len(o) = 1 => Head(o) = NL
      /\ Len(o) > 1 => Tidy(Tail(o))
  <2>1. out = o \o C /\ Tidy(o) /\ Matched(m, a - 1)
    BY <1>3 DEF Reporting
  <2>2. QED
    BY <2>1, TailTidy
<1>6. /\ Head(out) = Head(o) /\ out' = Tail(o) \o C
      /\ Len(o) = 1 => out' = C
  <2>1. /\ Head(o \o C) = Head(o) /\ Tail(o \o C) = Tail(o) \o C
        /\ Len(o) = 1 => Tail(o \o C) = C
    BY <1>4, <1>5, Followed
  <2>2. QED
    BY <1>1, <1>5, <2>1
<1>7. Reads(Head(o)) /\ debugged' /\ dir' = "up"
  BY <1>1, <1>6
<1>8. /\ m \in Nat
      /\ accepted' = accepted \/ (\E f : accepted' = Append(accepted, f)) =>
             Matched(m, a - 1)' /\ Matched(m, a)'
      /\ accepted' = Append(accepted, DebugMessage) => Matched(m + 1, a)'
  <2>1. a - 1 \in Int /\ a \in Int /\ a - 1 <= a - 1 /\ a - 1 <= a /\ a - 1 < a
    BY <1>3
  <2>2. QED
    BY <1>3, <1>4, <1>5, <2>1, PutsMatched
<1>9. Owed(m) \in Int /\ Wrong(m) \in Int /\ Misread \in Nat /\ Misread >= 2
  BY <1>8, TooLongType
<1>10. ASSUME Len(o) > 1, Matched(m, a - 1)',
              \/ EndsWell(Tail(o), esc', skip') /\ Owed(m)' <= 0 /\ v = 0 /\ Wrong(m)' <= 0
              \/ /\ Synced(DebugMessage, Tail(o), buff', esc')
                 /\ Owed(m)' <= 1 + v /\ Wrong(m)' <= 1
       PROVE  \E k : Debugging(k)'
  <2>1. Matched(m, At(C) - 1)'
    BY <1>4, <1>10 DEF Matched
  <2>2. Reporting(C, v, m, Tail(o))'
    <3>1. PICK p : p = Tail(o)
      OBVIOUS
    <3>2. Reporting(C, v, m, p)'
      BY <1>5, <1>6, <1>10, <2>1, <3>1 DEF Reporting
    <3>3. QED
      BY <3>1, <3>2
  <2>3. Debugging(m)'
    BY <1>4, <1>7, <2>2 DEF Debugging
  <2>4. QED
    BY <2>3
<1>11. ASSUME NEW k, Len(o) = 1, Clean', Matched(k, a)', Owed(k)' <= v,
              Wrong(k)' <= 1, Wrong(k)' \in Int
       PROVE  (Quiet(k) \/ Sending(k) \/ Ending(k))'
  <2>1. out' = C /\ ~esc' /\ ~skip' /\ buff' = <<>>
    BY <1>6, <1>11 DEF Clean
  <2>2. Spare(k)'
    BY <1>1, <1>9, <1>11 DEF Spare
  <2>3. Len(C) \in Nat /\ Len(sent) \in Nat
    BY <1>4, LenProperties DEF TypeInv
  <2>4. CASE v = 1
    <3>1. C = Encoded(Last(sent')) /\ Last(sent') = Last(sent) /\ Len(C) > 1
      BY <1>1, <2>4 DEF Rest
    <3>2. Tidy(C) /\ Synced(Last(sent'), C, buff', esc')
      BY <1>2, <2>1, <3>1, Starts
    <3>3. InStep' /\ Tidy(out')
      BY <2>1, <3>2 DEF InStep
    <3>4. (Fits(Last(sent)))'
      BY <1>7 DEF Fits
    <3>5. a = Len(sent') - 1
      BY <1>1, <1>3, <2>3, <3>1 DEF At
    <3>6. Matched(k, Len(sent) - 1)'
      BY <1>11, <3>5 DEF Matched
    <3>7. QED
      BY <1>11, <2>2, <2>4, <3>3, <3>4, <3>6 DEF Sending
  <2>5. CASE v = 0 /\ Len(C) > 1
    <3>1. Tidy(C)
      <4>1. C # <<>>
        BY <2>5
      <4>2. QED
        BY <4>1 DEF Rest
    <3>2. EndsWell(out', esc', skip')
      BY <2>1 DEF EndsWell
    <3>3. a = Len(sent') - 1
      BY <1>1, <1>3, <2>3, <2>5 DEF At
    <3>4. Matched(k, Len(sent) - 1)'
      BY <1>11, <3>3 DEF Matched
    <3>5. QED
      BY <1>11, <2>1, <2>2, <2>5, <3>1, <3>2, <3>4 DEF Sending
  <2>6. CASE v = 0 /\ Len(C) <= 1
    <3>1. a = Len(sent')
      BY <1>1, <1>3, <2>6 DEF At
    <3>2. Matched(k, Len(sent))'
      BY <1>11, <3>1 DEF Matched
    <3>3. CASE C = <<>>
      BY <1>11, <2>1, <2>2, <2>6, <3>2, <3>3 DEF Quiet
    <3>4. CASE Tidy(C)
      <4>1. Len(C) = 1 /\ C[1] = NL
        BY <2>6, <3>4, TailTidy DEF Tidy
      <4>2. C = <<NL>>
        BY <1>4, <4>1
      <4>3. Wrong(k)' <= Misread'
        BY <2>2 DEF Spare
      <4>4. QED
        BY <1>11, <2>1, <2>6, <3>2, <4>2, <4>3 DEF Ending
    <3>5. QED
      BY <3>3, <3>4 DEF Rest
  <2>7. QED
    BY <1>4, <2>3, <2>4, <2>5, <2>6
<1>12. CASE EndsWell(o, esc, skip) /\ Owed(m) <= 0 /\ v = 0 /\ Wrong(m) <= 0
  <2>1. /\ Len(o) = 1 => Clean'
        /\ Len(o) > 1 => accepted' = accepted /\ EndsWell(Tail(o), esc', skip')
    BY <1>5, <1>7, <1>12, TidyReads
  <2>2. Owed(m)' <= 0
    BY <1>1, <1>12
  <2>3. accepted' = accepted \/ \E f : accepted' = Append(accepted, f)
    BY <1>7, ReadsOnce
  <2>4. Matched(m, a - 1)' /\ Matched(m, a)'
    BY <1>8, <2>3
  <2>5. Wrong(m)' \in Int /\ Wrong(m)' <= 1
    <3>1. CASE accepted' = accepted
      BY <1>1, <1>9, <1>12, <3>1
    <3>2. CASE \E f : accepted' = Append(accepted, f)
      <4>1. Wrong(m)' = Wrong(m) + 1
        BY <1>1, <1>8, <3>2
      <4>2. QED
        BY <1>9, <1>12, <4>1
    <3>3. QED
      BY <2>3, <3>1, <3>2
  <2>6. CASE Len(o) = 1
    BY <1>11, <1>12, <2>1, <2>2, <2>4, <2>5, <2>6
  <2>7. CASE Len(o) > 1
    <3>1. Wrong(m)' <= 0
      BY <1>1, <1>12, <2>1, <2>7
    <3>2. QED
      BY <1>10, <1>12, <2>1, <2>2, <2>4, <2>7, <3>1
  <2>8. QED
    BY <1>5, <2>6, <2>7
<1>13. CASE Synced(DebugMessage, o, buff, esc) /\ Owed(m) <= 1 + v /\ Wrong(m) <= 1
  <2>1. ~skip
    BY DEF TypeInv
  <2>2. \/ /\ Len(o) = 1 /\ accepted' = Append(accepted, DebugMessage) /\ Clean'
           /\ Fits(DebugMessage)
        \/ /\ Len(o) > 1 /\ accepted' = accepted
           /\ \/ ~skip' /\ Synced(DebugMessage, Tail(o), buff', esc')
              \/ skip' /\ ~Fits(DebugMessage)
    BY <1>2, <1>7, <1>13, <2>1, SyncedReads
  <2>3. Fits(DebugMessage)
    BY DEF Fits
  <2>4. CASE Len(o) = 1 /\ accepted' = Append(accepted, DebugMessage) /\ Clean'
    <3>1. Owed(m + 1)' = Owed(m) - 1 /\ Wrong(m + 1)' = Wrong(m) /\ Matched(m + 1, a)'
      BY <1>1, <1>8, <2>4
    <3>2. Owed(m + 1)' <= v /\ Wrong(m + 1)' <= 1 /\ Wrong(m + 1)' \in Int
      BY <1>4, <1>9, <1>13, <3>1
    <3>3. QED
      BY <1>11, <2>4, <3>1, <3>2
  <2>5. CASE /\ Len(o) > 1 /\ accepted' = accepted
             /\ Synced(DebugMessage, Tail(o), buff', esc')
    <3>1. Owed(m)' <= 1 + v /\ Wrong(m)' <= 1 /\ Matched(m, a - 1)'
      BY <1>1, <1>8, <1>13, <2>5
    <3>2. QED
      BY <1>10, <2>5, <3>1
  <2>6. QED
    BY <2>2, <2>3, <2>4, <2>5
<1>14. QED
  BY <1>12, <1>13 DEF Reporting

\* Only frames that are to come are to be read.
LEMMA NothingToCome ==
    ASSUME LossInv, out = <<>>
    PROVE  \E m : Quiet(m)
<1>1. ASSUME NEW m, Sending(m) PROVE FALSE
  BY <1>1, EmptyIsNotTidy DEF Sending
<1>2. ASSUME NEW C, NEW v, NEW m, Rest(C, v), Cutting(C, v, m) PROVE FALSE
  <2>1. <<>> \in Seq(Byte) /\ NL \in Byte
    BY DEF NL, Byte
  <2>2. C \in Seq(Byte) /\ Encoded(DebugMessage) \in Seq(Byte)
    BY <1>2, <2>1, DebugIsGood, EncodedType DEF Rest, Tidy, GoodFrame
  <2> DEFINE q == Encoded(DebugMessage) \o C
  <2>3. q \in Seq(Byte) /\ out = <<NL>> \o q
    BY <1>2, <2>2, ConcatProperties DEF Cutting
  <2> HIDE DEF q
  <2>4. out # <<>>
    BY <2>1, <2>3, InFront
  <2>5. QED
    BY <2>4
<1>3. ASSUME NEW C, NEW v, NEW m, NEW o, Rest(C, v), Reporting(C, v, m, o) PROVE FALSE
  <2>1. <<>> \in Seq(Byte)
    OBVIOUS
  <2>2. C \in Seq(Byte) /\ out = o \o C /\ Tidy(o)
    BY <1>3, <2>1 DEF Rest, Tidy, Reporting
  <2>3. QED
    BY <2>2, Followed
<1>4. \A m : ~Debugging(m)
  BY <1>2, <1>3 DEF Debugging
<1>5. \A m : ~Ending(m)
  BY DEF Ending
<1>6. QED
  BY <1>1, <1>4, <1>5 DEF LossInv

\* As long as the line has done nothing wrong, nothing is wrong.
LEMMA NothingWrong ==
    ASSUME TypeInv, drops = 0, ~debugged, NEW m, NEW w, Matched(m, w), Spare(m)
    PROVE  Sound /\ Wrong(m) = 0 /\ m = Len(accepted)
<1>1. m \in Nat /\ m <= Len(accepted) /\ Len(accepted) \in Nat
  BY MatchedType
<1>2. Misread = 0
  BY TooLongType
<1>3. Wrong(m) = 0 /\ m = Len(accepted)
  BY <1>1, <1>2 DEF Spare, Wrong
<1>4. ~(Wrong(m) <= Misread - 1)
  BY <1>2, <1>3
<1>5. QED
  BY <1>3, <1>4 DEF Spare

\* A frame is sent.
LEMMA SendKeeps ==
    ASSUME TypeInv, LossInv, NEW f, GoodFrame(f), send(f)
    PROVE  \E m : Sending(m)'
<1>1. /\ out = <<>> /\ out' = Encoded(f)
      /\ UNCHANGED <<dir, buff, crc, esc, skip, accepted, drops, debugged, cost>>
  BY DEF send
<1>2. PICK m : Quiet(m)
  BY <1>1, NothingToCome
<1>3. PICK L \in Nat : L = Len(sent)
  BY LenProperties DEF TypeInv
<1>4. Matched(m, L) /\ Spare(m)
  BY <1>2, <1>3 DEF Quiet
<1>5. m \in Nat
  BY <1>4, MatchedType
<1>6. f \in Seq(Byte)
  BY DEF GoodFrame
<1>7. /\ Owed(m)' = IF Fits(f) THEN Owed(m) + 1 ELSE Owed(m)
      /\ Wrong(m)' = Wrong(m) /\ Misread' = Misread
      /\ Len(sent') = L + 1 /\ Last(sent') = f
      /\ \A i \in 1 .. L : sent'[i] = sent[i]
  BY <1>3, <1>5, <1>6, OwedForSent
<1>8. Matched(m, Len(sent) - 1)'
  <2>1. L \in Int /\ L <= L
    BY <1>3
  <2>2. Matched(m, L)'
    BY <1>1, <1>4, <1>7, <2>1, MatchedKeeps
  <2>3. L = Len(sent') - 1
    BY <1>3, <1>7
  <2>4. QED
    BY <2>2, <2>3 DEF Matched
<1>9. Tidy(out') /\ Head(out') # NL /\ out' # <<>>
  BY <1>1, Starts, EmptyIsNotTidy
<1>10. EndsWell(out', esc', skip')
  BY <1>9 DEF EndsWell
<1>11. ASSUME Clean PROVE InStep' /\ Sound'
  <2>1. buff' = <<>> /\ ~esc' /\ ~skip'
    BY <1>1, <1>11 DEF Clean
  <2>2. Synced(f, out', buff', esc')
    BY <1>1, <2>1, Starts
  <2>3. InStep'
    BY <1>7, <2>1, <2>2 DEF InStep
  <2>4. QED
    BY <1>9, <2>3 DEF Sound
<1>12. Spare(m)'
  <2>1. Sound => Sound'
    BY <1>1, <1>11 DEF Sound
  <2>2. QED
    BY <1>4, <1>7, <2>1 DEF Spare
<1>13. Owed(m) \in Int
  BY <1>5, TooLongType
<1>14. CASE ~Fits(f) \/ Owed(m) <= -1
  <2>1. Owed(m) <= -1 \/ Owed(m) <= 0
    BY <1>2 DEF Quiet
  <2>2. Owed(m)' <= 0
    BY <1>7, <1>13, <1>14, <2>1
  <2>3. Sending(m)'
    BY <1>8, <1>9, <1>10, <1>12, <2>2 DEF Sending
  <2>4. QED
    BY <2>3
<1>15. CASE Fits(f) /\ Clean /\ Owed(m) <= 0
  <2>1. Owed(m)' <= 1
    BY <1>7, <1>13, <1>15
  <2>2. (Fits(Last(sent)))'
    BY <1>1, <1>7, <1>15 DEF Fits
  <2>3. InStep'
    BY <1>11, <1>15
  <2>4. Sending(m)'
    BY <1>8, <1>9, <1>12, <2>1, <2>2, <2>3 DEF Sending
  <2>5. QED
    BY <2>4
<1>16. QED
  BY <1>2, <1>14, <1>15 DEF Quiet

\* The debug message cuts in.
LEMMA DebugKeeps ==
    ASSUME TypeInv, LossInv, debug_out
    PROVE  \E m : Debugging(m)'
<1>1. /\ dir = "up" /\ dir' = dir /\ ~debugged /\ debugged' = TRUE /\ drops = 0
      /\ out' = <<NL>> \o Encoded(DebugMessage) \o out
      /\ UNCHANGED <<buff, crc, esc, skip, accepted, drops>>
  BY DEF debug_out
<1>2. /\ ~skip /\ esc' = esc /\ out \in Seq(Byte) /\ Len(out) \in Nat
  BY <1>1, LenProperties DEF TypeInv
<1>3. out' = <<NL>> \o (Encoded(DebugMessage) \o out)
  <2>1. <<NL>> \in Seq(Byte)
    BY DEF NL, Byte
  <2>2. Encoded(DebugMessage) \in Seq(Byte)
    BY DebugIsGood, EncodedType DEF GoodFrame
  <2>3. QED
    BY <1>1, <1>2, <2>1, <2>2, ConcatAssociative
<1>4. PICK m : Quiet(m) \/ Sending(m)
  BY <1>1 DEF LossInv, Debugging
<1>5. PICK w : Matched(m, w) /\ Spare(m)
  BY <1>4 DEF Quiet, Sending
<1>6. m \in Nat /\ Sound /\ Wrong(m) = 0
  BY <1>1, <1>5, MatchedType, NothingWrong
<1>7. /\ Owed(m)' = Owed(m) + 1 - (IF Cut THEN 1 ELSE 0) - (IF esc THEN 1 ELSE 0)
      /\ Wrong(m)' = 0 /\ Owed(m) \in Int
  BY <1>6, OwedForDebug, TooLongType
<1>8. PICK C, a : C = out /\ a = At(C)
  OBVIOUS
<1>9. /\ Len(sent') = Len(sent) + 1 /\ Len(sent) \in Nat
      /\ a \in Int /\ a >= 0 /\ At(C)' = a + 1
      /\ sent'[a + 1] = DebugMessage
      /\ \A i \in 1 .. a : sent'[i] = sent[i]
      /\ Len(C) <= 1 => a = Len(sent)
      /\ Len(C) > 1 => a = Len(sent) - 1 /\ Last(sent') = Last(sent)
  BY <1>8, DebugSent
<1>10. ASSUME NEW u \in Int, u <= a, Matched(m, u) PROVE Matched(m, u)'
  <2>1. \A i \in 1 .. u : sent'[i] = sent[i]
    <3>1. \A i \in 1 .. u : i \in 1 .. a
      BY <1>9, <1>10
    <3>2. QED
      BY <1>9, <3>1
  <2>2. u <= u
    BY <1>10
  <2>3. QED
    BY <1>1, <1>10, <2>1, <2>2, MatchedKeeps
<1>11. ASSUME NEW v \in {0, 1}, C = <<>> \/ Tidy(C),
              v = 1 => C = Encoded(Last(sent')) /\ Len(C) > 1,
              \/ esc /\ Owed(m)' <= 0 /\ Matched(m, a)'
              \/ ~esc /\ Owed(m)' <= 1 + v /\ Matched(m, a)'
              \/ /\ ~esc /\ Owed(m)' <= 2 /\ C = <<NL>>
                 /\ Matched(m, a - 1)' /\ a > 0
                 /\ buff = sent'[a] /\ GoodFrame(buff)
       PROVE  \E k : Debugging(k)'
  <2>1. Rest(C, v)'
    BY <1>9, <1>11 DEF Rest
  <2>2. At(C)' - 1 = a /\ At(C)' - 2 = a - 1
    BY <1>9
  <2>3. \/ esc' /\ Owed(m)' <= 0 /\ Matched(m, At(C) - 1)'
        \/ ~esc' /\ Owed(m)' <= 1 + v /\ Matched(m, At(C) - 1)'
        \/ /\ ~esc' /\ Owed(m)' <= 2 /\ C = <<NL>>
           /\ Matched(m, At(C) - 2)' /\ At(C)' > 1
           /\ buff' = sent'[At(C)' - 1] /\ GoodFrame(buff)'
    <3>1. Matched(m, a)' => Matched(m, At(C) - 1)'
      BY <2>2 DEF Matched
    <3>2. Matched(m, a - 1)' => Matched(m, At(C) - 2)'
      BY <2>2 DEF Matched
    <3>3. GoodFrame(buff) => GoodFrame(buff)'
      BY <1>1
    <3>4. a > 0 => At(C)' > 1
      BY <1>9
    <3>5. buff = sent'[a] => buff' = sent'[At(C)' - 1]
      BY <1>1, <2>2
    <3>6. QED
      BY <1>2, <1>11, <3>1, <3>2, <3>3, <3>4, <3>5
  <2>4. Cutting(C, v, m)'
    BY <1>3, <1>7, <1>8, <2>3 DEF Cutting
  <2>5. Debugging(m)'
    BY <1>1, <2>1, <2>4 DEF Debugging
  <2>6. QED
    BY <2>5
<1>12. CASE out = <<>>
  <2>1. Clean
    BY <1>6, <1>12 DEF Sound
  <2>2. Owed(m) <= 0 /\ Matched(m, Len(sent))
    <3>1. Quiet(m)
      BY <1>4, <1>12, EmptyIsNotTidy DEF Sending
    <3>2. Owed(m) <= -1 \/ Owed(m) <= 0
      BY <3>1 DEF Quiet
    <3>3. QED
      BY <1>7, <3>1, <3>2 DEF Quiet
  <2>3. ~Cut /\ Len(C) = 0
    <3>1. Len(<<>>) = 0
      OBVIOUS
    <3>2. QED
      BY <1>8, <1>12, <3>1 DEF Cut
  <2>4. Owed(m)' <= 1 + 0 /\ ~esc
    BY <1>7, <2>1, <2>2, <2>3 DEF Clean
  <2>5. a = Len(sent) /\ a <= a
    BY <1>9, <2>3
  <2>6. Matched(m, a)'
    BY <1>9, <1>10, <2>2, <2>5
  <2>7. C = <<>>
    BY <1>8, <1>12
  <2>8. QED
    BY <1>11, <2>4, <2>6, <2>7
<1>13. CASE out # <<>>
  <2>1. PICK f : f = Last(sent)
    OBVIOUS
  <2>2. GoodFrame(f) /\ sent # <<>>
    BY <1>13, <2>1, LastIsGood DEF TypeInv
  <2>3. InStep
    BY <1>2, <1>6, <1>13 DEF Sound
  <2>4. Synced(f, C, buff, esc)
    BY <1>8, <2>1, <2>3 DEF InStep
  <2>5. /\ Tidy(C)
        /\ Len(C) >= Len(Encoded(f)) => C = Encoded(f) /\ ~esc
        /\ Len(C) = 1 => C = <<NL>> /\ buff = f /\ ~esc
    BY <2>2, <2>4, WholeToCome
  <2>6. Owed(m) <= 1 /\ Matched(m, Len(sent) - 1)
    <3>1. Sending(m)
      BY <1>4, <1>13 DEF Quiet
    <3>2. Owed(m) <= -1 \/ Owed(m) <= 0 \/ Owed(m) <= 1
      BY <3>1 DEF Sending
    <3>3. QED
      BY <1>7, <3>1, <3>2 DEF Sending
  <2>7. Len(sent) >= 1
    BY <1>9, <2>2, EmptySeq DEF TypeInv
  <2>8. Len(C) \in Nat /\ (Len(C) = 1 \/ Len(C) > 1)
    BY <2>5, TailTidy
  <2>9. Len(Encoded(f)) \in Nat
    BY <2>2, EncodedType, LenProperties DEF GoodFrame
  <2>10. CASE Len(C) = 1
    <3>1. ~Cut
      BY <1>8, <2>10 DEF Cut
    <3>2. Owed(m)' <= 2 /\ ~esc /\ C = <<NL>> /\ GoodFrame(buff)
      BY <1>7, <2>2, <2>5, <2>6, <2>10, <3>1
    <3>3. a = Len(sent) /\ a > 0 /\ a - 1 \in Int /\ a - 1 <= a
      BY <1>9, <2>7, <2>10
    <3>4. Matched(m, a - 1)'
      BY <1>10, <2>6, <3>3
    <3>5. buff = sent'[a]
      <4>1. a \in 1 .. a
        BY <1>9, <3>3
      <4>2. QED
        BY <1>9, <2>1, <2>5, <2>10, <3>3, <4>1 DEF Last
    <3>6. QED
      BY <1>11, <2>5, <3>2, <3>3, <3>4, <3>5
  <2>11. Len(C) > 1 => Matched(m, a)'
    <3>1. ASSUME Len(C) > 1 PROVE a = Len(sent) - 1 /\ a <= a
      BY <1>9, <3>1
    <3>2. QED
      BY <1>9, <1>10, <2>6, <3>1
  <2>12. CASE Len(C) > 1 /\ Cut
    <3>1. IF esc THEN Owed(m)' <= 0 ELSE Owed(m)' <= 1 + 0
      BY <1>7, <2>6, <2>12
    <3>2. QED
      BY <1>11, <2>5, <2>11, <2>12, <3>1
  <2>13. CASE Len(C) > 1 /\ ~Cut
    <3>1. Len(C) >= Len(Encoded(f))
      BY <1>8, <2>1, <2>2, <2>8, <2>9, <2>13 DEF Cut
    <3>2. C = Encoded(f) /\ ~esc
      BY <2>5, <3>1
    <3>3. Owed(m)' <= 1 + 1
      BY <1>7, <2>6, <2>13, <3>2
    <3>4. C = Encoded(Last(sent'))
      BY <1>9, <2>1, <2>13, <3>2
    <3>5. QED
      BY <1>11, <2>5, <2>11, <2>13, <3>2, <3>3, <3>4
  <2>14. QED
    BY <2>8, <2>10, <2>12, <2>13
<1>14. QED
  BY <1>12, <1>13

\* A byte is lost.
LEMMA LoseKeeps ==
    ASSUME TypeInv, LossInv, lose
    PROVE  \E m : Quiet(m)' \/ Sending(m)'
<1>1. /\ out # <<>> /\ out' = Tail(out) /\ ~debugged
      /\ UNCHANGED <<dir, sent, buff, crc, esc, skip, accepted, debugged>>
  BY DEF lose
<1>2. PICK m : Sending(m)
  BY <1>1 DEF LossInv, Quiet, Debugging
<1>3. PICK L \in Nat : L = Len(sent)
  BY LenProperties DEF TypeInv
<1>4. Tidy(out) /\ Matched(m, L - 1) /\ Spare(m)
  BY <1>2, <1>3 DEF Sending
<1>5. m \in Nat
  BY <1>3, <1>4, MatchedType
<1>6. out' = <<>> \/ Tidy(out')
  BY <1>1, <1>4, TailTidy
<1>7. Owed(m) \in Int /\ Wrong(m) \in Int /\ Misread \in Nat
  BY <1>5, TooLongType
<1>8. Owed(m) <= 1
  <2>1. Owed(m) <= -1 \/ Owed(m) <= 0 \/ Owed(m) <= 1
    BY <1>2 DEF Sending
  <2>2. QED
    BY <1>7, <2>1
<1>9. Owed(m)' = Owed(m) - 2 /\ Wrong(m)' = Wrong(m) /\ Misread' = Misread + 1
  BY <1>5, OwedForLost
<1>10. Owed(m)' <= -1
  BY <1>7, <1>8, <1>9
<1>11. Wrong(m)' <= Misread' /\ Wrong(m)' <= Misread' - 1
  <2>1. Wrong(m) <= Misread
    BY <1>4 DEF Spare
  <2>2. QED
    BY <1>7, <1>9, <2>1
<1>12. Spare(m)'
  BY <1>11 DEF Spare
<1>13. Matched(m, Len(sent) - 1)' /\ Matched(m, Len(sent))'
  <2>1. L - 1 \in Int /\ L \in Int /\ L - 1 <= L - 1 /\ L - 1 <= L
    BY <1>3
  <2>2. Matched(m, L - 1)' /\ Matched(m, L)'
    BY <1>1, <1>4, <2>1, MatchedKeeps
  <2>3. L = Len(sent')
    BY <1>1, <1>3
  <2>4. QED
    BY <2>2, <2>3 DEF Matched
<1>14. Quiet(m)' \/ Sending(m)'
  BY <1>6, <1>10, <1>12, <1>13 DEF Quiet, Sending
<1>15. QED
  BY <1>14

\* Every step accounts for what it costs.
LEMMA LossStep ==
    ASSUME TypeInv, CrcInv, LossInv, [Next]_vars
    PROVE  LossInv'
<1>1. CASE msgout \/ dbgout
  <2>1. PICK f : GoodFrame(f) /\ send(f)
    BY <1>1, SentAreGood
  <2>2. QED
    BY <2>1, SendKeeps DEF LossInv
<1>2. CASE debug_out
  BY <1>2, DebugKeeps DEF LossInv
<1>3. CASE putch
  <2>1. PICK m : Quiet(m) \/ Sending(m) \/ (debugged /\ Ending(m)) \/ Debugging(m)
    BY DEF LossInv
  <2>2. CASE Quiet(m)
    BY <1>3, <2>2 DEF putch, Quiet
  <2>3. CASE Sending(m)
    BY <1>3, <2>3, SendingReads DEF LossInv
  <2>4. CASE debugged /\ Ending(m)
    BY <1>3, <2>4, EndingReads DEF LossInv
  <2>5. CASE Debugging(m)
    <3>1. /\ debugged /\ dir = "up"
          /\ \E C, v : Rest(C, v) /\ (Cutting(C, v, m) \/ \E o : Reporting(C, v, m, o))
      BY <2>5 DEF Debugging
    <3>2. PICK C, v : Rest(C, v) /\ (Cutting(C, v, m) \/ \E o : Reporting(C, v, m, o))
      BY <3>1
    <3>3. CASE Cutting(C, v, m)
      BY <1>3, <3>1, <3>2, <3>3, CuttingReads DEF LossInv
    <3>4. CASE \E o : Reporting(C, v, m, o)
      <4>1. PICK o : Reporting(C, v, m, o)
        BY <3>4
      <4>2. \E k : (Quiet(k) \/ Sending(k) \/ Ending(k) \/ Debugging(k))'
        BY <1>3, <3>1, <3>2, <4>1, ReportingReads
      <4>3. debugged'
        BY <1>3, <3>1, PutsNext
      <4>4. QED
        BY <4>2, <4>3 DEF LossInv
    <3>5. QED
      BY <3>2, <3>3, <3>4
  <2>6. QED
    BY <2>1, <2>2, <2>3, <2>4, <2>5
<1>4. CASE lose
  BY <1>4, LoseKeeps DEF LossInv
<1>5. CASE UNCHANGED vars
  <2>1. /\ out' = out /\ buff' = buff /\ esc' = esc /\ skip' = skip /\ sent' = sent
        /\ dir' = dir /\ accepted' = accepted /\ cost' = cost /\ debugged' = debugged
        /\ drops' = drops
    BY <1>5 DEF vars
  <2>2. PICK m : Quiet(m) \/ Sending(m) \/ (debugged /\ Ending(m)) \/ Debugging(m)
    BY DEF LossInv
  <2>3. TooLong' = TooLong
    BY <2>1 DEF TooLong
  <2>4. Owed(m)' = Owed(m) /\ Wrong(m)' = Wrong(m) /\ Misread' = Misread
    BY <2>1, <2>3 DEF Owed, Wrong, Misread
  <2>5. \A w : Matched(m, w)' = Matched(m, w)
    BY <2>1 DEF Matched
  <2>6. Spare(m)' = Spare(m) /\ InStep' = InStep /\ Clean' = Clean
    BY <2>1, <2>4 DEF Spare, Sound, InStep, Clean, Fits
  <2>7. (Quiet(m) => Quiet(m)') /\ (Ending(m) => Ending(m)')
    BY <2>1, <2>4, <2>5, <2>6 DEF Quiet, Ending, Matched
  <2>8. Sending(m) => Sending(m)'
    BY <2>1, <2>4, <2>6 DEF Sending, Fits, Matched
  <2>9. Debugging(m) => Debugging(m)'
    <3> SUFFICES ASSUME Debugging(m) PROVE Debugging(m)'
      OBVIOUS
    <3>1. PICK C, v : Rest(C, v) /\ (Cutting(C, v, m) \/ \E o : Reporting(C, v, m, o))
      BY DEF Debugging
    <3>2. Rest(C, v)' /\ At(C)' = At(C)
      BY <2>1, <3>1 DEF Rest, At
    <3>3. /\ Matched(m, At(C) - 1)' = Matched(m, At(C) - 1)
          /\ Matched(m, At(C) - 2)' = Matched(m, At(C) - 2)
      BY <2>1, <3>2 DEF Matched
    <3>4. CASE Cutting(C, v, m)
      <4>1. Cutting(C, v, m)'
        BY <2>1, <2>4, <3>2, <3>3, <3>4 DEF Cutting
      <4>2. QED
        BY <2>1, <3>1, <3>2, <4>1 DEF Debugging
    <3>5. ASSUME NEW o, Reporting(C, v, m, o) PROVE Debugging(m)'
      <4>1. Reporting(C, v, m, o)'
        BY <2>1, <2>4, <3>3, <3>5 DEF Reporting
      <4>2. QED
        BY <2>1, <3>1, <3>2, <4>1 DEF Debugging
    <3>6. QED
      BY <3>1, <3>4, <3>5
  <2>10. QED
    BY <2>1, <2>2, <2>7, <2>8, <2>9 DEF LossInv
<1>6. QED
  BY <1>1, <1>2, <1>3, <1>4, <1>5 DEF Next

\* Nothing is missing at first.
LEMMA LossInit == Init => LossInv
<1> SUFFICES ASSUME Init PROVE Quiet(0)
  BY DEF LossInv
<1>1. TypeInv
  BY InitTypes
<1>2. /\ out = <<>> /\ buff = <<>> /\ ~esc /\ ~skip
      /\ sent = <<>> /\ accepted = <<>> /\ cost = 0
      /\ Len(sent) = 0 /\ Len(accepted) = 0
  BY DEF Init
<1>3. Clean
  BY <1>2 DEF Clean
<1>4. Owed(0) <= 0 /\ Wrong(0) = 0 /\ Misread \in Nat
  BY <1>1, <1>2, TooLongType DEF Owed, Wrong
<1>5. Matched(0, Len(sent))
  <2>1. Cardinality({}) = 0
    BY FS_EmptySet
  <2>2. [i \in {} |-> 0] \in [{} -> 1 .. Len(sent)]
    OBVIOUS
  <2>3. QED
    BY <2>1, <2>2 DEF Matched
<1>6. Spare(0)
  BY <1>2, <1>3, <1>4 DEF Spare, Sound
<1>7. QED
  BY <1>2, <1>3, <1>4, <1>5, <1>6 DEF Quiet

\* What is matched is in order.
LEMMA MatchedInOrder ==
    ASSUME TypeInv, NEW m, NEW w \in Int, w <= Len(sent), Matched(m, w)
    PROVE  \E S \in SUBSET DOMAIN accepted : Cardinality(S) = m /\ InOrder(S)
<1>1. PICK S \in SUBSET (1 .. Len(accepted)) :
          /\ Cardinality(S) = m
          /\ \E g \in [S -> 1 .. w] :
                /\ \A i \in S : accepted[i] = sent[g[i]]
                /\ \A i, j \in S : i < j => g[i] < g[j]
  BY DEF Matched
<1>2. /\ DOMAIN accepted = 1 .. Len(accepted) /\ DOMAIN sent = 1 .. Len(sent)
      /\ Len(sent) \in Nat
  BY LenProperties DEF TypeInv
<1>3. \A i \in 1 .. w : i \in DOMAIN sent
  BY <1>2
<1>4. InOrder(S)
  BY <1>1, <1>3 DEF InOrder
<1>5. QED
  BY <1>1, <1>2, <1>4

\* What is matched, and how much is wrong.
LEMMA LossSays ==
    ASSUME TypeInv, LossInv
    PROVE  \E m \in Nat, w \in Int :
              /\ Matched(m, w) /\ w <= Len(sent) /\ Wrong(m) <= Misread
              /\ out = <<>> => Owed(m) <= 0
<1>1. Len(sent) \in Nat
  BY LenProperties DEF TypeInv
<1>2. CASE out = <<>>
  <2>1. PICK m : Quiet(m)
    BY <1>2, NothingToCome
  <2>2. Matched(m, Len(sent)) /\ Wrong(m) <= Misread
    BY <2>1 DEF Quiet, Spare
  <2>3. m \in Nat
    BY <2>2, MatchedType
  <2>4. Owed(m) <= -1 \/ Owed(m) <= 0
    BY <2>1 DEF Quiet
  <2>5. Owed(m) <= 0
    BY <2>3, <2>4, TooLongType
  <2>6. Len(sent) \in Int /\ Len(sent) <= Len(sent)
    BY <1>1
  <2>7. QED
    BY <2>2, <2>3, <2>5, <2>6
<1>3. CASE out # <<>>
  <2>1. PICK m : Sending(m) \/ (debugged /\ Ending(m)) \/ Debugging(m)
    BY <1>3 DEF LossInv, Quiet
  <2>2. ASSUME NEW w \in Int, w <= Len(sent), Matched(m, w), Wrong(m) <= Misread
        PROVE  \E k \in Nat, u \in Int :
                  Matched(k, u) /\ u <= Len(sent) /\ Wrong(k) <= Misread
    BY <2>2, MatchedType
  <2>3. CASE Sending(m) \/ Ending(m)
    <3>1. /\ Wrong(m) <= Misread
          /\ Matched(m, Len(sent)) \/ Matched(m, Len(sent) - 1)
      BY <2>3 DEF Sending, Ending, Spare
    <3>2. /\ Len(sent) \in Int /\ Len(sent) - 1 \in Int
          /\ Len(sent) <= Len(sent) /\ Len(sent) - 1 <= Len(sent)
      BY <1>1
    <3>3. QED
      BY <1>3, <2>2, <3>1, <3>2
  <2>4. CASE Debugging(m)
    <3>1. PICK C, v : Rest(C, v) /\ (Cutting(C, v, m) \/ \E o : Reporting(C, v, m, o))
      BY <2>4 DEF Debugging
    <3>2. /\ Wrong(m) <= 0 \/ Wrong(m) <= 1
          /\ Matched(m, At(C) - 1) \/ Matched(m, At(C) - 2)
      BY <3>1 DEF Cutting, Reporting
    <3>3. PICK a \in Nat : a = At(C) /\ a > 0
      BY <3>1, RestIs
    <3>4. a <= Len(sent)
      BY <1>1, <3>3 DEF At
    <3>5. /\ a - 1 \in Int /\ a - 2 \in Int /\ a - 1 <= Len(sent) /\ a - 2 <= Len(sent)
      BY <1>1, <3>3, <3>4
    <3>6. m \in Nat
      BY <3>2, <3>3, MatchedType
    <3>7. Wrong(m) <= Misread
      <4>1. debugged
        BY <2>4 DEF Debugging
      <4>2. Wrong(m) \in Int /\ Misread \in Nat /\ Misread >= 2
        BY <3>6, <4>1, TooLongType
      <4>3. QED
        BY <3>2, <4>2
    <3>8. QED
      BY <1>3, <2>2, <3>2, <3>3, <3>5, <3>7
  <2>5. QED
    BY <2>1, <2>3, <2>4
<1>4. QED
  BY <1>2, <1>3

\* tlay2.cpp:29-62, tlay2_server.py:56-75: after a fault the readers find the
\* frames again.  For any frames, a buffer of any size and any number of bytes
\* lost, all but Misread of the frames accepted are frames that were sent, in
\* that order, and no more of those are missing than the faults account for.
THEOREM AccountedAlways == Spec => []Accounted
<1>1. Init => LossInv
  BY LossInit
<1>2. TypeInv /\ CrcInv /\ LossInv /\ [Next]_vars => LossInv'
  BY LossStep
<1>3. TypeInv /\ LossInv => Accounted
  <2> SUFFICES ASSUME TypeInv, LossInv PROVE Accounted
    OBVIOUS
  <2>1. PICK m \in Nat, w \in Int :
            /\ Matched(m, w) /\ w <= Len(sent) /\ Wrong(m) <= Misread
            /\ out = <<>> => Owed(m) <= 0
    BY LossSays
  <2>2. PICK S \in SUBSET DOMAIN accepted : Cardinality(S) = m /\ InOrder(S)
    BY <2>1, MatchedInOrder
  <2>3. Len(accepted) - Cardinality(S) <= Misread
    BY <2>1, <2>2 DEF Wrong
  <2>4. ASSUME out = <<>>
        PROVE  Len(sent) - Cardinality(S) <= cost + Cardinality(TooLong)
    <3>1. Len(sent) - m - cost - Cardinality(TooLong) <= 0
      BY <2>1, <2>4 DEF Owed
    <3>2. Len(sent) \in Nat /\ cost \in Nat /\ Cardinality(TooLong) \in Nat /\ m \in Nat
      BY <2>1, TooLongType
    <3>3. QED
      BY <2>2, <3>1, <3>2
  <2>5. QED
    BY <2>2, <2>3, <2>4 DEF Accounted
<1>4. QED
  BY <1>1, <1>2, <1>3, LineTypes, PTL DEF Spec

-----------------------------------------------------------------------------
(* Without faults: what is accepted was sent. *)

\* The least of some numbers.
LEMMA MinIs ==
    ASSUME NEW S, S \subseteq Nat, NEW m \in S
    PROVE  Min(S) \in S /\ Min(S) <= m
<1>1. IsWellFoundedOn(OpToRel(<, Nat), Nat)
  BY NatLessThanWellFounded
<1>2. PICK k \in S : \A n \in S : <<n, k>> \notin OpToRel(<, Nat)
  BY <1>1, WFMin
<1>3. \A n \in S : k <= n
  <2>1. \A n \in S : ~(n < k)
    BY <1>2 DEF OpToRel
  <2>2. QED
    BY <2>1
<1>4. Min(S) \in S /\ \A n \in S : Min(S) <= n
  BY <1>3, Zenon DEF Min
<1>5. QED
  BY <1>4

\* One frame alone.
LEMMA FlattenOne ==
    ASSUME NEW s, Len(s) = 1
    PROVE  FlattenSeq(s) = s[1]
<1> DEFINE Is(g) == g = [i \in 1 .. Len(s) |-> IF i = 1 THEN s[i] ELSE g[i - 1] \o s[i]]
<1>1. FlattenSeq(s) = (CHOOSE g : Is(g))[Len(s)]
  <2>1. ~(Len(s) = 0)
    OBVIOUS
  <2>2. QED
    BY <2>1, Zenon DEF FlattenSeq
<1>2. Is([i \in 1 .. 1 |-> s[1]])
  OBVIOUS
<1>3. \A g : Is(g) => g[1] = s[1]
  OBVIOUS
<1> HIDE DEF Is
<1>4. Is(CHOOSE g : Is(g))
  BY <1>2, Zenon
<1>5. QED
  BY <1>1, <1>3, <1>4

\* As long as the line has done nothing wrong, a frame is read as it was sent.
LEMMA ReadAsSent ==
    ASSUME TypeInv, drops = 0, ~debugged, NEW b \in 1 .. Len(sent)
    PROVE  sent[b] \in Readings(b, b)
<1> DEFINE s == SubSeq(sent, b, b)  joined == FlattenSeq(s)
<1>1. /\ sent \in Seq(Seq(Byte)) /\ Len(sent) \in Nat /\ sent[b] \in Seq(Byte)
      /\ b \in Int
  BY LenProperties, ElementOfSeq DEF TypeInv
<1>2. Len(s) = 1 /\ s[1] = sent[b]
  OBVIOUS
<1>3. joined = sent[b]
  BY <1>2, FlattenOne
<1>4. Readings(b, b) = {SubSeq(joined, k + 1, Len(joined)) : k \in {0} \cup {}}
  BY DEF Readings
<1>5. SubSeq(joined, 0 + 1, Len(joined)) = joined
  BY <1>1, <1>3, SubSeqFull
<1>6. QED
  BY <1>3, <1>4, <1>5

\* A frame that is read as it was sent is found there or earlier.
LEMMA EarliestIs ==
    ASSUME TypeInv, NEW from \in Nat, NEW frame
    PROVE  /\ Earliest(from, frame) \in Nat
           /\ \A b \in from + 1 .. Len(sent) :
                 frame \in Readings(b, b) => Earliest(from, frame) <= b
<1> DEFINE ends == {b \in from + 1 .. Len(sent) :
                        \E a \in from + 1 .. b : frame \in Readings(a, b)}
<1>1. Len(sent) \in Nat /\ ends \subseteq Nat
  BY LenProperties DEF TypeInv
<1>2. Earliest(from, frame) = IF ends = {} THEN Len(sent) + 1 ELSE Min(ends)
  BY DEF Earliest
<1>3. ASSUME NEW b \in from + 1 .. Len(sent), frame \in Readings(b, b) PROVE b \in ends
  <2>1. b \in from + 1 .. b
    BY <1>1
  <2>2. QED
    BY <1>3, <2>1
<1> HIDE DEF ends
<1>4. Earliest(from, frame) \in Nat
  <2>1. CASE ends = {}
    BY <1>1, <1>2, <2>1
  <2>2. CASE ends # {}
    <3>1. PICK m : m \in ends
      BY <2>2
    <3>2. Min(ends) \in Nat
      BY <1>1, <3>1, MinIs
    <3>3. QED
      BY <1>2, <2>2, <3>2
  <2>3. QED
    BY <2>1, <2>2
<1>5. ASSUME NEW b \in from + 1 .. Len(sent), frame \in Readings(b, b)
      PROVE  Earliest(from, frame) <= b
  <2>1. b \in ends
    BY <1>3, <1>5
  <2>2. QED
    BY <1>1, <1>2, <2>1, MinIs
<1>6. QED
  BY <1>4, <1>5

\* The recursion of Reached.
LEMMA ReachedIs ==
    ASSUME TypeInv
    PROVE  /\ Reached[0] = 0
           /\ \A i \in 1 .. Len(accepted) :
                 Reached[i] = Earliest(Reached[i - 1], accepted[i])
<1> DEFINE N == Len(accepted)
           Is(r) == r = [i \in 0 .. N |->
                            IF i = 0 THEN 0 ELSE Earliest(r[i - 1], accepted[i])]
<1>1. Reached = CHOOSE r : Is(r)
  BY Zenon DEF Reached
<1>2. N \in Nat
  BY LenProperties DEF TypeInv
<1>3. PICK r \in [0 .. N -> Nat] :
         r[0] = 0 /\ \A i \in 1 .. N : r[i] = Earliest(r[i - 1], accepted[i])
  <2> DEFINE f == [i \in 1 .. N |-> [q \in Nat |-> Earliest(q, accepted[i])]]
             z == 0
  <2>1. f \in [1 .. N -> [Nat -> Nat]] /\ z \in Nat
    BY EarliestIs
  <2>2. \E g : IsFold(g, N, Nat, z, f)
    <3> HIDE DEF f, N, z
    <3>1. QED
      BY <1>2, <2>1, FoldExists
  <2>3. PICK g : IsFold(g, N, Nat, z, f)
    BY <2>2
  <2>4. \A i \in 1 .. N : g[i - 1] \in Nat
    BY <1>2, <2>3 DEF IsFold
  <2>5. \A i \in 1 .. N : f[i][g[i - 1]] = Earliest(g[i - 1], accepted[i])
    BY <2>4
  <2> HIDE DEF f
  <2>6. QED
    BY <2>3, <2>5 DEF IsFold
<1>4. Is(r)
  <2> DEFINE h == [i \in 0 .. N |-> IF i = 0 THEN 0 ELSE Earliest(r[i - 1], accepted[i])]
  <2>1. \A i \in 0 .. N : r[i] = h[i]
    <3>1. \A i \in 0 .. N : i # 0 => i \in 1 .. N
      BY <1>2
    <3>2. QED
      BY <1>3, <3>1
  <2>2. r = h
    BY <2>1
  <2>3. QED
    BY <2>2
<1> HIDE DEF Is
<1>5. Is(Reached)
  BY <1>1, <1>4, Zenon
<1> DEFINE c == Reached
<1>6. c = [i \in 0 .. N |-> IF i = 0 THEN 0 ELSE Earliest(c[i - 1], accepted[i])]
  BY <1>5 DEF Is
<1>7. /\ 0 \in 0 .. N /\ \A i \in 1 .. N : i \in 0 .. N /\ i # 0
  BY <1>2
<1> HIDE DEF c
<1>8. /\ c[0] = 0
      /\ \A i \in 1 .. N : c[i] = Earliest(c[i - 1], accepted[i])
  BY <1>6, <1>7
<1>9. QED
  BY <1>8 DEF c

\* The i-th frame accepted is the g[i]-th sent.
Orders(g) ==
    /\ g \in [1 .. Len(accepted) -> 1 .. Len(sent)]
    /\ \A i \in 1 .. Len(accepted) : accepted[i] = sent[g[i]]
    /\ \A i \in 2 .. Len(accepted) : g[i - 1] < g[i]

\* Frames accepted in the order in which they were sent are found in that order.
LEMMA OrderIsGenuine ==
    ASSUME TypeInv, drops = 0, ~debugged, NEW g, Orders(g)
    PROVE  Genuine
<1>1. Len(accepted) \in Nat /\ Len(sent) \in Nat
  BY LenProperties DEF TypeInv
<1> DEFINE T == {k \in Nat : k <= Len(accepted) =>
                     Reached[k] \in Nat /\ (k > 0 => Reached[k] <= g[k])}
<1>2. 0 \in T
  BY ReachedIs
<1>3. ASSUME NEW k \in Nat, k \in T PROVE k + 1 \in T
  <2> SUFFICES ASSUME k + 1 <= Len(accepted)
               PROVE  Reached[k + 1] \in Nat /\ Reached[k + 1] <= g[k + 1]
    OBVIOUS
  <2>1. PICK i \in 1 .. Len(accepted) : i = k + 1 /\ i - 1 = k
    BY <1>1
  <2>2. Reached[i - 1] \in Nat /\ (k > 0 => Reached[i - 1] <= g[i - 1])
    BY <1>1, <1>3, <2>1
  <2>3. g[i] \in 1 .. Len(sent) /\ accepted[i] = sent[g[i]]
    BY DEF Orders
  <2>4. g[i] \in Reached[i - 1] + 1 .. Len(sent)
    <3>1. CASE k = 0
      <4>1. Reached[i - 1] = 0
        BY <2>1, <3>1, ReachedIs
      <4>2. QED
        BY <1>1, <2>3, <4>1
    <3>2. CASE k > 0
      <4>1. i \in 2 .. Len(accepted) /\ i - 1 \in 1 .. Len(accepted)
        BY <1>1, <2>1, <3>2
      <4>2. g[i - 1] < g[i] /\ g[i - 1] \in 1 .. Len(sent)
        BY <4>1 DEF Orders
      <4>3. QED
        BY <1>1, <2>2, <2>3, <3>2, <4>2
    <3>3. QED
      BY <3>1, <3>2
  <2>5. accepted[i] \in Readings(g[i], g[i])
    <3>1. PICK b \in 1 .. Len(sent) : b = g[i]
      BY <1>1, <2>3
    <3>2. QED
      BY <2>3, <3>1, ReadAsSent
  <2>6. Reached[i] = Earliest(Reached[i - 1], accepted[i])
    BY ReachedIs
  <2>7. PICK r \in Nat : r = Reached[i - 1]
    BY <2>2
  <2>8. Earliest(r, accepted[i]) \in Nat /\ Earliest(r, accepted[i]) <= g[i]
    BY <2>4, <2>5, <2>7, EarliestIs
  <2>9. QED
    BY <2>1, <2>6, <2>7, <2>8
<1> HIDE DEF T
<1>4. Len(accepted) \in T
  BY <1>1, <1>2, <1>3, Induct
<1>5. Reached[Len(accepted)] \in Nat
      /\ (Len(accepted) > 0 => Reached[Len(accepted)] <= g[Len(accepted)])
  BY <1>1, <1>4 DEF T
<1>6. CASE Len(accepted) = 0
  BY <1>1, <1>6, ReachedIs DEF Genuine
<1>7. CASE Len(accepted) > 0
  <2>1. g[Len(accepted)] \in 1 .. Len(sent)
    BY <1>1, <1>7 DEF Orders
  <2>2. QED
    BY <1>1, <1>5, <1>7, <2>1 DEF Genuine
<1>8. QED
  BY <1>1, <1>6, <1>7
\* As long as nothing is wrong, all that is accepted is matched.
LEMMA AllMatched ==
    ASSUME TypeInv, LossInv, drops = 0, ~debugged
    PROVE  \E g : Orders(g)
<1>1. PICK m \in Nat, w \in Int : Matched(m, w) /\ w <= Len(sent) /\ Wrong(m) <= Misread
  BY LossSays
<1>2. PICK N \in Nat : N = Len(accepted)
  BY LenProperties DEF TypeInv
<1>3. m = N
  <2>1. m <= N /\ Misread = 0
    BY <1>1, <1>2, MatchedType, TooLongType
  <2>2. N - m <= 0
    BY <1>1, <1>2, <2>1 DEF Wrong
  <2>3. QED
    BY <2>1, <2>2
<1>4. PICK S \in SUBSET (1 .. N) :
          /\ Cardinality(S) = m
          /\ \E g \in [S -> 1 .. w] :
                /\ \A i \in S : accepted[i] = sent[g[i]]
                /\ \A i, j \in S : i < j => g[i] < g[j]
  BY <1>1, <1>2 DEF Matched
<1>5. S = 1 .. N
  <2>1. IsFiniteSet(1 .. N) /\ Cardinality(1 .. N) = N
    BY FS_Interval
  <2>2. QED
    BY <1>3, <1>4, <2>1, FS_Subset
<1>6. PICK g \in [1 .. N -> 1 .. w] :
          /\ \A i \in 1 .. N : accepted[i] = sent[g[i]]
          /\ \A i, j \in 1 .. N : i < j => g[i] < g[j]
  BY <1>4, <1>5
<1>7. g \in [1 .. N -> 1 .. Len(sent)]
  <2>1. \A k \in 1 .. w : k \in 1 .. Len(sent)
    BY <1>1, LenProperties DEF TypeInv
  <2>2. QED
    BY <2>1
<1>8. \A i \in 2 .. N : g[i - 1] < g[i]
  <2>1. \A i \in 2 .. N : i \in 1 .. N /\ i - 1 \in 1 .. N /\ i - 1 < i
    OBVIOUS
  <2>2. QED
    BY <1>6, <2>1
<1>9. QED
  BY <1>2, <1>6, <1>7, <1>8 DEF Orders

\* tlay2.cpp:52-71, tlay2_server.py:57-75: as long as the line has done nothing
\* wrong, what is accepted was sent, byte for byte, each frame at most once and
\* in that order, for any frames and a buffer of any size.
THEOREM GenuineWithoutFaults == Spec => [](drops = 0 /\ ~debugged => Genuine)
<1>1. Init => LossInv
  BY LossInit
<1>2. TypeInv /\ CrcInv /\ LossInv /\ [Next]_vars => LossInv'
  BY LossStep
<1>3. TypeInv /\ LossInv => (drops = 0 /\ ~debugged => Genuine)
  BY AllMatched, OrderIsGenuine
<1>4. QED
  BY <1>1, <1>2, <1>3, LineTypes, PTL DEF Spec
=============================================================================
