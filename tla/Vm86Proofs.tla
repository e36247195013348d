----------------------------- MODULE Vm86Proofs ------------------------------
(***************************************************************************)
(* Theorems about Vm86 for every paragraph size, every place of the two    *)
(* code fragments and of the stack, every interrupt table, every set of    *)
(* stacks of the BIOS and every depth.                                     *)
(***************************************************************************)
EXTENDS Vm86, TLAPS, SequenceTheorems

-----------------------------------------------------------------------------
(* The trap frame. *)

\* What the CPU and the stub push, read from the end, is VM86_stack.
LEMMA PushedIsRead ==
    ASSUME NEW i \in 1 .. 22
    PROVE  Reverse(CpuPushes \o StubPushes)[i] = Fields[i]
<1> DEFINE s == CpuPushes \o StubPushes
<1>1. Len(s) = 22
  BY DEF CpuPushes, StubPushes
<1>2. \A j \in 1 .. 22 : s[j] = IF j <= 10 THEN CpuPushes[j] ELSE StubPushes[j - 10]
  BY DEF CpuPushes, StubPushes
<1>3. Reverse(s)[i] = s[23 - i]
  <2> HIDE DEF s
  <2>1. Reverse(s) = [j \in 1 .. 22 |-> s[22 - j + 1]]
    BY <1>1 DEF Reverse
  <2>2. 22 - i + 1 = 23 - i
    OBVIOUS
  <2>3. QED
    BY <2>1, <2>2
<1>4. i \in {1, 2, 3, 4, 5, 6, 7, 8, 9, 10, 11} => Reverse(s)[i] = Fields[i]
  BY <1>2, <1>3 DEF CpuPushes, StubPushes, Fields
<1>5. i \in {12, 13, 14, 15, 16, 17, 18, 19, 20, 21, 22} => Reverse(s)[i] = Fields[i]
  BY <1>2, <1>3 DEF CpuPushes, StubPushes, Fields
<1>6. QED
  BY <1>4, <1>5

LEMMA FieldPlace ==
    ASSUME NEW f \in Registers
    PROVE  At(Fields, f) \in 1 .. 22 /\ Fields[At(Fields, f)] = f
<1>1. DOMAIN Fields = 1 .. 22
  BY DEF Fields
<1>2. \E i \in DOMAIN Fields : Fields[i] = f
  BY DEF Registers, ToSet
<1>3. QED
  BY <1>1, <1>2 DEF At

LEMMA RegisterNames == {"eip", "cs", "esp", "ss", "eflags", "eax"} \subseteq Registers
<1>1. /\ Fields[14] = "eip" /\ Fields[15] = "cs" /\ Fields[16] = "eflags"
      /\ Fields[17] = "esp" /\ Fields[18] = "ss" /\ Fields[11] = "eax"
      /\ DOMAIN Fields = 1 .. 22
  BY DEF Fields
<1>2. QED
  BY <1>1 DEF Registers, ToSet

\* The handler sees each register under its own name, and what it leaves there
\* is popped into that register.
LEMMA TrapIdentity ==
    ASSUME NEW g, g = [r \in Registers |-> g[r]]
    PROVE  Frame(g) = g /\ Restored(g) = g
<1>1. \A f \in Registers : Source[f] = f
  BY PushedIsRead, FieldPlace DEF Source
<1>2. \A r \in Registers : Target[r] = r
  BY FieldPlace DEF Target, StubPops, Fields
<1>3. QED
  BY <1>1, <1>2 DEF Frame, Restored

-----------------------------------------------------------------------------
(* Addresses. *)

\* Where no bit is set in both, or is a sum.
LEMMA OrIsSum ==
    ASSUME NEW c \in 0 .. 7, NEW o \in 0 .. 15
    PROVE  Or(c * 16, o) = c * 16 + o
<1> DEFINE bit(w) == IF ((c * 16) \div w) % 2 = 1 \/ (o \div w) % 2 = 1 THEN w ELSE 0
<1>1. bit(1) = o % 2
  BY SMTT(20)
<1>2. bit(2) = 2 * ((o \div 2) % 2)
  BY SMTT(20)
<1>3. bit(4) = 4 * ((o \div 4) % 2)
  BY SMTT(20)
<1>4. bit(8) = 8 * (o \div 8)
  BY SMTT(20)
<1>5. bit(16) = 16 * (c % 2)
  BY SMTT(20)
<1>6. bit(32) = 32 * ((c \div 2) % 2)
  BY SMTT(20)
<1>7. bit(64) = 64 * (c \div 4)
  BY SMTT(20)
<1>8. Or(c * 16, o) = bit(1) + bit(2) + bit(4) + bit(8) + bit(16) + bit(32) + bit(64)
  BY DEF Or
<1> HIDE DEF bit
<1>9. (o % 2) + 2 * ((o \div 2) % 2) + 4 * ((o \div 4) % 2) + 8 * (o \div 8) = o
  OBVIOUS
<1>10. 16 * (c % 2) + 32 * ((c \div 2) % 2) + 64 * (c \div 4) = c * 16
  OBVIOUS
<1>11. QED
  BY <1>1, <1>2, <1>3, <1>4, <1>5, <1>6, <1>7, <1>8, <1>9, <1>10

\* In a segment that begins at a multiple of 64K the emulator finds its way.
LEMMA AlignedIsExact ==
    ASSUME NEW seg \in Word, seg % (Limit \div Para) = 0, NEW off \in Word
    PROVE  Exact(seg, off)
<1>1. PICK c \in 0 .. 7 : seg * Para = c * 16
  <2>1. CASE Para = 2
    <3>1. seg \in {0, 8}
      BY <2>1 DEF Word, Limit
    <3>2. QED
      BY <2>1, <3>1
  <2>2. CASE Para = 4
    <3>1. seg \in {0, 4, 8, 12}
      BY <2>2 DEF Word, Limit
    <3>2. QED
      BY <2>2, <3>1
  <2>3. CASE Para = 8
    <3>1. seg \in {0, 2, 4, 6, 8, 10, 12, 14}
      BY <2>3 DEF Word, Limit
    <3>2. QED
      BY <2>3, <3>1
  <2>4. QED
    BY <2>1, <2>2, <2>3, Vm86Assumption
<1>2. off % Wide = off /\ off % Limit = off /\ off \in 0 .. 15 /\ off \in 0 .. Wide - 1
  BY DEF Word, Wide, Limit
<1>3. Linear(seg, off) = Or(seg * Para, off)
  BY <1>2 DEF Linear, LinearTable
<1>4. QED
  BY <1>1, <1>2, <1>3, OrIsSum DEF Exact, Real

\* The same where the lowest bits are an offset in a paragraph.
LEMMA OrInTwo ==
    ASSUME NEW c \in 0 .. 15, NEW o \in 0 .. 1
    PROVE  Or(c * 2, o) = c * 2 + o
<1> DEFINE bit(w) == IF ((c * 2) \div w) % 2 = 1 \/ (o \div w) % 2 = 1 THEN w ELSE 0
<1>1. bit(1) = 1 * ((o \div 1) % 2)
  BY SMTT(20)
<1>2. bit(2) = 2 * ((c \div 1) % 2)
  BY SMTT(20)
<1>3. bit(4) = 4 * ((c \div 2) % 2)
  BY SMTT(20)
<1>4. bit(8) = 8 * ((c \div 4) % 2)
  BY SMTT(20)
<1>5. bit(16) = 16 * ((c \div 8) % 2)
  BY SMTT(20)
<1>6. bit(32) = 0
  BY SMTT(20)
<1>7. bit(64) = 0
  BY SMTT(20)
<1>8. Or(c * 2, o) = bit(1) + bit(2) + bit(4) + bit(8) + bit(16) + bit(32) + bit(64)
  BY DEF Or
<1> HIDE DEF bit
<1>9. 1 * ((o \div 1) % 2) = o
  OBVIOUS
<1>10. 2 * ((c \div 1) % 2) + 4 * ((c \div 2) % 2) + 8 * ((c \div 4) % 2) + 16 * ((c \div 8) % 2) = c * 2
  OBVIOUS
<1>11. QED
  BY <1>1, <1>2, <1>3, <1>4, <1>5, <1>6, <1>7, <1>8, <1>9, <1>10

LEMMA OrInFour ==
    ASSUME NEW c \in 0 .. 15, NEW o \in 0 .. 3
    PROVE  Or(c * 4, o) = c * 4 + o
<1> DEFINE bit(w) == IF ((c * 4) \div w) % 2 = 1 \/ (o \div w) % 2 = 1 THEN w ELSE 0
<1>1. bit(1) = 1 * ((o \div 1) % 2)
  BY SMTT(20)
<1>2. bit(2) = 2 * ((o \div 2) % 2)
  BY SMTT(20)
<1>3. bit(4) = 4 * ((c \div 1) % 2)
  BY SMTT(20)
<1>4. bit(8) = 8 * ((c \div 2) % 2)
  BY SMTT(20)
<1>5. bit(16) = 16 * ((c \div 4) % 2)
  BY SMTT(20)
<1>6. bit(32) = 32 * ((c \div 8) % 2)
  BY SMTT(20)
<1>7. bit(64) = 0
  BY SMTT(20)
<1>8. Or(c * 4, o) = bit(1) + bit(2) + bit(4) + bit(8) + bit(16) + bit(32) + bit(64)
  BY DEF Or
<1> HIDE DEF bit
<1>9. 1 * ((o \div 1) % 2) + 2 * ((o \div 2) % 2) = o
  OBVIOUS
<1>10. 4 * ((c \div 1) % 2) + 8 * ((c \div 2) % 2) + 16 * ((c \div 4) % 2) + 32 * ((c \div 8) % 2) = c * 4
  OBVIOUS
<1>11. QED
  BY <1>1, <1>2, <1>3, <1>4, <1>5, <1>6, <1>7, <1>8, <1>9, <1>10

LEMMA OrInEight ==
    ASSUME NEW c \in 0 .. 15, NEW o \in 0 .. 7
    PROVE  Or(c * 8, o) = c * 8 + o
<1> DEFINE bit(w) == IF ((c * 8) \div w) % 2 = 1 \/ (o \div w) % 2 = 1 THEN w ELSE 0
<1>1. bit(1) = 1 * ((o \div 1) % 2)
  BY SMTT(20)
<1>2. bit(2) = 2 * ((o \div 2) % 2)
  BY SMTT(20)
<1>3. bit(4) = 4 * ((o \div 4) % 2)
  BY SMTT(20)
<1>4. bit(8) = 8 * ((c \div 1) % 2)
  BY SMTT(20)
<1>5. bit(16) = 16 * ((c \div 2) % 2)
  BY SMTT(20)
<1>6. bit(32) = 32 * ((c \div 4) % 2)
  BY SMTT(20)
<1>7. bit(64) = 64 * ((c \div 8) % 2)
  BY SMTT(20)
<1>8. Or(c * 8, o) = bit(1) + bit(2) + bit(4) + bit(8) + bit(16) + bit(32) + bit(64)
  BY DEF Or
<1> HIDE DEF bit
<1>9. 1 * ((o \div 1) % 2) + 2 * ((o \div 2) % 2) + 4 * ((o \div 4) % 2) = o
  OBVIOUS
<1>10. 8 * ((c \div 1) % 2) + 16 * ((c \div 2) % 2) + 32 * ((c \div 4) % 2) + 64 * ((c \div 8) % 2) = c * 8
  OBVIOUS
<1>11. QED
  BY <1>1, <1>2, <1>3, <1>4, <1>5, <1>6, <1>7, <1>8, <1>9, <1>10

\* The bytes of a paragraph: its first address has no bit of their offsets.
LEMMA ParagraphIsExact ==
    ASSUME NEW seg \in Word, NEW off \in 0 .. Para - 1
    PROVE  Exact(seg, off)
<1>1. off % Wide = off /\ off % Limit = off /\ off \in 0 .. Wide - 1
  BY Vm86Assumption DEF Wide, Limit
<1>2. Linear(seg, off) = Or(seg * Para, off)
  BY <1>1 DEF Linear, LinearTable
<1>3. Or(seg * Para, off) = seg * Para + off
  <2>1. CASE Para = 2
    <3>1. seg \in 0 .. 15 /\ off \in 0 .. 1
      BY <2>1 DEF Word, Limit
    <3>2. QED
      BY <2>1, <3>1, OrInTwo
  <2>2. CASE Para = 4
    <3>1. seg \in 0 .. 15 /\ off \in 0 .. 3
      BY <2>2 DEF Word, Limit
    <3>2. QED
      BY <2>2, <3>1, OrInFour
  <2>3. CASE Para = 8
    <3>1. seg \in 0 .. 15 /\ off \in 0 .. 7
      BY <2>3 DEF Word, Limit
    <3>2. QED
      BY <2>3, <3>1, OrInEight
  <2>4. QED
    BY <2>1, <2>2, <2>3, Vm86Assumption
<1>4. QED
  BY <1>1, <1>2, <1>3 DEF Exact, Real

\* The stack of a call: its segment begins at a multiple of 64K.
First == ToSegment(PtrStack, FALSE)

LEMMA FirstStack ==
    /\ First.segment \in Word /\ First.segment % (Limit \div Para) = 0
    /\ First.offset \in Word /\ MaxDepth <= First.offset
    /\ MaxDepth \in 2 .. Limit - 1
<1>1. /\ First.segment = ((PtrStack \div Para) % Limit) - ((PtrStack \div Para) % (Limit \div Para))
      /\ First.offset = PtrStack % Limit
  BY DEF First, ToSegment
<1>2. PICK q \in Nat : q = PtrStack \div Para
  BY Vm86Assumption
<1>3. First.segment \in Word /\ First.segment % (Limit \div Para) = 0
  <2>1. CASE Para = 2
    BY <2>1, <1>1, <1>2 DEF Word, Limit
  <2>2. CASE Para = 4
    BY <2>2, <1>1, <1>2 DEF Word, Limit
  <2>3. CASE Para = 8
    BY <2>3, <1>1, <1>2 DEF Word, Limit
  <2>4. QED
    BY <2>1, <2>2, <2>3, Vm86Assumption
<1>4. First.offset \in Word
  BY <1>1, Vm86Assumption DEF Word, Limit
<1>5. QED
  BY <1>3, <1>4, StackAssumption DEF First

\* Code segments have small offsets.
LEMMA CodeStart ==
    ASSUME NEW ptr \in Nat
    PROVE  /\ ToSegment(ptr, TRUE).segment \in Word /\ ToSegment(ptr, TRUE).offset \in Word
           /\ ToSegment(ptr, TRUE).offset \in 0 .. Para - 1
<1>1. /\ ToSegment(ptr, TRUE).segment = (ptr \div Para) % Limit
      /\ ToSegment(ptr, TRUE).offset = ptr % Para
  BY DEF ToSegment
<1>2. PICK q \in Nat : q = ptr \div Para
  BY Vm86Assumption
<1>3. PICK o \in 0 .. 7 : o = ptr % Para /\ o \in 0 .. Para - 1
  BY Vm86Assumption
<1>4. ToSegment(ptr, TRUE).segment \in Word
  <2>1. q % Limit \in Word
    BY DEF Word, Limit
  <2>2. QED
    BY <1>1, <1>2, <2>1, Zenon
<1>5. ToSegment(ptr, TRUE).offset \in Word
  <2>1. o \in Word
    BY DEF Word, Limit
  <2>2. QED
    BY <1>1, <1>3, <2>1, Zenon
<1>6. QED
  BY <1>1, <1>3, <1>4, <1>5, Zenon

-----------------------------------------------------------------------------
(* The invariant: what holds of the registers and the stacks while the     *)
(* called code runs.                                                       *)

\* The pointer of either stack, and the words on it.
Ptr(i) == IF i = cur THEN [ss |-> regs.ss, esp |-> regs.esp] ELSE parked

DepthOf(i) == (base[i] - Ptr(i).esp) % Limit

RegsInv ==
    /\ regs = [r \in Registers |-> regs[r]]
    /\ regs.cs \in Word /\ regs.eip \in Nat
    /\ \E u \in 0 .. 3 : regs.eflags = VM_BIT + vm86_ie + u

\* The upper half of either pointer may be anything, but the words are few enough
\* for that of the call's own stack not to go round at 64K.
StackInv ==
    /\ cur \in {1, 2}
    /\ Ptr(1).ss = First.segment /\ base[1] = First.offset
    /\ Ptr(1).esp \in 0 .. Wide - 1
    /\ [ss |-> Ptr(2).ss, esp |-> base[2]] \in OwnStack
    /\ Ptr(2).esp \in 0 .. Wide - 1
    /\ DepthOf(1) + DepthOf(2) <= MaxDepth

\* The code of the call begins in the first paragraph of its segment.
OwnInv == sys.at.segment \in Word /\ sys.at.offset \in 0 .. Para - 1

Vm86Inv ==
    /\ OwnInv
    /\ vm86_ie \in {0, IF_BIT}
    /\ mem \in [Memory -> Word]
    /\ mode = "guest" => RegsInv /\ StackInv
    /\ mode # "guest" => stray = {}
    /\ StrayOnlyOutside

-----------------------------------------------------------------------------
(* The two stacks. *)

LEMMA ModuloLimit ==
    ASSUME NEW b \in Int, NEW e \in Int
    PROVE  (b - e) % Limit \in 0 .. Limit - 1
BY DEF Limit

\* The stack pointer after n words are pushed: natively it goes round at 64K and
\* keeps its upper half, in the emulator it is a sum of 32 bits.
Moved(e, n) == {(e - (e % Limit)) + ((e - n) % Limit), (e - n) % Wide}

LEMMA GoesRound ==
    ASSUME NEW e \in 0 .. Wide - 1, NEW n \in -3 .. 3, NEW x \in Moved(e, n)
    PROVE  x \in 0 .. Wide - 1 /\ (x - (e - n)) % Limit = 0
<1>1. PICK q \in 0 .. 3, t \in 0 .. 15 : e = 16 * q + t
  BY DEF Wide
<1>2. e % Limit = t
  BY <1>1 DEF Limit
<1>3. CASE x = (e - (e % Limit)) + ((e - n) % Limit)
  <2>1. PICK y \in 0 .. 15 : y = (e - n) % 16 /\ (y - (e - n)) % 16 = 0
    OBVIOUS
  <2>2. x = 16 * q + y
    BY <1>1, <1>2, <1>3, <2>1 DEF Limit
  <2>3. QED
    BY <2>1, <2>2 DEF Limit, Wide
<1>4. CASE x = (e - n) % Wide
  BY <1>4 DEF Limit, Wide
<1>5. QED
  BY <1>3, <1>4 DEF Moved

\* Both kinds of push and pop, natively and emulated.
LEMMA Moves ==
    ASSUME regs.esp \in Int, NEW n \in 1 .. 3
    PROVE  /\ SP(-n) \in Moved(regs.esp, n) /\ SP(n) \in Moved(regs.esp, -n)
           /\ (regs.esp - n) % Wide \in Moved(regs.esp, n)
           /\ (regs.esp + n) % Wide \in Moved(regs.esp, -n)
<1>1. regs.esp + (-n) = regs.esp - n /\ regs.esp - (-n) = regs.esp + n
  OBVIOUS
<1>2. QED
  BY <1>1 DEF SP, Moved

\* What the pointers are, without the history variables' sharing.
LEMMA Pointers ==
    ASSUME StackInv
    PROVE  /\ base[1] \in Word /\ base[2] \in Word
           /\ Ptr(1).ss \in Word /\ Ptr(2).ss \in Word
           /\ Ptr(1).esp \in 0 .. Wide - 1 /\ Ptr(2).esp \in 0 .. Wide - 1
           /\ DepthOf(1) \in 0 .. MaxDepth /\ DepthOf(2) \in 0 .. MaxDepth
           /\ regs.ss = Ptr(cur).ss /\ regs.esp = Ptr(cur).esp
           /\ parked.ss = Ptr(3 - cur).ss /\ parked.esp = Ptr(3 - cur).esp
           /\ Depth = DepthOf(cur) /\ Used = DepthOf(1) + DepthOf(2)
<1>1. base[1] \in Word /\ Ptr(1).ss \in Word /\ Ptr(1).esp \in 0 .. Wide - 1
  BY FirstStack DEF StackInv
<1>2. base[2] \in Word /\ Ptr(2).ss \in Word
  BY Vm86Assumption DEF StackInv
<1>3. Ptr(2).esp \in 0 .. Wide - 1
  BY DEF StackInv
<1>4. /\ regs.ss = Ptr(cur).ss /\ regs.esp = Ptr(cur).esp
      /\ parked.ss = Ptr(3 - cur).ss /\ parked.esp = Ptr(3 - cur).esp
  BY DEF StackInv, Ptr
<1>5. DepthOf(1) \in Nat /\ DepthOf(2) \in Nat
  <2>1. base[1] \in Int /\ base[2] \in Int /\ Ptr(1).esp \in Int /\ Ptr(2).esp \in Int
    BY <1>1, <1>2, <1>3 DEF Word, Limit, Wide
  <2>2. QED
    BY <2>1, ModuloLimit DEF DepthOf, Limit
<1>6. DepthOf(1) \in 0 .. MaxDepth /\ DepthOf(2) \in 0 .. MaxDepth
  BY <1>5, FirstStack DEF StackInv
<1>7. Depth = DepthOf(cur) /\ Used = DepthOf(1) + DepthOf(2)
  <2>1. Depth = DepthOf(cur)
    BY <1>4 DEF Depth, DepthOf
  <2>2. Used = DepthOf(cur) + DepthOf(3 - cur)
    BY <1>4, <2>1 DEF Used, DepthOf
  <2>3. cur = 1 \/ cur = 2
    BY DEF StackInv
  <2>4. QED
    BY <1>5, <2>1, <2>2, <2>3
<1>8. QED
  BY <1>1, <1>2, <1>3, <1>4, <1>6, <1>7

\* The cells of both stacks are in memory, and no cell is of both.
LEMMA StackCells ==
    ASSUME StackInv, NEW i \in {1, 2}, NEW k \in 1 .. MaxDepth
    PROVE  /\ Real(Ptr(i).ss, base[i] - k) \in Memory
           /\ \A j \in 1 .. MaxDepth :
                 Real(Ptr(3 - i).ss, base[3 - i] - j) # Real(Ptr(i).ss, base[i] - k)
<1> DEFINE c(n) == Cells(Ptr(n).ss, base[n])
<1>1. c(1) = Cells(First.segment, First.offset)
  BY DEF StackInv
<1>2. PICK s \in OwnStack : s.ss = Ptr(2).ss /\ s.esp = base[2]
  BY DEF StackInv
<1>3. c(1) \subseteq Memory /\ c(2) \subseteq Memory /\ c(2) \cap c(1) = {}
  BY <1>1, <1>2, StackAssumption DEF First
<1>4. \A n \in {1, 2}, j \in 1 .. MaxDepth : Real(Ptr(n).ss, base[n] - j) \in c(n)
  BY DEF Cells
<1> HIDE DEF c
<1>5. CASE i = 1
  <2>1. 3 - i = 2
    BY <1>5
  <2>2. QED
    BY <1>3, <1>4, <1>5, <2>1, Zenon
<1>6. CASE i = 2
  <2>1. 3 - i = 1
    BY <1>6
  <2>2. QED
    BY <1>3, <1>4, <1>6, <2>1, Zenon
<1>7. QED
  BY <1>5, <1>6

\* Places less than 64K apart are different cells.
LEMMA CellsDiffer ==
    ASSUME NEW ss \in Word, NEW b \in Int, NEW j \in 1 .. Limit - 1,
           NEW k \in 1 .. Limit - 1, Real(ss, b - j) = Real(ss, b - k)
    PROVE  j = k
<1>1. ss * Para \in Int
  BY Vm86Assumption DEF Word, Limit
<1>2. (b - j) % 16 = (b - k) % 16
  BY <1>1 DEF Real, Limit
<1>3. QED
  BY <1>2 DEF Limit

\* An offset counts modulo 64K.
LEMMA SameCell ==
    ASSUME NEW ss, NEW x \in Int, NEW y \in Int, (x - y) % Limit = 0
    PROVE  Real(ss, x) = Real(ss, y) /\ Real(ss, x % Wide) = Real(ss, y)
<1>1. x % 16 = y % 16 /\ (x % 64) % 16 = y % 16
  BY DEF Limit
<1>2. QED
  BY <1>1 DEF Real, Limit, Wide

\* n words are pushed (or, with n negative, popped) and the pointer follows,
\* whether it goes round at 64K or not at all.
LEMMA MovePointer ==
    ASSUME StackInv, NEW n \in -3 .. 3,
           Depth + n >= 0, Used + n <= MaxDepth,
           regs'.ss = regs.ss, regs'.esp \in Moved(regs.esp, n),
           UNCHANGED <<cur, parked, base>>
    PROVE  /\ StackInv'
           /\ DepthOf(cur)' = DepthOf(cur) + n
           /\ DepthOf(3 - cur)' = DepthOf(3 - cur)
<1>1. /\ regs.esp \in 0 .. Wide - 1
      /\ base[1] \in Int /\ base[2] \in Int /\ base[cur] \in Int
  BY Pointers DEF StackInv, Word, Limit, Wide
<1>2. regs'.esp \in 0 .. Wide - 1 /\ (regs'.esp - (regs.esp - n)) % Limit = 0
  BY <1>1, GoesRound
<1>3. Ptr(cur)'.ss = Ptr(cur).ss /\ Ptr(cur)'.esp = regs'.esp /\ Ptr(3 - cur)' = Ptr(3 - cur)
  BY DEF Ptr, StackInv
<1>4. DepthOf(cur)' = DepthOf(cur) + n
  <2>1. DepthOf(cur)' = (base[cur] - regs'.esp) % Limit /\ DepthOf(cur) = (base[cur] - regs.esp) % Limit
    BY <1>3, Pointers DEF DepthOf
  <2>2. ((base[cur] - regs.esp) % Limit) + n \in 0 .. Limit - 1
    <3>1. PICK d1 \in Nat, d2 \in Nat, m \in 2 .. Limit - 1 :
             d1 = DepthOf(1) /\ d2 = DepthOf(2) /\ m = MaxDepth
      BY Pointers, FirstStack DEF Limit
    <3>2. cur = 1 \/ cur = 2
      BY DEF StackInv
    <3>3. QED
      BY <2>1, <3>1, <3>2, Pointers DEF Limit
  <2>3. QED
    <3> DEFINE b == base[cur]  e == regs.esp  x == regs'.esp
    <3>1. /\ b \in Int /\ e \in Int /\ x \in Int /\ n \in Int
          /\ (x - (e - n)) % Limit = 0 /\ ((b - e) % Limit) + n \in 0 .. Limit - 1
      BY <1>1, <1>2, <2>2 DEF Wide
    <3> HIDE DEF b, e, x
    <3>2. (b - x) % Limit = ((b - e) % Limit) + n
      <4>1. PICK q \in Int : x - (e - n) = 16 * q
        BY <3>1, SMTT(20) DEF Limit
      <4>2. b - x = (b - e) + n - 16 * q
        BY <3>1, <4>1
      <4>3. PICK t \in 0 .. 15, w \in Int : b - e = 16 * w + t /\ t = (b - e) % 16
        BY <3>1
      <4>4. PICK y \in 0 .. 15 : y = t + n
        BY <3>1, <4>3 DEF Limit
      <4>5. PICK z \in Int : z = w - q
        OBVIOUS
      <4>6. b - x = 16 * z + y
        BY <4>2, <4>3, <4>4, <4>5
      <4>7. (b - x) % 16 = t + n
        BY <4>4, <4>6
      <4>8. QED
        BY <4>3, <4>7 DEF Limit
    <3>3. QED
      BY <2>1, <3>2 DEF b, e, x
<1>5. DepthOf(3 - cur)' = DepthOf(3 - cur)
  BY <1>3 DEF DepthOf
<1>6. StackInv'
  <2>1. DepthOf(1)' + DepthOf(2)' <= MaxDepth
    <3>1. PICK d1 \in Nat, d2 \in Nat, m \in Nat :
             d1 = DepthOf(1) /\ d2 = DepthOf(2) /\ m = MaxDepth
      BY Pointers, FirstStack DEF Limit
    <3>2. CASE cur = 1
      BY <1>4, <1>5, <3>1, <3>2, Pointers
    <3>3. CASE cur = 2
      BY <1>4, <1>5, <3>1, <3>3, Pointers
    <3>4. QED
      BY <3>2, <3>3 DEF StackInv
  <2>2. CASE cur = 1
    BY <1>2, <1>3, <2>1, <2>2 DEF StackInv
  <2>3. CASE cur = 2
    BY <1>2, <1>3, <2>1, <2>3 DEF StackInv
  <2>4. QED
    BY <2>2, <2>3 DEF StackInv
<1>7. QED
  BY <1>4, <1>5, <1>6

-----------------------------------------------------------------------------
(* What is on the stacks. *)

\* Each word is stored in its cell, and nothing else is changed.
LEMMA StoredIs ==
    ASSUME NEW m \in [Memory -> Word], NEW ws \in Seq(Word),
           NEW cell \in [DOMAIN ws -> Memory],
           \A j, k \in DOMAIN ws : cell[j] = cell[k] => j = k
    PROVE  /\ Stored(m, ws, cell) \in [Memory -> Word]
           /\ \A k \in DOMAIN ws : Stored(m, ws, cell)[cell[k]] = ws[k]
           /\ \A a \in Memory : (\A k \in DOMAIN ws : cell[k] # a)
                                 => Stored(m, ws, cell)[a] = m[a]
<1>1. \A k \in DOMAIN ws : ws[k] \in Word
  OBVIOUS
<1>2. ASSUME NEW a \in Memory, NEW k \in DOMAIN ws, cell[k] = a
      PROVE  (CHOOSE j \in DOMAIN ws : cell[j] = a) = k
  BY <1>2
<1>3. QED
  BY <1>1, <1>2, Zenon DEF Stored

\* The n words in front of offset b, in memory m.
WordsIn(m, ss, b, n) == [k \in 1 .. n |-> m[Real(ss, b - k)]]

LEMMA AppendedWords ==
    ASSUME NEW S, NEW d \in Nat, NEW n \in Nat, NEW ws \in Seq(S), Len(ws) = n,
           NEW old \in [1 .. d -> S], NEW new \in [1 .. d + n -> S],
           \A k \in 1 .. d : new[k] = old[k],
           \A k \in 1 .. n : new[d + k] = ws[k]
    PROVE  new = old \o ws
<1>1. \A k \in 1 .. d + n : new[k] = IF k <= d THEN old[k] ELSE ws[k - d]
  <2>1. TAKE k \in 1 .. d + n
  <2>2. CASE k <= d
    <3>1. k \in 1 .. d
      BY <2>2
    <3>2. QED
      BY <2>2, <3>1
  <2>3. CASE ~(k <= d)
    <3>1. k - d \in 1 .. n /\ d + (k - d) = k
      BY <2>3
    <3>2. QED
      BY <2>3, <3>1
  <2>4. QED
    BY <2>2, <2>3
<1>2. old \in Seq(S) /\ Len(old) = d /\ new \in Seq(S) /\ Len(new) = d + n
  BY SeqDef
<1>3. /\ old \o ws \in Seq(S) /\ Len(old \o ws) = d + n
      /\ \A k \in 1 .. d + n : (old \o ws)[k] = IF k <= d THEN old[k] ELSE ws[k - d]
  BY <1>2, ConcatProperties
<1>4. QED
  BY <1>1, <1>2, <1>3, SeqEqual

\* In memory m the n words ws are behind the d words in front of offset b, and
\* nothing is changed outside this stack.
Appends(m, ss, b, d, ws, n) ==
    /\ m \in [Memory -> Word]
    /\ WordsIn(m, ss, b, d + n) = WordsIn(mem, ss, b, d) \o ws
    /\ \A a \in Memory : (\A k \in 1 .. MaxDepth : Real(ss, b - k) # a) => m[a] = mem[a]

LEMMA StoredBehind ==
    ASSUME mem \in [Memory -> Word], NEW ws \in Seq(Word), NEW n \in 1 .. 3, Len(ws) = n,
           NEW ss \in Word, NEW b \in Int, NEW d \in Nat, d + n <= MaxDepth,
           \A k \in 1 .. MaxDepth : Real(ss, b - k) \in Memory,
           NEW cell \in [DOMAIN ws -> Memory],
           \A k \in DOMAIN ws : cell[k] = Real(ss, b - (d + k)),
           NEW m, m = Stored(mem, ws, cell)
    PROVE  Appends(m, ss, b, d, ws, n)
<1> DEFINE at == [k \in 1 .. MaxDepth |-> Real(ss, b - k)]
<1>1. DOMAIN ws = 1 .. n /\ MaxDepth \in 2 .. 15
  BY FirstStack DEF Limit
<1>2. \A k \in 1 .. n : d + k \in 1 .. MaxDepth /\ cell[k] = at[d + k]
  <2>1. TAKE k \in 1 .. n
  <2>2. d + k \in 1 .. MaxDepth /\ k \in DOMAIN ws
    BY <1>1
  <2>3. QED
    BY <2>2
<1>3. \A j, k \in 1 .. MaxDepth : at[j] = at[k] => j = k
  <2>1. TAKE j, k \in 1 .. MaxDepth
  <2>2. j \in 1 .. Limit - 1 /\ k \in 1 .. Limit - 1
    BY <1>1 DEF Limit
  <2>3. QED
    BY <2>2, CellsDiffer
<1>4. /\ m \in [Memory -> Word]
      /\ \A k \in 1 .. n : m[at[d + k]] = ws[k]
      /\ \A a \in Memory : (\A k \in 1 .. n : at[d + k] # a) => m[a] = mem[a]
  <2>2. \A j, k \in DOMAIN ws : cell[j] = cell[k] => j = k
    <3>1. TAKE j, k \in DOMAIN ws
    <3>2. d + j = d + k => j = k
      BY <1>1
    <3>3. d + j \in 1 .. MaxDepth /\ d + k \in 1 .. MaxDepth
      BY <1>1, <1>2
    <3> HIDE DEF at
    <3>4. QED
      BY <1>1, <1>2, <1>3, <3>2, <3>3
  <2>3. /\ m \in [Memory -> Word]
        /\ \A k \in DOMAIN ws : m[cell[k]] = ws[k]
        /\ \A a \in Memory : (\A k \in DOMAIN ws : cell[k] # a) => m[a] = mem[a]
    <3>1. mem \in [Memory -> Word] /\ ws \in Seq(Word) /\ cell \in [DOMAIN ws -> Memory]
      OBVIOUS
    <3>2. /\ Stored(mem, ws, cell) \in [Memory -> Word]
          /\ \A k \in DOMAIN ws : Stored(mem, ws, cell)[cell[k]] = ws[k]
          /\ \A a \in Memory : (\A k \in DOMAIN ws : cell[k] # a)
                                => Stored(mem, ws, cell)[a] = mem[a]
      BY <2>2, <3>1, StoredIs
    <3>3. QED
      BY <3>2
  <2>4. \A k \in 1 .. n : m[at[d + k]] = ws[k]
    <3>1. TAKE k \in 1 .. n
    <3>2. k \in DOMAIN ws /\ cell[k] = at[d + k]
      BY <1>1, <1>2
    <3>3. QED
      BY <2>3, <3>2, Zenon
  <2>5. ASSUME NEW a \in Memory, \A k \in 1 .. n : at[d + k] # a
        PROVE  m[a] = mem[a]
    <3>1. \A k \in DOMAIN ws : cell[k] # a
      BY <1>1, <1>2, <2>5, Zenon
    <3>2. QED
      BY <2>3, <3>1, Zenon
  <2>6. QED
    BY <2>3, <2>4, <2>5, Zenon
<1>5. \A k \in 1 .. d : m[at[k]] = mem[at[k]]
  <2>1. TAKE k \in 1 .. d
  <2>2. k \in 1 .. MaxDepth /\ at[k] \in Memory
    BY <1>1
  <2>3. \A j \in 1 .. n : d + j # k
    BY <1>1
  <2> HIDE DEF at
  <2>4. QED
    BY <1>2, <1>3, <1>4, <2>2, <2>3
<1>6. WordsIn(m, ss, b, d + n) = WordsIn(mem, ss, b, d) \o ws
  <2> DEFINE old == WordsIn(mem, ss, b, d)  new == WordsIn(m, ss, b, d + n)
  <2>1. \A k \in 1 .. d : new[k] = old[k]
    <3>1. \A k \in 1 .. d : k \in 1 .. d + n /\ k \in 1 .. MaxDepth
      BY <1>1
    <3>2. QED
      BY <1>5, <3>1 DEF WordsIn
  <2>2. \A k \in 1 .. n : new[d + k] = ws[k]
    <3>1. \A k \in 1 .. n : d + k \in 1 .. d + n /\ d + k \in 1 .. MaxDepth
      BY <1>1
    <3>2. QED
      BY <1>4, <3>1 DEF WordsIn
  <2>3. old \in [1 .. d -> Word] /\ new \in [1 .. d + n -> Word]
    <3>1. /\ \A k \in 1 .. d : k \in 1 .. MaxDepth
          /\ \A k \in 1 .. d + n : k \in 1 .. MaxDepth
      BY <1>1
    <3>2. QED
      BY <1>4, <3>1 DEF WordsIn
  <2> HIDE DEF old, new
  <2>4. new = old \o ws
    BY <2>1, <2>2, <2>3, AppendedWords, SMTT(30)
  <2>5. QED
    BY <2>4 DEF old, new
<1>7. \A a \in Memory : (\A k \in 1 .. MaxDepth : Real(ss, b - k) # a) => m[a] = mem[a]
  BY <1>2, <1>4
<1>8. QED
  BY <1>4, <1>6, <1>7 DEF Appends

\* A stack by its pointer.
Contents(p, b) == WordsIn(mem, p.ss, b, (b - p.esp) % Limit)

LEMMA StacksAre ==
    ASSUME cur \in {1, 2}
    PROVE  /\ StackNo(1) = Contents(Ptr(1), base[1])
           /\ StackNo(2) = Contents(Ptr(2), base[2])
BY DEF StackNo, WordsOn, WordsIn, Ptr, Contents

LEMMA CellsInMemory ==
    ASSUME StackInv
    PROVE  /\ \A k \in 1 .. MaxDepth : Real(Ptr(1).ss, base[1] - k) \in Memory
           /\ \A k \in 1 .. MaxDepth : Real(Ptr(2).ss, base[2] - k) \in Memory
           /\ \A j, k \in 1 .. MaxDepth :
                 Real(Ptr(1).ss, base[1] - j) # Real(Ptr(2).ss, base[2] - k)
<1>1. \A k \in 1 .. MaxDepth : Real(Ptr(1).ss, base[1] - k) \in Memory
  BY StackCells
<1>2. \A k \in 1 .. MaxDepth : Real(Ptr(2).ss, base[2] - k) \in Memory
  BY StackCells
<1>3. \A j, k \in 1 .. MaxDepth :
         Real(Ptr(3 - 2).ss, base[3 - 2] - j) # Real(Ptr(2).ss, base[2] - k)
  BY StackCells
<1>4. QED
  BY <1>1, <1>2, <1>3

\* A stack none of whose cells is changed keeps its words.
LEMMA SameContents ==
    ASSUME NEW m, NEW ss, NEW b, NEW d \in 0 .. MaxDepth,
           \A k \in 1 .. MaxDepth : m[Real(ss, b - k)] = mem[Real(ss, b - k)]
    PROVE  WordsIn(m, ss, b, d) = WordsIn(mem, ss, b, d)
<1>1. \A k \in 1 .. d : k \in 1 .. MaxDepth
  BY FirstStack DEF Limit
<1>2. QED
  BY <1>1 DEF WordsIn

\* The words of one stack change, those of the other do not.
LEMMA StacksMove ==
    ASSUME cur \in {1, 2}, UNCHANGED <<cur, parked, base>>, regs'.ss = regs.ss,
           NEW d, (base[cur] - regs'.esp) % Limit = d,
           NEW new, WordsIn(mem', regs.ss, base[cur], d) = new,
           WordsIn(mem', parked.ss, base[3 - cur], (base[3 - cur] - parked.esp) % Limit)
             = WordsIn(mem, parked.ss, base[3 - cur], (base[3 - cur] - parked.esp) % Limit)
    PROVE  <<StackNo(1), StackNo(2)>>' = [<<StackNo(1), StackNo(2)>> EXCEPT ![cur] = new]
<1> DEFINE other == WordsIn(mem, parked.ss, base[3 - cur], (base[3 - cur] - parked.esp) % Limit)
<1>1. CASE cur = 1
  <2>1. 3 - cur = 2
    BY <1>1
  <2>2. StackNo(1)' = new /\ StackNo(2)' = other /\ StackNo(2) = other
    BY <1>1, <2>1 DEF StackNo, WordsOn, WordsIn
  <2> HIDE DEF other
  <2>3. QED
    BY <1>1, <2>2
<1>2. CASE cur = 2
  <2>1. 3 - cur = 1
    BY <1>2
  <2>2. StackNo(2)' = new /\ StackNo(1)' = other /\ StackNo(1) = other
    BY <1>2, <2>1 DEF StackNo, WordsOn, WordsIn
  <2> HIDE DEF other
  <2>3. QED
    BY <1>2, <2>2
<1>3. QED
  BY <1>1, <1>2

\* Both stacks, as the one in use and the other.
LEMMA InUse ==
    ASSUME StackInv
    PROVE  /\ cur \in {1, 2} /\ MaxDepth \in 2 .. 15
           /\ regs.ss \in Word /\ regs.esp \in 0 .. Wide - 1 /\ regs.esp \in Int
           /\ base[cur] \in Int /\ base[3 - cur] \in Int
           /\ Depth \in 0 .. MaxDepth /\ Depth \in Nat
           /\ Depth = (base[cur] - regs.esp) % Limit
           /\ Used - Depth \in 0 .. MaxDepth
           /\ Used - Depth = (base[3 - cur] - parked.esp) % Limit
           /\ Used \in 0 .. MaxDepth
<1>1. MaxDepth \in 2 .. 15 /\ base[1] \in Int /\ base[2] \in Int
  BY Pointers, FirstStack DEF Limit, Word
<1>2. DepthOf(1) + DepthOf(2) <= MaxDepth
  BY DEF StackInv
<1>3. /\ DepthOf(1) \in 0 .. MaxDepth /\ DepthOf(2) \in 0 .. MaxDepth
      /\ Used = DepthOf(1) + DepthOf(2)
      /\ regs.ss \in Word /\ regs.esp \in 0 .. Wide - 1
  <2>1. cur = 1 \/ cur = 2
    BY DEF StackInv
  <2>2. QED
    BY <2>1, Pointers
<1>4. CASE cur = 1
  <2>1. 3 - cur = 2
    BY <1>4
  <2>2. Depth = DepthOf(1) /\ DepthOf(2) = (base[2] - parked.esp) % Limit
    BY <1>4, <2>1, Pointers DEF DepthOf
  <2>3. QED
    BY <1>1, <1>2, <1>3, <1>4, <2>1, <2>2 DEF Depth, Wide
<1>5. CASE cur = 2
  <2>1. 3 - cur = 1
    BY <1>5
  <2>2. Depth = DepthOf(2) /\ DepthOf(1) = (base[1] - parked.esp) % Limit
    BY <1>5, <2>1, Pointers DEF DepthOf
  <2>3. QED
    BY <1>1, <1>2, <1>3, <1>5, <2>1, <2>2 DEF Depth, Wide
<1>6. QED
  BY <1>4, <1>5 DEF StackInv

LEMMA CellsInUse ==
    ASSUME StackInv
    PROVE  /\ \A k \in 1 .. MaxDepth : Real(regs.ss, base[cur] - k) \in Memory
           /\ \A k \in 1 .. MaxDepth : Real(parked.ss, base[3 - cur] - k) \in Memory
           /\ \A j, k \in 1 .. MaxDepth :
                 Real(regs.ss, base[cur] - j) # Real(parked.ss, base[3 - cur] - k)
<1>1. CASE cur = 1
  <2>1. 3 - cur = 2
    BY <1>1
  <2>2. regs.ss = Ptr(1).ss /\ parked.ss = Ptr(2).ss
    BY <1>1 DEF Ptr
  <2>3. QED
    BY <1>1, <2>1, <2>2, CellsInMemory
<1>2. CASE cur = 2
  <2>1. 3 - cur = 1
    BY <1>2
  <2>2. regs.ss = Ptr(2).ss /\ parked.ss = Ptr(1).ss
    BY <1>2 DEF Ptr
  <2>3. QED
    BY <1>2, <2>1, <2>2, CellsInMemory
<1>3. QED
  BY <1>1, <1>2 DEF StackInv

\* The pointer is behind the last word.
LEMMA TopCell ==
    ASSUME StackInv, NEW k \in Int
    PROVE  /\ Real(regs.ss, regs.esp + k) = Real(regs.ss, base[cur] - (Depth - k))
           /\ Real(regs.ss, Less(regs.esp, k)) = Real(regs.ss, base[cur] - (Depth + k))
<1>1. PICK b \in Int, e \in Int, d \in Int :
         b = base[cur] /\ e = regs.esp /\ d = Depth /\ d = (b - e) % Limit
  <2>1. base[cur] \in Int /\ regs.esp \in Int /\ Depth \in Int
    BY InUse
  <2>2. QED
    BY <2>1, InUse
<1>2. /\ ((e + k) - (b - (d - k))) % Limit = 0
      /\ ((e - k) - (b - (d + k))) % Limit = 0
  BY <1>1 DEF Limit
<1>3. /\ e + k \in Int /\ e - k \in Int /\ b - (d - k) \in Int /\ b - (d + k) \in Int
  OBVIOUS
<1>4. Real(regs.ss, e + k) = Real(regs.ss, b - (d - k))
  BY <1>2, <1>3, SameCell
<1>5. Real(regs.ss, (e - k) % Wide) = Real(regs.ss, b - (d + k))
  BY <1>2, <1>3, SameCell
<1>6. QED
  BY <1>1, <1>4, <1>5 DEF Less

\* Words pushed are appended.
LEMMA Pushing ==
    ASSUME StackInv, mem \in [Memory -> Word],
           NEW n \in 1 .. 3, NEW ws \in Seq(Word), Len(ws) = n, Used + n <= MaxDepth,
           mem' = Stored(mem, ws, [k \in DOMAIN ws |-> Real(regs.ss, Less(regs.esp, k))]),
           regs'.ss = regs.ss,
           regs'.esp \in Moved(regs.esp, n),
           UNCHANGED <<cur, parked, base>>
    PROVE  /\ StackInv' /\ mem' \in [Memory -> Word]
           /\ Machine!Push(ws)
<1>1. DOMAIN ws = 1 .. n /\ Depth + n <= MaxDepth /\ n \in -3 .. 3 /\ Depth + n >= 0
  <2>1. DOMAIN ws = 1 .. n
    OBVIOUS
  <2>2. PICK u \in Int, d \in Nat, m \in Int :
          u = Used /\ d = Depth /\ m = MaxDepth /\ d <= u /\ u + n <= m
    <3>1. Used \in Int /\ Depth \in Nat /\ MaxDepth \in Int /\ Used - Depth >= 0
      <4>1. MaxDepth \in 2 .. 15 /\ Depth \in Nat
            /\ Used - Depth \in 0 .. MaxDepth /\ Used \in 0 .. MaxDepth
        BY InUse, Zenon
      <4>2. QED
        BY <4>1
    <3>2. Depth <= Used
      BY <3>1
    <3>3. QED
      BY <3>1, <3>2
  <2>3. QED
    BY <2>1, <2>2
<1>2. StackInv' /\ (base[cur] - regs'.esp) % Limit = Depth + n
  <2>1. StackInv' /\ DepthOf(cur)' = DepthOf(cur) + n
    BY <1>1, MovePointer
  <2>2. Depth = DepthOf(cur) /\ DepthOf(cur)' = (base[cur] - regs'.esp) % Limit
    BY <2>1, Pointers DEF DepthOf, Ptr
  <2>3. QED
    BY <2>1, <2>2
<1> DEFINE cell == [k \in DOMAIN ws |-> Real(regs.ss, base[cur] - (Depth + k))]
<1>3. mem' = Stored(mem, ws, cell)
  <2>1. \A k \in DOMAIN ws : Real(regs.ss, Less(regs.esp, k)) = Real(regs.ss, base[cur] - (Depth + k))
    <3>1. TAKE k \in DOMAIN ws
    <3>2. k \in Int
      BY <1>1
    <3>3. QED
      BY <3>2, TopCell
  <2>2. [k \in DOMAIN ws |-> Real(regs.ss, Less(regs.esp, k))] = cell
    BY <2>1
  <2>3. QED
    BY <2>2
<1>4. /\ mem' \in [Memory -> Word]
      /\ WordsIn(mem', regs.ss, base[cur], Depth + n)
           = WordsIn(mem, regs.ss, base[cur], Depth) \o ws
      /\ \A a \in Memory : (\A k \in 1 .. MaxDepth : Real(regs.ss, base[cur] - k) # a)
                            => mem'[a] = mem[a]
  <2>1. base[cur] \in Int /\ Depth \in Nat /\ regs.ss \in Word
    BY InUse
  <2>2. \A k \in 1 .. MaxDepth : Real(regs.ss, base[cur] - k) \in Memory
    BY CellsInUse
  <2>3. cell \in [DOMAIN ws -> Memory]
    <3>1. ASSUME NEW k \in DOMAIN ws
          PROVE  Depth + k \in 1 .. MaxDepth
      <4>1. MaxDepth \in Int
        BY FirstStack DEF Limit
      <4>2. QED
        BY <1>1, <2>1, <4>1
    <3>2. QED
      BY <2>2, <3>1
  <2>4. \A k \in DOMAIN ws : cell[k] = Real(regs.ss, base[cur] - (Depth + k))
    OBVIOUS
  <2> HIDE DEF cell
  <2>5. Depth + n <= MaxDepth
    BY <1>1
  <2>6. Appends(mem', regs.ss, base[cur], Depth, ws, n)
    BY <1>3, <2>1, <2>2, <2>3, <2>4, <2>5, StoredBehind, Zenon
  <2>7. QED
    BY <2>6 DEF Appends
<1>5. WordsIn(mem', parked.ss, base[3 - cur], Used - Depth)
        = WordsIn(mem, parked.ss, base[3 - cur], Used - Depth)
  <2>1. Used - Depth \in 0 .. MaxDepth
    BY InUse
  <2>2. \A k \in 1 .. MaxDepth :
          mem'[Real(parked.ss, base[3 - cur] - k)] = mem[Real(parked.ss, base[3 - cur] - k)]
    BY <1>4, CellsInUse
  <2>3. QED
    BY <2>1, <2>2, SameContents
<1>6. StackNo(cur) = WordsIn(mem, regs.ss, base[cur], Depth)
  BY DEF StackNo, WordsOn, WordsIn, Depth
<1>7. <<StackNo(1), StackNo(2)>>' = [<<StackNo(1), StackNo(2)>> EXCEPT ![cur] = StackNo(cur) \o ws]
  <2>1. cur \in {1, 2} /\ Used - Depth = (base[3 - cur] - parked.esp) % Limit
    BY InUse
  <2>2. WordsIn(mem', regs.ss, base[cur], Depth + n) = StackNo(cur) \o ws
    BY <1>4, <1>6
  <2>3. WordsIn(mem', parked.ss, base[3 - cur], (base[3 - cur] - parked.esp) % Limit)
          = WordsIn(mem, parked.ss, base[3 - cur], (base[3 - cur] - parked.esp) % Limit)
    BY <1>5, <2>1
  <2>4. QED
    BY <1>2, <2>1, <2>2, <2>3, StacksMove, Zenon
<1>8. <<StackNo(1), StackNo(2)>>[cur] = StackNo(cur)
  <2>1. cur = 1 \/ cur = 2
    BY InUse
  <2>2. QED
    BY <2>1
<1>9. QED
  BY <1>2, <1>4, <1>7, <1>8 DEF Machine!Push

\* A part of a stack, and its top.
LEMMA PartOfWords ==
    ASSUME NEW S, NEW d \in Nat, NEW n \in 1 .. d, NEW s \in [1 .. d -> S]
    PROVE  /\ Len(s) = d
           /\ \A k \in 1 .. n : Reverse(SubSeq(s, d - n + 1, d))[k] = s[d - k + 1]
<1>1. s \in Seq(S)
  BY SeqDef
<1>2. Len(s) = d
  BY <1>1, LenProperties
<1> DEFINE t == SubSeq(s, d - n + 1, d)
<1>4. /\ t \in Seq(S) /\ Len(t) = n
      /\ \A k \in 1 .. n : t[k] = s[d - n + k]
  <2>1. t \in Seq(S) /\ Len(t) = (IF d - n + 1 <= d THEN d - (d - n + 1) + 1 ELSE 0)
        /\ \A k \in 1 .. Len(t) : t[k] = s[d - n + 1 + k - 1]
    BY <1>1, <1>2, SubSeqProperties
  <2>2. Len(t) = n
    BY <2>1
  <2>3. \A k \in 1 .. n : d - n + 1 + k - 1 = d - n + k
    OBVIOUS
  <2>4. QED
    BY <2>1, <2>2, <2>3
<1>5. \A k \in 1 .. n : Reverse(t)[k] = s[d - k + 1]
  <2> HIDE DEF t
  <2>1. TAKE k \in 1 .. n
  <2>2. Reverse(t)[k] = t[(n - k) + 1]
    BY <1>4 DEF Reverse
  <2>3. (n - k) + 1 \in 1 .. n /\ d - n + ((n - k) + 1) = d - k + 1
    OBVIOUS
  <2>4. QED
    BY <1>4, <2>2, <2>3
<1>6. QED
  BY <1>2, <1>5

LEMMA CutWords ==
    ASSUME NEW S, NEW d \in Nat, NEW n \in 1 .. d, NEW s \in [1 .. d -> S]
    PROVE  SubSeq(s, 1, d - n) = [k \in 1 .. d - n |-> s[k]]
<1>1. s \in Seq(S)
  BY SeqDef
<1>2. Len(s) = d
  BY <1>1, LenProperties
<1>3. QED
  BY <1>1, <1>2

\* What lies in the cells of the stack in use, the oldest word first.
InOrder(s) ==
    /\ s \in [1 .. Depth -> Word]
    /\ StackNo(cur) = s /\ <<StackNo(1), StackNo(2)>>[cur] = s
    /\ \A k \in 1 .. Depth : s[k] = mem[Real(regs.ss, base[cur] - k)]

LEMMA WordsAre ==
    ASSUME StackInv, mem \in [Memory -> Word]
    PROVE  InOrder(WordsIn(mem, regs.ss, base[cur], Depth))
<1> DEFINE s == WordsIn(mem, regs.ss, base[cur], Depth)
<1>1. \A k \in 1 .. Depth : k \in 1 .. MaxDepth
  BY InUse
<1>2. /\ \A k \in 1 .. Depth : s[k] = mem[Real(regs.ss, base[cur] - k)]
      /\ s \in [1 .. Depth -> Word]
  BY <1>1, CellsInUse DEF WordsIn
<1>3. StackNo(cur) = s
  BY DEF StackNo, WordsOn, WordsIn, Depth
<1>4. <<StackNo(1), StackNo(2)>>[cur] = s
  <2>1. cur = 1 \/ cur = 2
    BY InUse
  <2>2. QED
    BY <1>3, <2>1
<1>5. QED
  BY <1>2, <1>3, <1>4 DEF InOrder

\* The word that the pointer is at is the last.
LEMMA Topmost ==
    ASSUME StackInv, mem \in [Memory -> Word], NEW n \in 1 .. 3, Depth >= n, NEW k \in 1 .. n
    PROVE  /\ mem[Real(regs.ss, regs.esp + (k - 1))] \in Word
           /\ Machine!Top(n)[k] = mem[Real(regs.ss, regs.esp + (k - 1))]
<1> DEFINE s == WordsIn(mem, regs.ss, base[cur], Depth)
<1>1. InOrder(s)
  BY WordsAre
<1> HIDE DEF s
<1>2. Depth \in Nat /\ n \in 1 .. Depth
  BY InUse
<1>3. /\ Len(s) = Depth
      /\ \A j \in 1 .. n : Reverse(SubSeq(s, Depth - n + 1, Depth))[j] = s[Depth - j + 1]
  <2>1. s \in [1 .. Depth -> Word]
    BY <1>1 DEF InOrder
  <2>2. QED
    BY <1>2, <2>1, PartOfWords, Zenon
<1>4. Machine!Top(n)[k] = s[Depth - k + 1]
  <2>1. Machine!Top(n) = Reverse(SubSeq(s, Len(s) - n + 1, Len(s)))
    BY <1>1 DEF InOrder, Machine!Top, Machine!Reverse, Reverse
  <2>2. QED
    BY <1>3, <2>1
<1>5. Depth - k + 1 \in 1 .. Depth /\ Depth - k + 1 = Depth - (k - 1)
  BY <1>2
<1>6. s[Depth - k + 1] = mem[Real(regs.ss, base[cur] - (Depth - (k - 1)))]
      /\ s[Depth - k + 1] \in Word
  BY <1>1, <1>5 DEF InOrder
<1>7. Real(regs.ss, regs.esp + (k - 1)) = Real(regs.ss, base[cur] - (Depth - (k - 1)))
  <2>1. k - 1 \in Int
    OBVIOUS
  <2>2. QED
    BY <2>1, TopCell
<1>8. QED
  BY <1>4, <1>6, <1>7

\* Words popped are cut off, whatever becomes of their cells.
LEMMA Popping ==
    ASSUME StackInv, mem \in [Memory -> Word],
           NEW n \in 1 .. 3, Depth >= n,
           mem' = Forgotten(regs.ss, regs.esp, n),
           regs'.ss = regs.ss,
           regs'.esp \in Moved(regs.esp, -n),
           UNCHANGED <<cur, parked, base>>
    PROVE  /\ StackInv' /\ mem' \in [Memory -> Word]
           /\ Machine!Pop(n)
<1> DEFINE at == [k \in 1 .. MaxDepth |-> Real(regs.ss, base[cur] - k)]
<1>1. -n \in -3 .. 3 /\ Depth + (-n) >= 0 /\ Used + (-n) <= MaxDepth
  BY InUse DEF Wide
<1>2. StackInv' /\ (base[cur] - regs'.esp) % Limit = Depth - n
  <2>1. StackInv' /\ DepthOf(cur)' = DepthOf(cur) + (-n)
    BY <1>1, MovePointer
  <2>2. Depth = DepthOf(cur) /\ DepthOf(cur)' = (base[cur] - regs'.esp) % Limit
    BY <2>1, Pointers DEF DepthOf, Ptr
  <2>3. QED
    BY <2>1, <2>2, InUse
<1>3. \A k \in 1 .. n : /\ Depth - (k - 1) \in 1 .. MaxDepth
                       /\ Real(regs.ss, regs.esp + (k - 1)) = at[Depth - (k - 1)]
  <2>1. TAKE k \in 1 .. n
  <2>2. Depth - (k - 1) \in 1 .. MaxDepth
    BY InUse
  <2>3. k - 1 \in Int
    OBVIOUS
  <2>4. QED
    BY <2>2, <2>3, TopCell
<1>4. \A j, k \in 1 .. MaxDepth : at[j] = at[k] => j = k
  <2>1. TAKE j, k \in 1 .. MaxDepth
  <2>2. j \in 1 .. Limit - 1 /\ k \in 1 .. Limit - 1
    BY InUse DEF Limit
  <2>3. QED
    BY <2>2, InUse, CellsDiffer
<1>5. \A k \in 1 .. MaxDepth : at[k] \in Memory
  BY CellsInUse
<1>6. /\ mem' \in [Memory -> Word]
      /\ \A a \in Memory : (\A k \in 1 .. n : at[Depth - (k - 1)] # a) => mem'[a] = mem[a]
  <2>1. 0 \in Word
    BY DEF Word, Limit
  <2>2. mem' \in [Memory -> Word]
    BY <2>1 DEF Forgotten
  <2>3. ASSUME NEW a \in Memory, mem'[a] # mem[a]
        PROVE  \E k \in 1 .. n : at[Depth - (k - 1)] = a
    <3>1. PICK j \in 0 .. n - 1 : Real(regs.ss, regs.esp + j) = a
      BY <2>3 DEF Forgotten
    <3>2. j + 1 \in 1 .. n /\ (j + 1) - 1 = j
      OBVIOUS
    <3> HIDE DEF at
    <3>3. QED
      BY <1>3, <3>1, <3>2
  <2>4. QED
    BY <2>2, <2>3
<1>7. \A k \in 1 .. Depth - n : k \in 1 .. MaxDepth /\ mem'[at[k]] = mem[at[k]]
  <2>1. TAKE k \in 1 .. Depth - n
  <2>2. k \in 1 .. MaxDepth
    BY InUse
  <2>3. \A j \in 1 .. n : Depth - (j - 1) # k
    BY InUse
  <2> HIDE DEF at
  <2>4. QED
    BY <1>3, <1>4, <1>5, <1>6, <2>2, <2>3
<1> DEFINE s == WordsIn(mem, regs.ss, base[cur], Depth)
<1>8. /\ InOrder(s) /\ s \in [1 .. Depth -> Word]
      /\ \A k \in 1 .. Depth : k \in 1 .. MaxDepth /\ s[k] = mem[at[k]]
  <2>1. \A k \in 1 .. Depth : k \in 1 .. MaxDepth
    BY InUse
  <2>2. InOrder(s)
    BY WordsAre
  <2> HIDE DEF s
  <2>3. QED
    BY <2>1, <2>2 DEF InOrder
<1>9. WordsIn(mem', regs.ss, base[cur], Depth - n) = [k \in 1 .. Depth - n |-> mem'[at[k]]]
  BY <1>7 DEF WordsIn
<1> HIDE DEF s, at
<1>10. WordsIn(mem', regs.ss, base[cur], Depth - n) = SubSeq(s, 1, Depth - n)
  <2>1. \A k \in 1 .. Depth - n : k \in 1 .. Depth
    BY InUse
  <2>2. Depth \in Nat /\ n \in 1 .. Depth
    BY InUse
  <2>3. SubSeq(s, 1, Depth - n) = [k \in 1 .. Depth - n |-> s[k]]
    BY <1>8, <2>2, CutWords
  <2>4. QED
    BY <1>7, <1>8, <1>9, <2>1, <2>3
<1>11. \A k \in 1 .. MaxDepth :
          mem'[Real(parked.ss, base[3 - cur] - k)] = mem[Real(parked.ss, base[3 - cur] - k)]
  <2>1. \A j, k \in 1 .. MaxDepth : at[j] # Real(parked.ss, base[3 - cur] - k)
    BY CellsInUse DEF at
  <2>2. QED
    BY <1>3, <1>6, <2>1, CellsInUse
<1>12. WordsIn(mem', parked.ss, base[3 - cur], Used - Depth)
        = WordsIn(mem, parked.ss, base[3 - cur], Used - Depth)
  BY <1>11, InUse, SameContents, SMTT(20)
<1>14. <<StackNo(1), StackNo(2)>>' = [<<StackNo(1), StackNo(2)>> EXCEPT ![cur] = SubSeq(s, 1, Depth - n)]
  <2>1. cur \in {1, 2} /\ Used - Depth = (base[3 - cur] - parked.esp) % Limit
    BY InUse
  <2>2. WordsIn(mem', parked.ss, base[3 - cur], (base[3 - cur] - parked.esp) % Limit)
          = WordsIn(mem, parked.ss, base[3 - cur], (base[3 - cur] - parked.esp) % Limit)
    BY <1>12, <2>1
  <2>3. QED
    BY <1>2, <1>10, <2>1, <2>2, StacksMove, Zenon
<1>15. Len(s) = Depth
  <2>1. Depth \in Nat
    BY InUse
  <2>2. QED
    BY <1>8, <2>1, LenProperties
<1>16. QED
  BY <1>2, <1>6, <1>8, <1>14, <1>15 DEF InOrder, Machine!Pop

-----------------------------------------------------------------------------
(* The native instructions. *)

\* The pointer in use is neither moved nor are the stacks exchanged.
LEMMA StacksStay ==
    ASSUME StackInv, regs'.ss = regs.ss, regs'.esp = regs.esp,
           UNCHANGED <<mem, cur, parked, base>>
    PROVE  StackInv' /\ UNCHANGED <<StackNo(1), StackNo(2)>>
<1>1. \A i \in {1, 2} : Ptr(i)'.ss = Ptr(i).ss /\ Ptr(i)'.esp = Ptr(i).esp
  BY DEF Ptr
<1>2. DepthOf(1)' = DepthOf(1) /\ DepthOf(2)' = DepthOf(2)
  BY <1>1 DEF DepthOf
<1>3. StackInv'
  BY <1>1, <1>2 DEF StackInv
<1>4. UNCHANGED <<StackNo(1), StackNo(2)>>
  BY DEF StackNo, WordsOn
<1>5. QED
  BY <1>3, <1>4

\* A step of the called code, after which it goes on.
LEMMA StaysGuest ==
    ASSUME Vm86Inv, Guest, mode' = mode,
           UNCHANGED <<vm86_ie, stray, sys>>,
           RegsInv', StackInv', mem' \in [Memory -> Word]
    PROVE  Vm86Inv'
<1>1. mode' = "guest" /\ stray' = {} /\ vm86_ie' \in {0, IF_BIT}
  BY DEF Guest, Vm86Inv
<1>2. StrayOnlyOutside'
  BY <1>1 DEF StrayOnlyOutside
<1>3. OwnInv'
  BY DEF OwnInv, Vm86Inv
<1>4. QED
  BY <1>1, <1>2, <1>3 DEF Vm86Inv

\* The flags that the program sees, and those that it may change.
LEMMA FlagsSeen ==
    ASSUME NEW ie \in {0, IF_BIT}, NEW u \in 0 .. 3, NEW fl, fl = VM_BIT + ie + u
    PROVE  /\ fl % 16 = ie + u
           /\ (ie + u) % 4 = u /\ ie + u \in Word
           /\ fl - (fl % 4) = VM_BIT + ie
<1>1. ie \in {0, 4}
  BY DEF IF_BIT
<1>2. QED
  BY <1>1 DEF VM_BIT, Word, Limit

\* What the emulator keeps of a word that is popped into the flags is what a
\* CPU with a pinned interrupt flag keeps.
LEMMA FlagsKept ==
    ASSUME RegsInv, vm86_ie \in {0, IF_BIT}, NEW w \in Nat
    PROVE  /\ regs.eflags % 16 \in Word
           /\ PopMasked(w) % 16 = Machine!Pinned(w)
           /\ \E u \in 0 .. 3 : PopMasked(w) = VM_BIT + vm86_ie + u
<1>1. PICK u \in 0 .. 3 : regs.eflags = VM_BIT + vm86_ie + u
  BY DEF RegsInv
<1>2. PICK x \in 0 .. 3 : x = w % 4
  OBVIOUS
<1>3. vm86_ie \in {0, 4}
  BY DEF IF_BIT
<1>4. regs.eflags % 16 = vm86_ie + u
  BY <1>1, <1>3 DEF VM_BIT
<1>5. PopMasked(w) % 16 = vm86_ie + x /\ PopMasked(w) = VM_BIT + vm86_ie + x
  BY <1>2, <1>3 DEF PopMasked, VM_BIT
<1>6. Machine!Pinned(w) = x + vm86_ie
  <2>1. (vm86_ie + u) - ((vm86_ie + u) % 4) = vm86_ie
    BY <1>3
  <2>2. Machine!Pinned(w) = x + ((vm86_ie + u) - ((vm86_ie + u) % 4))
    BY <1>2, <1>4 DEF Machine!Pinned
  <2>3. QED
    BY <2>1, <2>2
<1>7. vm86_ie + u \in Word /\ x + vm86_ie = vm86_ie + x
  BY <1>3 DEF Word, Limit
<1>8. QED
  BY <1>4, <1>5, <1>6, <1>7

LEMMA RunStep ==
    ASSUME Vm86Inv, run
    PROVE  Vm86Inv' /\ Machine!Next
<1>1. mode = "guest" /\ RegsInv /\ StackInv
  BY DEF run, Free, Guest, Vm86Inv
<1>2. PICK j \in Jumps :
         regs' = [regs EXCEPT !.cs = j[1], !.eip = j[2], !.eax = 9,
                              !.eflags = (@ - (@ % 4)) + 3]
  BY DEF run
<1>3. PICK u \in 0 .. 3 : regs.eflags = VM_BIT + vm86_ie + u
  BY <1>1 DEF RegsInv
<1>4. vm86_ie \in {0, IF_BIT} /\ vm86_ie' = vm86_ie
  BY DEF Vm86Inv, run, Kept
<1>5. /\ regs' = [r \in Registers |-> regs'[r]]
      /\ regs'.cs = j[1] /\ regs'.eip = j[2] /\ regs'.eax = 9
      /\ regs'.ss = regs.ss /\ regs'.esp = regs.esp
      /\ regs'.eflags = (regs.eflags - (regs.eflags % 4)) + 3
  BY <1>1, <1>2, RegisterNames DEF RegsInv
<1>6. j[1] \in Word /\ j[2] \in Word /\ j[2] \in Nat
  BY Vm86Assumption DEF Word, Limit
<1>7. regs'.eflags = VM_BIT + vm86_ie + 3
  BY <1>3, <1>4, <1>5, FlagsSeen
<1>8. RegsInv'
  BY <1>4, <1>5, <1>6, <1>7 DEF RegsInv
<1>9. StackInv' /\ UNCHANGED <<StackNo(1), StackNo(2)>>
  BY <1>1, <1>5, StacksStay DEF run, Kept
<1>10. Vm86Inv'
  BY <1>8, <1>9, StaysGuest DEF run, Kept, Free, Vm86Inv
<1>11. regs'.eflags % 16 = Machine!Pinned(3)
  <2>1. /\ regs.eflags % 16 = vm86_ie + u /\ (vm86_ie + u) % 4 = u
        /\ regs'.eflags % 16 = vm86_ie + 3
    <3>1. regs.eflags % 16 = vm86_ie + u
      BY <1>3, <1>4 DEF VM_BIT, IF_BIT
    <3>4. (vm86_ie + u) % 4 = u
      BY <1>3, <1>4, FlagsSeen
    <3>2. regs'.eflags % 16 = vm86_ie + 3
      BY <1>4, <1>7, FlagsSeen
    <3>3. QED
      BY <3>1, <3>2, <3>4
  <2>2. vm86_ie \in Int
    BY <1>4 DEF IF_BIT
  <2>3. QED
    BY <2>1, <2>2 DEF Machine!Pinned
<1>12. Machine!Plain
  <2>1. <<regs.cs, regs.eip>>' \in Machine!Words \X Machine!Words /\ regs'.eax \in Machine!Words
    BY <1>5, <1>6 DEF Machine!Words, Word, Limit
  <2>2. 3 \in Machine!Words
    BY DEF Machine!Words, Limit
  <2>3. cur' = cur
    BY DEF run
  <2>4. QED
    BY <1>9, <1>11, <2>1, <2>2, <2>3 DEF Machine!Plain
<1>13. QED
  BY <1>1, <1>10, <1>12 DEF run, Machine!Next, Machine!Instruction

LEMMA PushStep ==
    ASSUME Vm86Inv, push
    PROVE  Vm86Inv' /\ Machine!Next
<1>1. mode = "guest" /\ RegsInv /\ StackInv /\ mem \in [Memory -> Word]
  BY DEF push, Free, Guest, Vm86Inv
<1>2. PICK w \in Pushed : NativePush(<<w>>)
  BY DEF push
<1>3. w \in Word /\ <<w>> \in Seq(Word) /\ Len(<<w>>) = 1
  BY Vm86Assumption
<1>4. /\ regs' = [r \in Registers |-> regs'[r]]
      /\ \A r \in Registers : r # "esp" => regs'[r] = regs[r]
      /\ regs'.esp \in Moved(regs.esp, 1)
  <2>1. regs' = [regs EXCEPT !.esp = SP(-1)]
    BY DEF push
  <2>2. SP(-1) \in Moved(regs.esp, 1)
    BY <1>1, InUse, Moves
  <2>3. QED
    BY <1>1, <2>1, <2>2, RegisterNames DEF RegsInv
<1>5. /\ regs'.cs = regs.cs /\ regs'.eip = regs.eip /\ regs'.eflags = regs.eflags
      /\ regs'.ss = regs.ss /\ regs'.eax = regs.eax
  BY <1>4, RegisterNames
<1>6. RegsInv'
  BY <1>1, <1>4, <1>5 DEF RegsInv, push, Kept
<1>7. StackInv' /\ mem' \in [Memory -> Word] /\ Machine!Push(<<w>>)
  <2>1. Used + 1 <= MaxDepth
        /\ mem' = Stored(mem, <<w>>, [k \in DOMAIN <<w>> |-> Real(regs.ss, Less(regs.esp, k))])
    BY <1>2, <1>3 DEF NativePush
  <2>2. UNCHANGED <<cur, parked, base>>
    BY DEF push, Kept
  <2>3. 1 \in 1 .. 3
    OBVIOUS
  <2>4. QED
    BY <1>1, <1>3, <1>4, <1>5, <2>1, <2>2, <2>3, Pushing
<1>8. Vm86Inv'
  BY <1>6, <1>7, StaysGuest DEF push, Kept, Free
<1>9. Machine!Plain
  <2>1. w \in Machine!Words
    BY <1>3 DEF Machine!Words, Word
  <2>2. UNCHANGED <<<<regs.cs, regs.eip>>, regs.eflags % 16, cur, regs.eax>>
    BY <1>5 DEF push
  <2>3. QED
    BY <1>7, <2>1, <2>2 DEF Machine!Plain
<1>10. QED
  BY <1>1, <1>8, <1>9 DEF push, Machine!Next, Machine!Instruction

LEMMA PopStep ==
    ASSUME Vm86Inv, pop
    PROVE  Vm86Inv' /\ Machine!Next
<1>1. mode = "guest" /\ RegsInv /\ StackInv /\ mem \in [Memory -> Word]
  BY DEF pop, Free, Guest, Vm86Inv
<1>2. /\ regs' = [r \in Registers |-> regs'[r]]
      /\ \A r \in Registers : r # "esp" => regs'[r] = regs[r]
      /\ regs'.esp \in Moved(regs.esp, -1)
  <2>1. SP(1) \in Moved(regs.esp, -1)
    BY <1>1, InUse, Moves
  <2>2. QED
    BY <1>1, <2>1, RegisterNames DEF RegsInv, pop
<1>3. /\ regs'.cs = regs.cs /\ regs'.eip = regs.eip /\ regs'.eflags = regs.eflags
      /\ regs'.ss = regs.ss /\ regs'.eax = regs.eax
  BY <1>2, RegisterNames
<1>4. RegsInv'
  BY <1>1, <1>2, <1>3 DEF RegsInv, pop, Kept
<1>5. StackInv' /\ mem' \in [Memory -> Word] /\ Machine!Pop(1)
  <2>1. Depth >= 1
    BY <1>1, InUse DEF pop
  <2>2. mem' = Forgotten(regs.ss, regs.esp, 1) /\ UNCHANGED <<cur, parked, base>>
    BY DEF pop, Kept
  <2>3. 1 \in 1 .. 3
    OBVIOUS
  <2>4. QED
    BY <1>1, <1>2, <1>3, <2>1, <2>2, <2>3, Popping
<1>6. Vm86Inv'
  BY <1>4, <1>5, StaysGuest DEF pop, Kept, Free
<1>7. Machine!Plain
  BY <1>3, <1>5 DEF Machine!Plain, pop
<1>8. QED
  BY <1>1, <1>6, <1>7 DEF pop, Machine!Next, Machine!Instruction

LEMMA SwitchStep ==
    ASSUME Vm86Inv, switch_stack
    PROVE  Vm86Inv' /\ Machine!Next
<1>1. mode = "guest" /\ RegsInv /\ StackInv /\ mem \in [Memory -> Word] /\ cur \in {1, 2}
  BY DEF switch_stack, Free, Guest, Vm86Inv, StackInv
<1>2. PICK esp \in {parked.esp, (regs.esp - (regs.esp % Limit)) + (parked.esp % Limit)} :
         regs' = [regs EXCEPT !.ss = parked.ss, !.esp = esp]
  BY DEF switch_stack
<1>3. /\ regs' = [r \in Registers |-> regs'[r]]
      /\ \A r \in Registers : r \notin {"ss", "esp"} => regs'[r] = regs[r]
      /\ regs'.ss = parked.ss /\ regs'.esp = esp
  BY <1>1, <1>2, RegisterNames DEF RegsInv
<1>4. /\ regs'.cs = regs.cs /\ regs'.eip = regs.eip /\ regs'.eflags = regs.eflags
      /\ regs'.eax = regs.eax
  BY <1>3, RegisterNames
<1>5. RegsInv'
  BY <1>1, <1>3, <1>4 DEF RegsInv, switch_stack, Kept
\* Whichever way the pointer is loaded, it is the same at 64K.
<1>6. /\ parked.esp \in 0 .. Wide - 1 /\ regs.esp \in 0 .. Wide - 1
      /\ base[1] \in Int /\ base[2] \in Int
  <2>1. 3 - cur \in {1, 2}
    BY <1>1
  <2>2. QED
    BY <1>1, <2>1, Pointers DEF Word, Limit
<1>7. esp \in 0 .. Wide - 1 /\ (esp - parked.esp) % Limit = 0
  <2>1. PICK q \in 0 .. 3, t \in 0 .. 15 : regs.esp = 16 * q + t
    BY <1>6 DEF Wide
  <2>2. PICK u \in 0 .. 3, y \in 0 .. 15 : parked.esp = 16 * u + y
    BY <1>6 DEF Wide
  <2>3. regs.esp % Limit = t /\ parked.esp % Limit = y
    BY <2>1, <2>2 DEF Limit
  <2>4. esp = 16 * u + y \/ esp = 16 * q + y
    BY <2>1, <2>2, <2>3
  <2>5. QED
    BY <2>2, <2>4 DEF Limit, Wide
<1>8. ASSUME NEW i \in {1, 2}
      PROVE  /\ i = cur => /\ Ptr(i)' = [ss |-> regs.ss, esp |-> regs.esp]
                           /\ Ptr(i).ss = regs.ss /\ Ptr(i).esp = regs.esp
             /\ i = 3 - cur => /\ Ptr(i)'.ss = parked.ss /\ Ptr(i)'.esp = esp
                               /\ Ptr(i) = parked
  <2>1. parked' = [ss |-> regs.ss, esp |-> regs.esp] /\ cur' = 3 - cur /\ cur # 3 - cur
    BY <1>1 DEF switch_stack
  <2>2. QED
    BY <1>3, <2>1 DEF Ptr
<1>9. \A i \in {1, 2} :
         /\ Ptr(i)'.ss = Ptr(i).ss /\ Ptr(i)'.esp \in 0 .. Wide - 1
         /\ (base[i] - Ptr(i)'.esp) % Limit = (base[i] - Ptr(i).esp) % Limit
  <2>1. ASSUME NEW i \in {1, 2}
        PROVE  /\ Ptr(i)'.ss = Ptr(i).ss /\ Ptr(i)'.esp \in 0 .. Wide - 1
               /\ (base[i] - Ptr(i)'.esp) % Limit = (base[i] - Ptr(i).esp) % Limit
    <3>1. i = cur \/ i = 3 - cur
      BY <1>1
    <3>2. CASE i = cur
      BY <1>6, <1>8, <3>2
    <3>3. CASE i = 3 - cur
      <4>1. ASSUME NEW b \in Int, NEW x \in Int, NEW y \in Int, (x - y) % Limit = 0
            PROVE  (b - x) % Limit = (b - y) % Limit
        BY <4>1 DEF Limit
      <4>2. base[i] \in Int /\ esp \in Int /\ parked.esp \in Int
        BY <1>6, <1>7 DEF Wide
      <4>3. (base[i] - esp) % Limit = (base[i] - parked.esp) % Limit
        BY <1>7, <4>1, <4>2
      <4>4. QED
        BY <1>7, <1>8, <3>3, <4>3
    <3>4. QED
      BY <3>1, <3>2, <3>3
  <2>2. QED
    BY <2>1
<1>10. StackInv'
  <2>1. DepthOf(1)' = DepthOf(1) /\ DepthOf(2)' = DepthOf(2)
    BY <1>9 DEF DepthOf, switch_stack, Kept
  <2>2. cur' \in {1, 2} /\ base' = base
    BY <1>1 DEF switch_stack, Kept
  <2>3. QED
    BY <1>1, <1>9, <2>1, <2>2 DEF StackInv
<1>11. UNCHANGED <<StackNo(1), StackNo(2)>>
  <2>1. cur' \in {1, 2} /\ base' = base /\ mem' = mem
    BY <1>1 DEF switch_stack, Kept
  <2>2. /\ StackNo(1) = Contents(Ptr(1), base[1]) /\ StackNo(1)' = Contents(Ptr(1), base[1])'
        /\ StackNo(2) = Contents(Ptr(2), base[2]) /\ StackNo(2)' = Contents(Ptr(2), base[2])'
    BY <1>1, <2>1, StacksAre DEF StackNo, WordsOn, WordsIn, Ptr, Contents
  <2>3. QED
    BY <1>9, <2>1, <2>2 DEF Contents, WordsIn
<1>12. Vm86Inv'
  BY <1>1, <1>5, <1>10, StaysGuest DEF switch_stack, Kept, Free
<1>13. Machine!Plain
  BY <1>4, <1>11 DEF Machine!Plain, switch_stack
<1>14. QED
  BY <1>1, <1>12, <1>13 DEF switch_stack, Machine!Next, Machine!Instruction

LEMMA FarCallStep ==
    ASSUME Vm86Inv, far_call
    PROVE  Vm86Inv' /\ Machine!Next
<1>1. mode = "guest" /\ RegsInv /\ StackInv /\ mem \in [Memory -> Word]
  BY DEF far_call, Guest, Vm86Inv
<1> DEFINE ws == <<regs.cs, (regs.eip + 5) % Limit>>
<1>2. PICK j \in Jumps :
         /\ NativePush(ws)
         /\ regs' = [regs EXCEPT !.esp = SP(-2), !.cs = j[1], !.eip = j[2]]
  BY DEF far_call
<1>3. ws \in Seq(Word) /\ Len(ws) = 2
  <2>1. regs.cs \in Word /\ (regs.eip + 5) % Limit \in Word
    BY <1>1 DEF RegsInv, Word, Limit
  <2>2. QED
    BY <2>1
<1> HIDE DEF ws
<1>4. j[1] \in Word /\ j[2] \in Word /\ j[2] \in Nat
  BY Vm86Assumption DEF Word, Limit
<1>5. /\ regs' = [r \in Registers |-> regs'[r]]
      /\ regs'.cs = j[1] /\ regs'.eip = j[2] /\ regs'.eflags = regs.eflags
      /\ regs'.ss = regs.ss /\ regs'.eax = regs.eax
      /\ regs'.esp \in Moved(regs.esp, 2)
  <2>1. SP(-2) \in Moved(regs.esp, 2)
    BY <1>1, InUse, Moves
  <2>2. QED
    BY <1>1, <1>2, <2>1, RegisterNames DEF RegsInv
<1>6. RegsInv'
  BY <1>1, <1>4, <1>5 DEF RegsInv, far_call, Kept
<1>7. StackInv' /\ mem' \in [Memory -> Word] /\ Machine!Push(ws)
  <2>1. Used + 2 <= MaxDepth
        /\ mem' = Stored(mem, ws, [k \in DOMAIN ws |-> Real(regs.ss, Less(regs.esp, k))])
    BY <1>2, <1>3 DEF NativePush
  <2>2. UNCHANGED <<cur, parked, base>>
    BY DEF far_call, Kept
  <2>3. 2 \in 1 .. 3
    OBVIOUS
  <2>4. QED
    BY <1>1, <1>3, <1>5, <2>1, <2>2, <2>3, Pushing
<1>8. Vm86Inv'
  BY <1>6, <1>7, StaysGuest DEF far_call, Kept
<1>9. Machine!Plain
  <2>1. <<regs.cs, regs.eip>>' \in Machine!Words \X Machine!Words
    BY <1>4, <1>5 DEF Machine!Words, Word
  <2>2. UNCHANGED <<regs.eflags % 16, cur, regs.eax>>
    BY <1>5 DEF far_call
  <2>3. ws = << <<regs.cs, regs.eip>>[1], (<<regs.cs, regs.eip>>[2] + 5) % Limit >>
    BY DEF ws
  <2>4. QED
    BY <1>7, <2>1, <2>2, <2>3 DEF Machine!Plain
<1>10. QED
  BY <1>1, <1>8, <1>9 DEF far_call, Machine!Next, Machine!Instruction

LEMMA FarReturnStep ==
    ASSUME Vm86Inv, far_return
    PROVE  Vm86Inv' /\ Machine!Next
<1>1. mode = "guest" /\ RegsInv /\ StackInv /\ mem \in [Memory -> Word]
  BY DEF far_return, Free, Guest, Vm86Inv
<1>2. /\ regs' = [r \in Registers |-> regs'[r]]
      /\ regs'.eip = mem[Real(regs.ss, regs.esp)]
      /\ regs'.cs = mem[Real(regs.ss, regs.esp + 1)]
      /\ regs'.eflags = regs.eflags /\ regs'.ss = regs.ss /\ regs'.eax = regs.eax
      /\ regs'.esp \in Moved(regs.esp, -2)
  <2>1. SP(2) \in Moved(regs.esp, -2)
    BY <1>1, InUse, Moves
  <2>2. QED
    BY <1>1, <2>1, RegisterNames DEF RegsInv, far_return
<1>3. Depth >= 2
  BY DEF far_return
<1>4. /\ regs'.eip \in Word /\ regs'.eip = Machine!Top(2)[1]
      /\ regs'.cs \in Word /\ regs'.cs = Machine!Top(2)[2]
  <2>1. /\ 2 \in 1 .. 3 /\ 1 \in 1 .. 2 /\ 2 \in 1 .. 2
        /\ regs.esp + (1 - 1) = regs.esp /\ regs.esp + (2 - 1) = regs.esp + 1
    BY <1>1, InUse
  <2>2. /\ mem[Real(regs.ss, regs.esp + (1 - 1))] \in Word
        /\ Machine!Top(2)[1] = mem[Real(regs.ss, regs.esp + (1 - 1))]
    BY <1>1, <1>3, <2>1, Topmost
  <2>3. /\ mem[Real(regs.ss, regs.esp + (2 - 1))] \in Word
        /\ Machine!Top(2)[2] = mem[Real(regs.ss, regs.esp + (2 - 1))]
    BY <1>1, <1>3, <2>1, Topmost
  <2>4. QED
    BY <1>2, <2>1, <2>2, <2>3
<1>5. RegsInv'
  <2>1. regs'.eip \in Nat
    BY <1>4 DEF Word, Limit
  <2>2. QED
    BY <1>1, <1>2, <1>4, <2>1 DEF RegsInv, far_return, Kept
<1>6. StackInv' /\ mem' \in [Memory -> Word] /\ Machine!Pop(2)
  <2>1. mem' = Forgotten(regs.ss, regs.esp, 2) /\ UNCHANGED <<cur, parked, base>>
    BY DEF far_return, Kept
  <2>2. 2 \in 1 .. 3
    OBVIOUS
  <2>3. QED
    BY <1>1, <1>2, <1>3, <2>1, <2>2, Popping
<1>7. Vm86Inv'
  BY <1>5, <1>6, StaysGuest DEF far_return, Kept, Free
<1>8. Machine!Plain
  <2>1. <<regs.cs, regs.eip>>' = <<Machine!Top(2)[2], Machine!Top(2)[1]>>
    BY <1>4
  <2>2. UNCHANGED <<regs.eflags % 16, cur, regs.eax>>
    BY <1>2 DEF far_return
  <2>3. QED
    BY <1>6, <2>1, <2>2 DEF Machine!Plain
<1>9. QED
  BY <1>1, <1>7, <1>8 DEF far_return, Machine!Next, Machine!Instruction

-----------------------------------------------------------------------------
(* The instructions that trap. *)

\* The frame is the registers, with eip behind the instruction.
LEMMA BehindIs ==
    ASSUME RegsInv, NEW n \in Nat
    PROVE  /\ Frame(regs) = regs
           /\ Behind(n) = [regs EXCEPT !.eip = @ + n]
           /\ Behind(n) = [r \in Registers |-> Behind(n)[r]]
           /\ \A r \in Registers : r # "eip" => Behind(n)[r] = regs[r]
           /\ Behind(n).eip = regs.eip + n /\ Behind(n).eip \in Nat
           /\ Behind(n).cs = regs.cs /\ Behind(n).ss = regs.ss /\ Behind(n).esp = regs.esp
           /\ Behind(n).eflags = regs.eflags /\ Behind(n).eax = regs.eax
<1>1. regs = [r \in Registers |-> regs[r]] /\ regs.eip \in Nat
  BY DEF RegsInv
<1>2. Frame(regs) = regs
  BY <1>1, TrapIdentity
<1>3. Behind(n) = [regs EXCEPT !.eip = @ + n]
  BY <1>2 DEF Behind
<1>4. QED
  BY <1>1, <1>2, <1>3, RegisterNames

LEMMA ReturnIs ==
    ASSUME NEW g, g = [r \in Registers |-> g[r]], Return(g)
    PROVE  mode' = mode /\ regs' = g
BY TrapIdentity DEF Return

\* What a trap leaves alone.
LEMMA TrapKeeps ==
    ASSUME Vm86Inv, NEW n, NEW places, Emulated(n, places)
    PROVE  /\ Guest /\ mode = "guest" /\ RegsInv /\ StackInv /\ mem \in [Memory -> Word]
           /\ UNCHANGED <<vm86_ie, cur, parked, base, stray, sys>>
           /\ vm86_ie \in {0, IF_BIT}
BY DEF Emulated, Trap, Guest, Vm86Inv

\* Words that a trap pushes are on the stack of the machine.
LEMMA TrapPushes ==
    ASSUME Vm86Inv, NEW n \in Nat, NEW places, NEW ws \in Seq(Word),
           NEW k \in 1 .. 3, Len(ws) = k, NEW eip \in Nat, NEW cs \in Word,
           PushAndGo(n, places, ws, eip, cs)
    PROVE  /\ Vm86Inv' /\ mode = "guest" /\ mode' = mode
           /\ Machine!Push(ws)
           /\ regs'.cs = cs /\ regs'.eip = eip /\ regs'.eflags = regs.eflags
           /\ regs'.eax = regs.eax /\ cur' = cur /\ bus' = <<"none">>
<1> DEFINE f == Behind(n)
           g == [f EXCEPT !.esp = Less(@, k), !.eip = eip, !.cs = cs]
<1>1. /\ Emulated(n, places) /\ Used + k <= MaxDepth
      /\ PushExact(f, k) /\ mem' = PushS(mem, f, ws) /\ Return(g) /\ bus' = <<"none">>
  BY DEF PushAndGo
<1>2. /\ Guest /\ mode = "guest" /\ RegsInv /\ StackInv /\ mem \in [Memory -> Word]
      /\ UNCHANGED <<vm86_ie, cur, parked, base, stray, sys>>
      /\ vm86_ie \in {0, IF_BIT}
  BY <1>1, TrapKeeps, Zenon
<1>3. /\ f = [r \in Registers |-> f[r]]
      /\ f.ss = regs.ss /\ f.esp = regs.esp
      /\ f.eflags = regs.eflags /\ f.eax = regs.eax
  BY <1>2, BehindIs
<1> HIDE DEF f
<1>4. /\ g = [r \in Registers |-> g[r]]
      /\ g.cs = cs /\ g.eip = eip /\ g.ss = regs.ss /\ g.esp = Less(regs.esp, k)
      /\ g.eflags = regs.eflags /\ g.eax = regs.eax
  BY <1>3, RegisterNames
<1> HIDE DEF g
<1>5. mode' = mode /\ regs' = g
  BY <1>1, <1>4, ReturnIs, Zenon
<1>6. RegsInv'
  BY <1>2, <1>4, <1>5 DEF RegsInv
<1>7. mem' = Stored(mem, ws, [j \in DOMAIN ws |-> Real(regs.ss, Less(regs.esp, j))])
  <2>1. \A j \in DOMAIN ws : j \in 1 .. k
    OBVIOUS
  <2>2. \A j \in DOMAIN ws : Linear(f.ss, Less(f.esp, j)) = Real(regs.ss, Less(regs.esp, j))
    BY <1>1, <1>3, <2>1 DEF PushExact, Exact
  <2>3. [j \in DOMAIN ws |-> Linear(f.ss, Less(f.esp, j))]
          = [j \in DOMAIN ws |-> Real(regs.ss, Less(regs.esp, j))]
    BY <2>2
  <2>4. QED
    BY <1>1, <2>3, Zenon DEF PushS
<1>8. StackInv' /\ mem' \in [Memory -> Word] /\ Machine!Push(ws)
  <2>1. regs'.ss = regs.ss /\ regs'.esp \in Moved(regs.esp, k)
    BY <1>2, <1>4, <1>5, InUse, Moves DEF Less
  <2>2. QED
    BY <1>1, <1>2, <1>7, <2>1, Pushing
<1>9. Vm86Inv'
  BY <1>2, <1>5, <1>6, <1>8, StaysGuest
<1>10. QED
  BY <1>1, <1>2, <1>4, <1>5, <1>8, <1>9

\* Words that a trap pops are those on top of the stack of the machine.
LEMMA TrapPops ==
    ASSUME Vm86Inv, NEW n \in Nat, NEW places, NEW k \in 1 .. 3, NEW g,
           Emulated(n, places), Depth >= k, PopExact(Behind(n), k),
           g = [r \in Registers |-> g[r]],
           g.ss = regs.ss, g.esp = (regs.esp + k) % Wide,
           g.cs \in Word, g.eip \in Nat,
           \E u \in 0 .. 3 : g.eflags = VM_BIT + vm86_ie + u,
           Return(g), mem' = Forgotten(regs.ss, regs.esp, k)
    PROVE  /\ Vm86Inv' /\ mode' = mode /\ regs' = g
           /\ Machine!Pop(k)
<1>1. /\ Guest /\ mode = "guest" /\ RegsInv /\ StackInv /\ mem \in [Memory -> Word]
      /\ UNCHANGED <<vm86_ie, cur, parked, base, stray, sys>>
      /\ vm86_ie \in {0, IF_BIT}
  BY TrapKeeps, Zenon
<1>2. mode' = mode /\ regs' = g
  BY ReturnIs, Zenon
<1>3. RegsInv'
  BY <1>1, <1>2 DEF RegsInv
<1>4. StackInv' /\ mem' \in [Memory -> Word] /\ Machine!Pop(k)
  <2>1. regs'.ss = regs.ss /\ regs'.esp \in Moved(regs.esp, -k)
    BY <1>1, <1>2, InUse, Moves
  <2>2. QED
    BY <1>1, <1>2, <2>1, Popping
<1>5. QED
  BY <1>1, <1>2, <1>3, <1>4, StaysGuest

\* What popS reads.
LEMMA WordsPopped ==
    ASSUME Vm86Inv, NEW n \in Nat, NEW places, NEW k \in 1 .. 3,
           Emulated(n, places), Depth >= k, PopExact(Behind(n), k), NEW j \in 1 .. k
    PROVE  /\ PopS(Behind(n), k)[j] \in Word
           /\ PopS(Behind(n), k)[j] = Machine!Top(j)[j]
<1>1. RegsInv /\ StackInv /\ mem \in [Memory -> Word]
  BY TrapKeeps, Zenon
<1>2. Behind(n).ss = regs.ss /\ Behind(n).esp = regs.esp
  BY <1>1, BehindIs
<1>3. PICK e \in Int : e = regs.esp
  BY <1>1, InUse
<1>4. PopS(Behind(n), k)[j] = mem[Linear(regs.ss, e + j - 1)]
  BY <1>2, <1>3 DEF PopS
<1>5. j - 1 \in 0 .. k - 1 /\ e + j - 1 = e + (j - 1)
  OBVIOUS
<1>6. Linear(regs.ss, e + (j - 1)) = Real(regs.ss, e + (j - 1))
  BY <1>2, <1>3, <1>5 DEF PopExact, Exact
<1>7. /\ mem[Real(regs.ss, e + (j - 1))] \in Word
      /\ Machine!Top(j)[j] = mem[Real(regs.ss, e + (j - 1))]
  <2>1. j \in 1 .. 3 /\ j \in 1 .. j /\ Depth >= j
    BY <1>1, InUse
  <2>2. QED
    BY <1>1, <1>3, <2>1, Topmost
<1>8. QED
  BY <1>4, <1>5, <1>6, <1>7

\* A trap that does nothing to the stack.
LEMMA TrapReturns ==
    ASSUME Vm86Inv, NEW n \in Nat, NEW places, NEW g,
           Emulated(n, places), g = [r \in Registers |-> g[r]],
           \A r \in Registers : r \notin {"eip", "eax"} => g[r] = regs[r],
           g.eip \in Nat, Return(g), UNCHANGED mem
    PROVE  /\ Vm86Inv' /\ mode = "guest" /\ mode' = mode /\ regs' = g
           /\ regs'.cs = regs.cs /\ regs'.eflags = regs.eflags
           /\ UNCHANGED <<StackNo(1), StackNo(2), cur>>
<1>1. /\ Guest /\ mode = "guest" /\ RegsInv /\ StackInv /\ mem \in [Memory -> Word]
      /\ UNCHANGED <<vm86_ie, cur, parked, base, stray, sys>>
      /\ vm86_ie \in {0, IF_BIT}
  BY TrapKeeps, Zenon
<1>2. mode' = mode /\ regs' = g
  BY ReturnIs, Zenon
<1>3. /\ regs'.cs = regs.cs /\ regs'.eflags = regs.eflags
      /\ regs'.ss = regs.ss /\ regs'.esp = regs.esp
  BY <1>2, RegisterNames
<1>4. RegsInv'
  BY <1>1, <1>2, <1>3 DEF RegsInv
<1>5. StackInv' /\ UNCHANGED <<StackNo(1), StackNo(2)>>
  BY <1>1, <1>3, StacksStay
<1>6. Vm86Inv'
  BY <1>1, <1>2, <1>4, <1>5, StaysGuest
<1>7. QED
  BY <1>1, <1>2, <1>3, <1>5, <1>6

LEMMA CliStiStep ==
    ASSUME Vm86Inv, cli_sti
    PROVE  Vm86Inv' /\ Machine!Next
<1>1. PICK p \in Prefix67 : Emulated(1 + p, Places) /\ Return(Behind(1 + p))
  BY DEF cli_sti
<1>2. 1 + p \in Nat /\ 1 + p \in 1 .. 3
  BY DEF Prefix67
<1>3. RegsInv
  BY <1>1, TrapKeeps
<1> DEFINE g == Behind(1 + p)
<1>4. /\ g = [r \in Registers |-> g[r]]
      /\ \A r \in Registers : r # "eip" => g[r] = regs[r]
      /\ g.eip = regs.eip + (1 + p) /\ g.eip \in Nat /\ g.eax = regs.eax
  BY <1>2, <1>3, BehindIs
<1> HIDE DEF g
<1>5. /\ Vm86Inv' /\ mode = "guest" /\ mode' = mode /\ regs' = g
      /\ regs'.cs = regs.cs /\ regs'.eflags = regs.eflags
      /\ UNCHANGED <<StackNo(1), StackNo(2), cur>>
  <2>1. Return(g) /\ UNCHANGED mem
    BY <1>1 DEF g, cli_sti
  <2>2. QED
    BY <1>1, <1>2, <1>4, <2>1, TrapReturns
<1>6. Machine!Step(1 + p)
  BY <1>4, <1>5 DEF Machine!Step
<1>7. Machine!Instruction
  <2>1. UNCHANGED <<regs.eflags % 16, <<StackNo(1), StackNo(2)>>, cur, regs.eax>>
    BY <1>4, <1>5
  <2>2. QED
    BY <1>2, <1>6, <2>1 DEF Machine!Instruction
<1>8. QED
  BY <1>5, <1>7 DEF cli_sti, Machine!Next

LEMMA OutStep ==
    ASSUME Vm86Inv, out_port
    PROVE  Vm86Inv' /\ Machine!Next
<1>1. PICK size \in {2, 4, 6}, imm \in {0, 1}, p \in Prefix67 :
         /\ Emulated(PortLength(size, imm, p), Places)
         /\ bus' = <<"out", size, Behind(PortLength(size, imm, p)).eax % 2^size>>
         /\ Return(Behind(PortLength(size, imm, p)))
         /\ UNCHANGED mem
  BY DEF out_port
<1>2. PICK n \in 1 .. 4 : n = PortLength(size, imm, p)
  BY DEF PortLength, Prefix67
<1>3. RegsInv
  BY <1>1, TrapKeeps
<1> DEFINE g == Behind(n)
<1>4. /\ g = [r \in Registers |-> g[r]]
      /\ \A r \in Registers : r # "eip" => g[r] = regs[r]
      /\ g.eip = regs.eip + n /\ g.eip \in Nat /\ g.eax = regs.eax
  BY <1>3, BehindIs
<1> HIDE DEF g
<1>5. /\ Vm86Inv' /\ mode = "guest" /\ mode' = mode /\ regs' = g
      /\ regs'.cs = regs.cs /\ regs'.eflags = regs.eflags
      /\ UNCHANGED <<StackNo(1), StackNo(2), cur>>
  <2>1. Emulated(n, Places) /\ Return(g) /\ UNCHANGED mem
    BY <1>1, <1>2 DEF g
  <2>2. QED
    BY <1>2, <1>4, <2>1, TrapReturns
<1>6. Machine!Out(size, n)
  <2>1. bus' = <<"out", size, regs.eax % 2^size>>
    BY <1>1, <1>2, <1>4 DEF g
  <2>2. Machine!Step(n)
    BY <1>4, <1>5 DEF Machine!Step
  <2>3. UNCHANGED <<regs.eflags % 16, <<StackNo(1), StackNo(2)>>, cur, regs.eax>>
    BY <1>4, <1>5
  <2>4. QED
    BY <2>1, <2>2, <2>3 DEF Machine!Out
<1>7. QED
  BY <1>5, <1>6 DEF Machine!Next, Machine!Transfer

LEMMA PowerOfTwo ==
    ASSUME NEW size \in {2, 4, 6}
    PROVE  2^size \in Nat \ {0}
<1>1. 2^2 \in Nat \ {0} /\ 2^4 \in Nat \ {0} /\ 2^6 \in Nat \ {0}
  OBVIOUS
<1>2. size = 2 \/ size = 4 \/ size = 6
  OBVIOUS
<1>3. QED
  BY <1>1, <1>2, Zenon

LEMMA InStep ==
    ASSUME Vm86Inv, in_port
    PROVE  Vm86Inv' /\ Machine!Next
<1>1. PICK size \in {2, 4, 6}, imm \in {0, 1}, p \in Prefix67 :
         LET f == Behind(PortLength(size, imm, p)) IN
         /\ Emulated(PortLength(size, imm, p), Places)
         /\ bus' = <<"in", size>>
         /\ \E val \in {0, 2^size - 1} :
               Return([f EXCEPT !.eax = (@ - (@ % 2^size)) + val])
         /\ UNCHANGED mem
  BY DEF in_port
<1>2. PICK n \in 1 .. 4 : n = PortLength(size, imm, p)
  BY DEF PortLength, Prefix67
<1> DEFINE f == Behind(n)
<1>3. PICK val \in {0, 2^size - 1} :
         /\ Emulated(n, Places) /\ UNCHANGED mem
         /\ Return([f EXCEPT !.eax = (@ - (@ % 2^size)) + val])
  BY <1>1, <1>2
<1>4. RegsInv
  BY <1>3, TrapKeeps
<1>5. /\ f = [r \in Registers |-> f[r]]
      /\ \A r \in Registers : r # "eip" => f[r] = regs[r]
      /\ f.eip = regs.eip + n /\ f.eip \in Nat /\ f.eax = regs.eax
  BY <1>4, BehindIs
<1> HIDE DEF f
<1> DEFINE g == [f EXCEPT !.eax = (@ - (@ % 2^size)) + val]
<1>6. /\ g = [r \in Registers |-> g[r]]
      /\ \A r \in Registers : r \notin {"eip", "eax"} => g[r] = regs[r]
      /\ g.eip = regs.eip + n /\ g.eip \in Nat
      /\ g.eax = (regs.eax - (regs.eax % 2^size)) + val
  BY <1>5, RegisterNames
<1>7. Emulated(n, Places) /\ Return(g) /\ UNCHANGED mem /\ n \in Nat
  BY <1>2, <1>3
<1> HIDE DEF g
<1>8. /\ Vm86Inv' /\ mode = "guest" /\ mode' = mode /\ regs' = g
      /\ regs'.cs = regs.cs /\ regs'.eflags = regs.eflags
      /\ UNCHANGED <<StackNo(1), StackNo(2), cur>>
  BY <1>6, <1>7, TrapReturns
<1>9. Machine!In(size, val, n)
  <2>1. Machine!Step(n)
    BY <1>6, <1>8 DEF Machine!Step
  <2>2. UNCHANGED <<regs.eflags % 16, <<StackNo(1), StackNo(2)>>, cur>>
    BY <1>8
  <2>3. regs'.eax = regs.eax - (regs.eax % 2^size) + val
    BY <1>6, <1>8
  <2>4. bus' = <<"in", size>>
    BY <1>1
  <2>5. QED
    BY <2>1, <2>2, <2>3, <2>4 DEF Machine!In
<1>10. val \in 0 .. 2^size - 1
  <2>1. 2^size \in Nat \ {0}
    BY PowerOfTwo
  <2>2. QED
    BY <2>1
<1>11. QED
  BY <1>8, <1>9, <1>10 DEF Machine!Next, Machine!Transfer

\* The flags are a word.
LEMMA FlagsWord ==
    ASSUME Vm86Inv, mode = "guest"
    PROVE  PushMasked(regs.eflags) \in Word /\ PushMasked(regs.eflags) = regs.eflags % 16
<1>1. RegsInv /\ vm86_ie \in {0, IF_BIT} /\ 0 \in Nat
  BY DEF Vm86Inv
<1>2. QED
  BY <1>1, FlagsKept DEF PushMasked

LEMMA PushfStep ==
    ASSUME Vm86Inv, pushf
    PROVE  Vm86Inv' /\ Machine!Next
<1>1. PICK p \in Prefix67 :
         PushAndGo(1 + p, Places, <<PushMasked(Behind(1 + p).eflags)>>,
                   Behind(1 + p).eip, Behind(1 + p).cs)
  BY DEF pushf
<1>2. PICK n \in 1 .. 3 : n = 1 + p
  BY DEF Prefix67
<1>3. mode = "guest" /\ RegsInv
  BY <1>1, TrapKeeps DEF PushAndGo
<1>4. /\ Behind(n).eip = regs.eip + n /\ Behind(n).eip \in Nat /\ Behind(n).cs = regs.cs
      /\ Behind(n).eflags = regs.eflags /\ regs.cs \in Word
  <2>1. n \in Nat
    OBVIOUS
  <2>2. regs.cs \in Word
    BY <1>3 DEF RegsInv
  <2>3. QED
    BY <1>3, <2>1, <2>2, BehindIs
<1> DEFINE ws == <<PushMasked(regs.eflags)>>
<1>5. ws \in Seq(Word) /\ Len(ws) = 1 /\ ws = <<regs.eflags % 16>>
  BY <1>3, FlagsWord
<1>6. PushAndGo(n, Places, ws, regs.eip + n, regs.cs) /\ regs.eip + n \in Nat
  BY <1>1, <1>2, <1>4
<1> HIDE DEF ws
<1>7. /\ Vm86Inv' /\ mode = "guest" /\ mode' = mode
      /\ Machine!Push(ws)
      /\ regs'.cs = regs.cs /\ regs'.eip = regs.eip + n /\ regs'.eflags = regs.eflags
      /\ regs'.eax = regs.eax /\ cur' = cur /\ bus' = <<"none">>
  <2>1. 1 \in 1 .. 3 /\ n \in Nat
    OBVIOUS
  <2>2. QED
    BY <1>4, <1>5, <1>6, <2>1, TrapPushes
<1>8. Machine!PushFlags(n)
  BY <1>5, <1>7 DEF Machine!PushFlags, Machine!Step
<1>9. QED
  BY <1>7, <1>8 DEF Machine!Next, Machine!Instruction

LEMMA PushfdStep ==
    ASSUME Vm86Inv, pushfd
    PROVE  Vm86Inv' /\ Machine!Next
<1>1. PICK p \in Prefix67 :
         PushAndGo(2 + p, Places, <<0, PushMasked(Behind(2 + p).eflags)>>,
                   Behind(2 + p).eip, Behind(2 + p).cs)
  BY DEF pushfd
<1>2. PICK n \in 1 .. 3 : n = 2 + p
  BY DEF Prefix67
<1>3. mode = "guest" /\ RegsInv
  BY <1>1, TrapKeeps DEF PushAndGo
<1>4. /\ Behind(n).eip = regs.eip + n /\ Behind(n).eip \in Nat /\ Behind(n).cs = regs.cs
      /\ Behind(n).eflags = regs.eflags /\ regs.cs \in Word
  <2>1. n \in Nat
    OBVIOUS
  <2>2. regs.cs \in Word
    BY <1>3 DEF RegsInv
  <2>3. QED
    BY <1>3, <2>1, <2>2, BehindIs
<1> DEFINE ws == <<0, PushMasked(regs.eflags)>>
<1>5. ws \in Seq(Word) /\ Len(ws) = 2 /\ ws = <<0, regs.eflags % 16>>
  <2>1. 0 \in Word
    BY DEF Word, Limit
  <2>2. QED
    BY <1>3, <2>1, FlagsWord
<1>6. PushAndGo(n, Places, ws, regs.eip + n, regs.cs) /\ regs.eip + n \in Nat
  BY <1>1, <1>2, <1>4
<1> HIDE DEF ws
<1>7. /\ Vm86Inv' /\ mode = "guest" /\ mode' = mode
      /\ Machine!Push(ws)
      /\ regs'.cs = regs.cs /\ regs'.eip = regs.eip + n /\ regs'.eflags = regs.eflags
      /\ regs'.eax = regs.eax /\ cur' = cur /\ bus' = <<"none">>
  <2> DEFINE e == regs.eip + n
             c == regs.cs
  <2>1. /\ 2 \in 1 .. 3 /\ n \in Nat /\ ws \in Seq(Word) /\ Len(ws) = 2
        /\ e \in Nat /\ c \in Word /\ PushAndGo(n, Places, ws, e, c)
    BY <1>4, <1>5, <1>6
  <2> HIDE DEF e, c
  <2>2. /\ Vm86Inv' /\ mode = "guest" /\ mode' = mode
        /\ Machine!Push(ws)
        /\ regs'.cs = c /\ regs'.eip = e /\ regs'.eflags = regs.eflags
        /\ regs'.eax = regs.eax /\ cur' = cur /\ bus' = <<"none">>
    BY <2>1, TrapPushes, SMTT(30)
  <2>3. QED
    BY <2>2 DEF e, c
<1>8. Machine!PushFlagsD(n)
  BY <1>5, <1>7 DEF Machine!PushFlagsD, Machine!Step
<1>9. QED
  BY <1>7, <1>8 DEF Machine!Next, Machine!Instruction

LEMMA IntStep ==
    ASSUME Vm86Inv, NEW v \in DOMAIN ivt, int_n(v)
    PROVE  Vm86Inv' /\ Machine!Next
<1>0. PICK p \in Prefix67 :
         PushAndGo(2 + p, IntPlaces(p),
                   <<PushMasked(Behind(2 + p).eflags), Behind(2 + p).cs,
                     Behind(2 + p).eip % Limit>>,
                   ivt[v][1], ivt[v][2])
  BY DEF int_n
<1> DEFINE places == IntPlaces(p)
<1> HIDE DEF places
<1>1. PICK n \in 2 .. 3 :
         PushAndGo(n, places,
                   <<PushMasked(Behind(n).eflags), Behind(n).cs, Behind(n).eip % Limit>>,
                   ivt[v][1], ivt[v][2])
  <2>1. 2 + p \in 2 .. 3
    BY DEF Prefix67
  <2>2. QED
    BY <1>0, <2>1 DEF places
<1>2. mode = "guest" /\ RegsInv
  BY <1>1, TrapKeeps DEF PushAndGo
<1>3. /\ Behind(n).eip = regs.eip + n /\ Behind(n).eip \in Nat /\ Behind(n).cs = regs.cs
      /\ Behind(n).eflags = regs.eflags /\ regs.cs \in Word
  <2>1. n \in Nat
    OBVIOUS
  <2>2. regs.cs \in Word
    BY <1>2 DEF RegsInv
  <2>3. QED
    BY <1>2, <2>1, <2>2, BehindIs
<1> DEFINE ws == <<PushMasked(regs.eflags), regs.cs, (regs.eip + n) % Limit>>
<1>4. ws \in Seq(Word) /\ Len(ws) = 3
  <2>1. (regs.eip + n) % Limit \in Word
    BY <1>3 DEF Word, Limit
  <2>2. QED
    BY <1>2, <1>3, <2>1, FlagsWord
<1>5. ws = << regs.eflags % 16, <<regs.cs, regs.eip>>[1], (<<regs.cs, regs.eip>>[2] + n) % Limit >>
  BY <1>2, FlagsWord
<1>6. ivt[v][1] \in Word /\ ivt[v][2] \in Word /\ ivt[v][1] \in Nat /\ v \in Word
  BY Vm86Assumption DEF Word, Limit
<1>7. PushAndGo(n, places, ws, ivt[v][1], ivt[v][2])
  BY <1>1, <1>3
<1> HIDE DEF ws
<1>8. /\ Vm86Inv' /\ mode = "guest" /\ mode' = mode
      /\ Machine!Push(ws)
      /\ regs'.cs = ivt[v][2] /\ regs'.eip = ivt[v][1] /\ regs'.eflags = regs.eflags
      /\ regs'.eax = regs.eax /\ cur' = cur /\ bus' = <<"none">>
  <2>1. 3 \in 1 .. 3 /\ n \in Nat
    OBVIOUS
  <2>2. QED
    BY <1>4, <1>6, <1>7, <2>1, TrapPushes
<1>9. Machine!Interrupt(v, n)
  BY <1>5, <1>8 DEF Machine!Interrupt
<1>10. v \in Machine!Words /\ n \in 1 .. 3
  BY <1>6 DEF Machine!Words, Word
<1>11. QED
  BY <1>8, <1>9, <1>10 DEF Machine!Next, Machine!Instruction

LEMMA PopfStep ==
    ASSUME Vm86Inv, popf
    PROVE  Vm86Inv' /\ Machine!Next
<1>1. PICK p \in Prefix67 :
         LET f == Behind(1 + p) IN
         /\ Emulated(1 + p, Places)
         /\ Depth >= 1
         /\ PopExact(f, 1)
         /\ Return([[f EXCEPT !.eflags = PopMasked(PopS(f, 1)[1])] EXCEPT !.esp = (@ + 1) % Wide])
         /\ mem' = Forgotten(f.ss, f.esp, 1)
         /\ bus' = <<"none">>
  BY DEF popf, PopAndGo
<1>2. PICK n \in 1 .. 3 : n = 1 + p
  BY DEF Prefix67
<1> DEFINE f == Behind(n)
           w == PopS(f, 1)
           g == [[f EXCEPT !.eflags = PopMasked(w[1])] EXCEPT !.esp = (@ + 1) % Wide]
<1>3. /\ Emulated(n, Places) /\ Depth >= 1 /\ PopExact(f, 1) /\ Return(g)
      /\ mem' = Forgotten(f.ss, f.esp, 1) /\ bus' = <<"none">>
  BY <1>1, <1>2
<1>4. mode = "guest" /\ RegsInv /\ vm86_ie \in {0, IF_BIT}
      /\ UNCHANGED cur
  BY <1>3, TrapKeeps
<1>5. /\ f = [r \in Registers |-> f[r]]
      /\ f.eip = regs.eip + n /\ f.eip \in Nat /\ f.cs = regs.cs /\ f.ss = regs.ss
      /\ f.esp = regs.esp /\ f.eax = regs.eax /\ regs.cs \in Word
  <2>1. n \in Nat
    OBVIOUS
  <2>2. regs.cs \in Word
    BY <1>4 DEF RegsInv
  <2>3. QED
    BY <1>4, <2>1, <2>2, BehindIs
<1>6. w[1] \in Word /\ w[1] = Machine!Top(1)[1] /\ w[1] \in Nat
  <2>1. n \in Nat /\ 1 \in 1 .. 3 /\ 1 \in 1 .. 1
    OBVIOUS
  <2>2. w[1] \in Word /\ w[1] = Machine!Top(1)[1]
    BY <1>3, <2>1, WordsPopped
  <2>3. QED
    BY <2>2 DEF Word, Limit
<1> HIDE DEF f, w
<1>7. /\ g = [r \in Registers |-> g[r]]
      /\ g.cs = regs.cs /\ g.eip = regs.eip + n /\ g.ss = regs.ss /\ g.eax = regs.eax
      /\ g.esp = (regs.esp + 1) % Wide /\ g.eflags = PopMasked(w[1])
  BY <1>5, RegisterNames
<1> HIDE DEF g
<1>8. /\ PopMasked(w[1]) % 16 = Machine!Pinned(w[1])
      /\ \E u \in 0 .. 3 : PopMasked(w[1]) = VM_BIT + vm86_ie + u
  BY <1>4, <1>6, FlagsKept
<1>9. Vm86Inv' /\ mode' = mode /\ regs' = g /\ Machine!Pop(1)
  <2>1. n \in Nat /\ 1 \in 1 .. 3 /\ g.eip \in Nat /\ g.cs \in Word
    BY <1>5, <1>7
  <2>2. mem' = Forgotten(regs.ss, regs.esp, 1) /\ PopExact(Behind(n), 1)
    BY <1>3, <1>5 DEF f
  <2>3. \E u \in 0 .. 3 : g.eflags = VM_BIT + vm86_ie + u
    BY <1>7, <1>8
  <2>4. QED
    BY <1>3, <1>7, <2>1, <2>2, <2>3, TrapPops
<1>10. Machine!PopFlags(n)
  BY <1>4, <1>6, <1>7, <1>8, <1>9 DEF Machine!PopFlags, Machine!Step
<1>11. QED
  BY <1>3, <1>4, <1>9, <1>10 DEF Machine!Next, Machine!Instruction

\* The upper word of a double word does not reach the flags.
LEMMA UpperWord ==
    ASSUME NEW a \in Nat, NEW b \in Nat
    PROVE  PopMasked(a + 16 * b) = PopMasked(a)
<1>1. (a + 16 * b) % 4 = a % 4
  OBVIOUS
<1>2. QED
  BY <1>1, Zenon DEF PopMasked

LEMMA PopfdStep ==
    ASSUME Vm86Inv, popfd
    PROVE  Vm86Inv' /\ Machine!Next
<1>1. PICK p \in Prefix67 :
         LET f == Behind(2 + p)
             w == PopS(f, 2)
         IN
         /\ Emulated(2 + p, Places)
         /\ Depth >= 2
         /\ PopExact(f, 2)
         /\ Return([[f EXCEPT !.eflags = PopMasked(w[1] + 16 * w[2])]
                       EXCEPT !.esp = (@ + 2) % Wide])
         /\ mem' = Forgotten(f.ss, f.esp, 2)
         /\ bus' = <<"none">>
  BY DEF popfd, PopAndGo
<1>2. PICK n \in 1 .. 3 : n = 2 + p
  BY DEF Prefix67
<1> DEFINE f == Behind(n)
           w == PopS(f, 2)
           g == [[f EXCEPT !.eflags = PopMasked(w[1] + 16 * w[2])] EXCEPT !.esp = (@ + 2) % Wide]
<1>3. /\ Emulated(n, Places) /\ Depth >= 2 /\ PopExact(f, 2) /\ Return(g)
      /\ mem' = Forgotten(f.ss, f.esp, 2) /\ bus' = <<"none">>
  BY <1>1, <1>2
<1>4. mode = "guest" /\ RegsInv /\ vm86_ie \in {0, IF_BIT}
      /\ UNCHANGED cur
  BY <1>3, TrapKeeps
<1>5. /\ f = [r \in Registers |-> f[r]]
      /\ f.eip = regs.eip + n /\ f.eip \in Nat /\ f.cs = regs.cs /\ f.ss = regs.ss
      /\ f.esp = regs.esp /\ f.eax = regs.eax /\ regs.cs \in Word
  <2>1. n \in Nat
    OBVIOUS
  <2>2. regs.cs \in Word
    BY <1>4 DEF RegsInv
  <2>3. QED
    BY <1>4, <2>1, <2>2, BehindIs
<1>6. w[1] = Machine!Top(1)[1] /\ w[1] \in Nat /\ w[2] \in Nat
  <2>1. n \in Nat /\ 2 \in 1 .. 3 /\ 1 \in 1 .. 2 /\ 2 \in 1 .. 2
    OBVIOUS
  <2>2. w[1] \in Word /\ w[1] = Machine!Top(1)[1]
    BY <1>3, <2>1, WordsPopped
  <2>3. w[2] \in Word
    BY <1>3, <2>1, WordsPopped
  <2>4. QED
    BY <2>2, <2>3 DEF Word, Limit
<1> HIDE DEF f, w
<1>7. /\ g = [r \in Registers |-> g[r]]
      /\ g.cs = regs.cs /\ g.eip = regs.eip + n /\ g.ss = regs.ss /\ g.eax = regs.eax
      /\ g.esp = (regs.esp + 2) % Wide /\ g.eflags = PopMasked(w[1] + 16 * w[2])
  BY <1>5, RegisterNames
<1> HIDE DEF g
<1>8. /\ g.eflags = PopMasked(w[1])
      /\ PopMasked(w[1]) % 16 = Machine!Pinned(w[1])
      /\ \E u \in 0 .. 3 : PopMasked(w[1]) = VM_BIT + vm86_ie + u
  BY <1>4, <1>6, <1>7, UpperWord, FlagsKept
<1>9. Vm86Inv' /\ mode' = mode /\ regs' = g /\ Machine!Pop(2)
  <2>1. n \in Nat /\ 2 \in 1 .. 3 /\ g.eip \in Nat /\ g.cs \in Word
    BY <1>5, <1>7
  <2>2. mem' = Forgotten(regs.ss, regs.esp, 2) /\ PopExact(Behind(n), 2)
    BY <1>3, <1>5 DEF f
  <2>3. \E u \in 0 .. 3 : g.eflags = VM_BIT + vm86_ie + u
    BY <1>8
  <2>4. QED
    BY <1>3, <1>7, <2>1, <2>2, <2>3, TrapPops
<1>10. Machine!PopFlagsD(n)
  BY <1>4, <1>6, <1>7, <1>8, <1>9 DEF Machine!PopFlagsD, Machine!Step
<1>11. QED
  BY <1>3, <1>4, <1>9, <1>10 DEF Machine!Next, Machine!Instruction

LEMMA IretStep ==
    ASSUME Vm86Inv, iret
    PROVE  Vm86Inv' /\ Machine!Next
<1>1. PICK p \in Prefix67 :
         LET f == Behind(1 + p)
             w == PopS(f, 3)
         IN
         /\ Emulated(1 + p, Places)
         /\ Depth >= 3
         /\ PopExact(f, 3)
         /\ Return([[f EXCEPT !.eip = w[1], !.cs = w[2], !.eflags = PopMasked(w[3])]
                       EXCEPT !.esp = (@ + 3) % Wide])
         /\ mem' = Forgotten(f.ss, f.esp, 3)
         /\ bus' = <<"none">>
  BY DEF iret, PopAndGo
<1>2. PICK n \in 1 .. 3 : n = 1 + p
  BY DEF Prefix67
<1> DEFINE f == Behind(n)
           w == PopS(f, 3)
           g == [[f EXCEPT !.eip = w[1], !.cs = w[2], !.eflags = PopMasked(w[3])]
                    EXCEPT !.esp = (@ + 3) % Wide]
<1>3. /\ Emulated(n, Places) /\ Depth >= 3 /\ PopExact(f, 3) /\ Return(g)
      /\ mem' = Forgotten(f.ss, f.esp, 3) /\ bus' = <<"none">>
  BY <1>1, <1>2
<1>4. mode = "guest" /\ RegsInv /\ vm86_ie \in {0, IF_BIT}
      /\ UNCHANGED cur
  BY <1>3, TrapKeeps
<1>5. /\ f = [r \in Registers |-> f[r]]
      /\ f.ss = regs.ss /\ f.esp = regs.esp /\ f.eax = regs.eax
  <2>1. n \in Nat
    OBVIOUS
  <2>2. QED
    BY <1>4, <2>1, BehindIs
<1>6. /\ w[1] = Machine!Top(1)[1] /\ w[1] \in Nat
      /\ w[2] = Machine!Top(2)[2] /\ w[2] \in Word
      /\ w[3] = Machine!Top(3)[3] /\ w[3] \in Nat
  <2>1. n \in Nat /\ 3 \in 1 .. 3 /\ 1 \in 1 .. 3 /\ 2 \in 1 .. 3
    OBVIOUS
  <2>2. w[1] \in Word /\ w[1] = Machine!Top(1)[1]
    BY <1>3, <2>1, WordsPopped
  <2>3. w[2] \in Word /\ w[2] = Machine!Top(2)[2]
    BY <1>3, <2>1, WordsPopped
  <2>4. w[3] \in Word /\ w[3] = Machine!Top(3)[3]
    BY <1>3, <2>1, WordsPopped
  <2>5. QED
    BY <2>2, <2>3, <2>4 DEF Word, Limit
<1> HIDE DEF f, w
<1>7. /\ g = [r \in Registers |-> g[r]]
      /\ g.cs = w[2] /\ g.eip = w[1] /\ g.ss = regs.ss /\ g.eax = regs.eax
      /\ g.esp = (regs.esp + 3) % Wide /\ g.eflags = PopMasked(w[3])
  BY <1>5, RegisterNames
<1> HIDE DEF g
<1>8. /\ PopMasked(w[3]) % 16 = Machine!Pinned(w[3])
      /\ \E u \in 0 .. 3 : PopMasked(w[3]) = VM_BIT + vm86_ie + u
  BY <1>4, <1>6, FlagsKept
<1>9. Vm86Inv' /\ mode' = mode /\ regs' = g /\ Machine!Pop(3)
  <2>1. n \in Nat /\ 3 \in 1 .. 3 /\ g.eip \in Nat /\ g.cs \in Word
    BY <1>6, <1>7
  <2>2. mem' = Forgotten(regs.ss, regs.esp, 3) /\ PopExact(Behind(n), 3)
    BY <1>3, <1>5 DEF f
  <2>3. \E u \in 0 .. 3 : g.eflags = VM_BIT + vm86_ie + u
    BY <1>7, <1>8
  <2>4. QED
    BY <1>3, <1>7, <2>1, <2>2, <2>3, TrapPops
<1>10. Machine!InterruptReturn
  BY <1>4, <1>6, <1>7, <1>8, <1>9 DEF Machine!InterruptReturn
<1>11. QED
  BY <1>3, <1>4, <1>9, <1>10 DEF Machine!Next, Machine!Instruction

LEMMA HltStep ==
    ASSUME Vm86Inv, hlt
    PROVE  Vm86Inv' /\ Machine!Next
<1>1. /\ mode = "guest" /\ stray = {} /\ mem \in [Memory -> Word]
      /\ mode' = "kernel" /\ bus' = <<"none">>
      /\ UNCHANGED <<regs, mem, vm86_ie, sys, cur, parked, base, stray>>
  BY DEF hlt, Trap, Guest, Vm86Inv
<1>2. Vm86Inv'
  BY <1>1 DEF Vm86Inv, OwnInv, StrayOnlyOutside
<1>3. Machine!Halt
  BY <1>1 DEF Machine!Halt, StackNo, WordsOn
<1>4. QED
  BY <1>1, <1>2, <1>3 DEF Machine!Next

LEMMA UnhandledStep ==
    ASSUME Vm86Inv, unhandled
    PROVE  Vm86Inv' /\ Machine!Next
<1>1. /\ mode = "guest" /\ stray = {} /\ mem \in [Memory -> Word]
      /\ mode' = "dead" /\ bus' = <<"none">>
      /\ UNCHANGED <<regs, mem, vm86_ie, sys, cur, parked, base, stray>>
  BY DEF unhandled, Free, Guest, Vm86Inv
<1>2. Vm86Inv'
  BY <1>1 DEF Vm86Inv, OwnInv, StrayOnlyOutside
<1>3. Machine!Halt
  BY <1>1 DEF Machine!Halt, StackNo, WordsOn
<1>4. QED
  BY <1>1, <1>2, <1>3 DEF Machine!Next

-----------------------------------------------------------------------------
(* Where the emulator goes astray. *)

LEMMA LesserOf ==
    ASSUME NEW d \in Int
    PROVE  Min({3, d}) \in Int /\ Min({3, d}) <= 3 /\ Min({3, d}) <= d
<1>1. \E x \in {3, d} : \A y \in {3, d} : x <= y
  BY 3 <= d \/ d <= 3
<1>2. Min({3, d}) \in {3, d} /\ \A y \in {3, d} : Min({3, d}) <= y
  BY <1>1 DEF Min
<1>3. QED
  BY <1>2

\* On the call's own stack no word is missed.
LEMMA OwnStackIsExact ==
    ASSUME StackInv, cur = 1, regs.esp < Limit
    PROVE  /\ \A k \in 0 .. Depth - 1 : Exact(regs.ss, regs.esp + k)
           /\ \A k \in 1 .. MaxDepth - Used : Exact(regs.ss, Less(regs.esp, k))
<1>1. PICK e \in 0 .. 15, b \in 0 .. 15 : e = regs.esp /\ b = base[1] /\ b = First.offset
  <2>1. regs.esp \in 0 .. 15
    BY InUse DEF Limit, Wide
  <2>2. base[1] \in 0 .. 15 /\ base[1] = First.offset
    BY FirstStack DEF StackInv, Word, Limit
  <2>3. QED
    BY <2>1, <2>2
<1>2. regs.ss \in Word /\ regs.ss % (Limit \div Para) = 0
  <2>1. regs.ss = First.segment
    BY DEF StackInv, Ptr
  <2>2. QED
    BY <2>1, FirstStack
<1>3. PICK m \in Int, u \in Int, d \in Nat :
         m = MaxDepth /\ u = Used /\ d = Depth /\ m <= b /\ d <= u /\ u <= m
  <2>1. MaxDepth \in Int /\ MaxDepth <= First.offset
    BY FirstStack DEF Limit
  <2>2. Used \in Int /\ Used - Depth >= 0 /\ Depth \in Nat /\ Used <= MaxDepth
    BY InUse
  <2>3. QED
    BY <1>1, <2>1, <2>2
<1>4. d = b - e
  <2>1. d = (b - e) % Limit
    BY <1>1, <1>3 DEF Depth
  <2>2. QED
    BY <1>3, <2>1 DEF Limit
<1>5. ASSUME NEW k \in 0 .. Depth - 1
      PROVE  Exact(regs.ss, regs.esp + k)
  <2>1. k \in 0 .. d - 1
    BY <1>3
  <2>2. e + k \in Word
    BY <1>4, <2>1 DEF Word, Limit
  <2>3. QED
    BY <1>1, <1>2, <2>2, AlignedIsExact
<1>6. ASSUME NEW k \in 1 .. MaxDepth - Used
      PROVE  Exact(regs.ss, Less(regs.esp, k))
  <2>1. k \in 1 .. m - u
    BY <1>3
  <2>2. k \in 1 .. e
    BY <1>3, <1>4, <2>1
  <2>3. Less(e, k) \in Word
    BY <2>2 DEF Less, Word, Limit, Wide
  <2>4. QED
    BY <1>1, <1>2, <2>3, AlignedIsExact
<1>7. QED
  BY <1>5, <1>6

LEMMA StrayStep ==
    ASSUME Vm86Inv, go_astray
    PROVE  Vm86Inv' /\ UNCHANGED Machine!vars
<1>1. /\ mode = "guest" /\ RegsInv /\ StackInv /\ mem \in [Memory -> Word]
      /\ vm86_ie \in {0, IF_BIT}
      /\ UNCHANGED <<mode, regs, mem, vm86_ie, vm86_init_stackptr, out, bus, sys,
                     cur, parked, base>>
  BY DEF go_astray, Guest, Vm86Inv
<1>2. Frame(regs) = regs
  BY <1>1, TrapIdentity DEF RegsInv
<1>3. Depth \in Int /\ MaxDepth - Used \in Int
  <2>1. PICK d \in Int, u \in Int, m \in Int : d = Depth /\ u = Used /\ m = MaxDepth
    BY <1>1, InUse
  <2>2. QED
    BY <2>1
<1>12. regs' = regs /\ cur' = cur /\ sys' = sys
  BY <1>1
<1>4. ASSUME stray' = {"fetch"} /\ \E n \in Lengths : ~FetchExact(Frame(regs), n)
      PROVE  StrayOnlyOutside'
  <2>1. PICK n \in Lengths, k \in 0 .. 3 : n \in 1 .. 4 /\ k < n /\ ~Exact(regs.cs, regs.eip + k)
    BY <1>2, <1>4 DEF FetchExact, Lengths
  <2>2. ASSUME regs.cs % (Limit \div Para) = 0, ~(regs.eip + 4 > Limit)
        PROVE  FALSE
    <3>1. regs.eip + k \in Word /\ regs.cs \in Word
      BY <1>1, <2>2 DEF RegsInv, Word, Limit
    <3>2. QED
      BY <2>1, <2>2, <3>1, AlignedIsExact
  <2>3. regs.cs % (Limit \div Para) # 0 \/ regs.eip + 4 > Limit
    BY <2>2
  <2>4. stray' \cap {"pop", "push"} = {}
    BY <1>4
  <2>6. ASSUME Here \notin Places
        PROVE  OwnEnd[2] >= Para
    <3>1. PICK o \in 0 .. Para - 1 : o = sys.at.offset /\ sys.at.segment \in Word
      BY DEF Vm86Inv, OwnInv
    <3>2. \/ n = 1 /\ regs.cs = sys.at.segment /\ regs.eip = o + OwnLength
          \/ n = 2 /\ regs.cs = sys.at.segment /\ regs.eip = o /\ OwnLength = 2
          \/ n = 1 /\ Here \in Places
          \/ n = 2 /\ Here \in Places
      BY <2>1, <2>6, <3>1 DEF Lengths, HltPlaces, IntPlaces, Here, OwnStart, OwnEnd, OwnLength
    <3>3. OwnLength \in {2, 5} /\ Para \in {2, 4, 8}
      BY Vm86Assumption DEF OwnLength
    <3>4. regs.eip + k \notin 0 .. Para - 1
      BY <2>1, <2>6, <3>1, <3>2, ParagraphIsExact
    <3>5. o + OwnLength >= Para
      BY <2>1, <2>6, <3>2, <3>3, <3>4
    <3>6. QED
      BY <3>1, <3>5 DEF OwnEnd
  <2>7. (Here \in Places)' = (Here \in Places) /\ OwnEnd' = OwnEnd
    BY <1>12 DEF Here, Places, OwnEnd, OwnLength
  <2>5. QED
    BY <1>12, <2>3, <2>4, <2>6, <2>7, Zenon DEF StrayOnlyOutside
<1>5. ASSUME stray' = {"pop"} /\ \E n \in 1 .. Min({3, Depth}) : ~PopExact(Frame(regs), n)
      PROVE  StrayOnlyOutside'
  <2>1. PICK k \in 0 .. 2 : k < Depth /\ ~Exact(regs.ss, regs.esp + k)
    <3>1. PICK n \in 1 .. Min({3, Depth}) : ~PopExact(regs, n)
      BY <1>2, <1>5
    <3>2. n <= 3 /\ n <= Depth /\ n \in Int
      BY <1>3, LesserOf
    <3>3. QED
      BY <1>3, <3>1, <3>2 DEF PopExact
  <2>2. cur = 1 => regs.esp >= Limit
    <3>1. k \in 0 .. Depth - 1
      BY <1>3, <2>1
    <3>2. regs.esp \in Int
      BY <1>1, InUse
    <3>3. QED
      BY <1>1, <2>1, <3>1, <3>2, OwnStackIsExact DEF Limit
  <2>3. ASSUME regs.ss % (Limit \div Para) = 0, regs.esp \in 3 .. Limit - 3
        PROVE  FALSE
    <3>1. regs.esp + k \in Word /\ regs.ss \in Word
      BY <1>1, <2>3, InUse DEF Word, Limit
    <3>2. QED
      BY <2>1, <2>3, <3>1, AlignedIsExact
  <2>4. \/ regs.esp >= Limit
        \/ cur = 2 /\ (regs.ss % (Limit \div Para) # 0 \/ regs.esp \notin 3 .. Limit - 3)
    BY <1>1, <2>2, <2>3 DEF StackInv
  <2>5. "fetch" \notin stray'
    BY <1>5
  <2>6. QED
    BY <1>12, <2>4, <2>5, Zenon DEF StrayOnlyOutside
<1>6. ASSUME stray' = {"push"} /\ \E n \in 1 .. Min({3, MaxDepth - Used}) : ~PushExact(Frame(regs), n)
      PROVE  StrayOnlyOutside'
  <2>1. PICK k \in 1 .. 3 : k <= MaxDepth - Used /\ ~Exact(regs.ss, Less(regs.esp, k))
    <3>1. PICK n \in 1 .. Min({3, MaxDepth - Used}) : ~PushExact(regs, n)
      BY <1>2, <1>6
    <3>2. n <= 3 /\ n <= MaxDepth - Used /\ n \in Int
      BY <1>3, LesserOf
    <3>3. QED
      BY <1>3, <3>1, <3>2 DEF PushExact
  <2>2. cur = 1 => regs.esp >= Limit
    <3>1. k \in 1 .. MaxDepth - Used
      BY <1>3, <2>1
    <3>2. regs.esp \in Int
      BY <1>1, InUse
    <3>3. QED
      BY <1>1, <2>1, <3>1, <3>2, OwnStackIsExact DEF Limit
  <2>3. ASSUME regs.ss % (Limit \div Para) = 0, regs.esp \in 3 .. Limit - 3
        PROVE  FALSE
    <3>1. PICK e \in 3 .. 13 : e = regs.esp
      BY <2>3 DEF Limit
    <3>3. Less(e, k) \in Word
      BY DEF Less, Word, Limit, Wide
    <3>4. regs.ss \in Word
      BY <1>1, InUse
    <3>2. QED
      BY <2>1, <2>3, <3>1, <3>3, <3>4, AlignedIsExact
  <2>4. \/ regs.esp >= Limit
        \/ cur = 2 /\ (regs.ss % (Limit \div Para) # 0 \/ regs.esp \notin 3 .. Limit - 3)
    BY <1>1, <2>2, <2>3 DEF StackInv
  <2>5. "fetch" \notin stray'
    BY <1>6
  <2>6. QED
    BY <1>12, <2>4, <2>5, Zenon DEF StrayOnlyOutside
<1>7. StrayOnlyOutside'
  <2> DEFINE fetch == stray' = {"fetch"} /\ \E n \in Lengths : ~FetchExact(Frame(regs), n)
             pop_ == stray' = {"pop"} /\ \E n \in 1 .. Min({3, Depth}) : ~PopExact(Frame(regs), n)
             push_ == stray' = {"push"}
                        /\ \E n \in 1 .. Min({3, MaxDepth - Used}) : ~PushExact(Frame(regs), n)
  <2>1. fetch \/ pop_ \/ push_
    BY DEF go_astray
  <2>2. (fetch => StrayOnlyOutside') /\ (pop_ => StrayOnlyOutside') /\ (push_ => StrayOnlyOutside')
    BY <1>4, <1>5, <1>6
  <2> HIDE DEF fetch, pop_, push_
  <2>3. QED
    BY <2>1, <2>2
<1>8. RegsInv' /\ StackInv'
  <2>1. RegsInv'
    BY <1>1 DEF RegsInv
  <2>2. QED
    BY <1>1, <2>1, StacksStay
<1>9. OwnInv'
  BY <1>1 DEF OwnInv, Vm86Inv
<1>10. UNCHANGED Machine!vars
  BY <1>1 DEF Machine!vars, StackNo, WordsOn
<1>11. QED
  BY <1>1, <1>7, <1>8, <1>9, <1>10 DEF Vm86Inv

-----------------------------------------------------------------------------
(* The calls. *)

LEMMA NoWords ==
    ASSUME NEW m, NEW ss, NEW b
    PROVE  WordsIn(m, ss, b, 0) = <<>>
BY DEF WordsIn

LEMMA EntryRegisters ==
    ASSUME NEW code, code.segment \in Word, code.offset \in Word,
           NEW esp, NEW ie \in {0, IF_BIT}, Enter(code, First, esp, ie)
    PROVE  /\ RegsInv'
           /\ regs'.cs = code.segment /\ regs'.eip = code.offset
           /\ regs'.ss = First.segment /\ regs'.esp = esp
           /\ regs'.eflags = VM_BIT + ie /\ regs'.eax = 9
           /\ mode = "kernel" /\ mode' = "guest" /\ cur' = 1 /\ vm86_ie' = ie
           /\ \E s \in OwnStack : parked' = s /\ base' = <<First.offset, s.esp>>
<1> DEFINE g == [r \in Registers |->
          CASE r = "eip" -> code.offset   [] r = "cs" -> code.segment
            [] r = "esp" -> esp           [] r = "ss" -> First.segment
            [] r = "eflags" -> VM_BIT + ie
            [] r = "eax" -> 9             [] r = "error_code" -> 0
            [] OTHER -> At(Fields, r)]
<1>1. /\ mode = "kernel" /\ mode' = "guest" /\ cur' = 1 /\ vm86_ie' = ie
      /\ \E s \in OwnStack : parked' = s /\ base' = <<First.offset, s.esp>>
  BY DEF Enter
<1>2. regs' = g
  BY DEF Enter
<1>3. g = [r \in Registers |-> g[r]]
  OBVIOUS
<1>4. /\ g.cs = code.segment /\ g.eip = code.offset /\ g.ss = First.segment /\ g.esp = esp
      /\ g.eflags = VM_BIT + ie /\ g.eax = 9
  BY RegisterNames
<1> HIDE DEF g
<1>5. RegsInv'
  <2>1. regs'.eip \in Nat
    BY <1>2, <1>4 DEF Word, Limit
  <2>2. regs'.eflags = VM_BIT + vm86_ie' + 0 /\ 0 \in 0 .. 3
    <3>1. VM_BIT + ie = VM_BIT + ie + 0
      BY DEF VM_BIT, IF_BIT
    <3>2. QED
      BY <1>1, <1>2, <1>4, <3>1
  <2>3. QED
    BY <1>2, <1>3, <1>4, <2>1, <2>2 DEF RegsInv
<1>6. QED
  BY <1>1, <1>2, <1>4, <1>5

\* The stacks when n words are on the one of the call.
LEMMA EntryStacks ==
    ASSUME NEW n \in 0 .. MaxDepth, NEW s \in OwnStack,
           cur' = 1, regs'.ss = First.segment, regs'.esp = First.offset - n,
           parked' = s, base' = <<First.offset, s.esp>>
    PROVE  /\ StackInv'
           /\ StackNo(1)' = WordsIn(mem', First.segment, First.offset, n)
           /\ StackNo(2)' = <<>>
<1>1. First.offset \in 0 .. 15 /\ MaxDepth \in 2 .. 15 /\ MaxDepth <= First.offset
  BY FirstStack DEF Word, Limit
<1>2. s.ss \in Word /\ s.esp \in 0 .. 15 /\ s = [ss |-> s.ss, esp |-> s.esp]
  BY Vm86Assumption DEF Word, Limit
<1>3. (First.offset - (First.offset - n)) % Limit = n /\ (s.esp - s.esp) % Limit = 0
  BY <1>1, <1>2 DEF Limit
<1>4. /\ Ptr(1)'.ss = First.segment /\ Ptr(1)'.esp = First.offset - n
      /\ Ptr(2)'.ss = s.ss /\ Ptr(2)'.esp = s.esp
      /\ base'[1] = First.offset /\ base'[2] = s.esp
  BY DEF Ptr
<1>5. DepthOf(1)' = n /\ DepthOf(2)' = 0
  BY <1>3, <1>4 DEF DepthOf
<1>6. StackInv'
  BY <1>1, <1>2, <1>4, <1>5 DEF StackInv, Wide
<1>7. StackNo(1)' = WordsIn(mem', First.segment, First.offset, n)
  BY <1>3 DEF StackNo, WordsOn, WordsIn
<1>8. StackNo(2)' = WordsIn(mem', s.ss, s.esp, 0)
  BY <1>3 DEF StackNo, WordsOn, WordsIn
<1>9. QED
  BY <1>6, <1>7, <1>8, NoWords

\* The words of stack[] lie in front of vm86_stack's end.
LEMMA EntryWords ==
    ASSUME NEW ws \in [1 .. Args -> Word],
           mem' = PushS(Blank, [ss |-> First.segment, esp |-> First.offset], ws)
    PROVE  /\ mem' \in [Memory -> Word]
           /\ WordsIn(mem', First.segment, First.offset, Args) = ws
<1>1. PICK b \in 0 .. 15, m \in 2 .. 15 :
         b = First.offset /\ m = MaxDepth /\ m <= b /\ Args \in 1 .. m
  <2>1. First.offset \in 0 .. 15 /\ MaxDepth \in 2 .. 15 /\ MaxDepth <= First.offset
    BY FirstStack DEF Word, Limit
  <2>2. Args \in Nat \ {0} /\ Args <= MaxDepth
    BY Vm86Assumption, StackAssumption
  <2>3. QED
    BY <2>1, <2>2
<1> DEFINE at == [k \in 1 .. Args |-> Real(First.segment, b - k)]
<1>2. mem' = Stored(Blank, ws, at)
  <2>1. ASSUME NEW k \in 1 .. Args
        PROVE  Linear(First.segment, Less(b, k)) = Real(First.segment, b - k)
    <3>1. k \in 1 .. b
      BY <1>1
    <3>2. Less(b, k) = b - k /\ b - k \in Word
      BY <3>1 DEF Less, Word, Limit, Wide
    <3>3. QED
      BY <3>2, FirstStack, AlignedIsExact DEF Exact
  <2>2. [k \in DOMAIN ws |-> Linear(First.segment, Less(b, k))] = at
    BY <2>1
  <2>3. QED
    BY <1>1, <2>2 DEF PushS
<1>3. \A k \in 1 .. MaxDepth : Real(First.segment, First.offset - k) \in Memory
  BY StackAssumption DEF Cells, First
<1>4. at \in [DOMAIN ws -> Memory]
  BY <1>1, <1>3
<1>5. \A j, k \in DOMAIN ws : at[j] = at[k] => j = k
  <2>1. TAKE j, k \in DOMAIN ws
  <2>2. j \in 1 .. Limit - 1 /\ k \in 1 .. Limit - 1 /\ j \in 1 .. Args /\ k \in 1 .. Args
    BY <1>1 DEF Limit
  <2>3. at[j] = Real(First.segment, b - j) /\ at[k] = Real(First.segment, b - k)
    BY <2>2
  <2>4. QED
    BY <2>2, <2>3, FirstStack, CellsDiffer
<1> HIDE DEF at
<1>6. /\ mem' \in [Memory -> Word]
      /\ \A k \in DOMAIN ws : mem'[at[k]] = ws[k]
  <2>1. Blank \in [Memory -> Word]
    BY DEF Blank, Word, Limit
  <2>2. ws \in Seq(Word)
    BY <1>1, SeqDef
  <2>3. QED
    <3>1. /\ Stored(Blank, ws, at) \in [Memory -> Word]
          /\ \A k \in DOMAIN ws : Stored(Blank, ws, at)[at[k]] = ws[k]
      BY <1>4, <1>5, <2>1, <2>2, StoredIs
    <3>2. QED
      BY <1>2, <3>1
<1>7. QED
  BY <1>1, <1>6 DEF WordsIn, at

\* A call begins with the words ws on its stack.
LEMMA Calling ==
    ASSUME Vm86Inv, NEW code, code.segment \in Word, code.offset \in Word,
           code.offset \in 0 .. Para - 1, sys'.at = code,
           NEW ie \in {0, IF_BIT}, NEW n \in 0 .. MaxDepth,
           Enter(code, First, First.offset - n, ie),
           NEW ws \in {<<>>} \cup [1 .. Args -> Word],
           WordsIn(mem', First.segment, First.offset, n) = ws,
           mem' \in [Memory -> Word], bus' = <<"none">>, UNCHANGED stray
    PROVE  Vm86Inv' /\ Machine!Next
<1>1. /\ RegsInv'
      /\ regs'.cs = code.segment /\ regs'.eip = code.offset
      /\ regs'.ss = First.segment /\ regs'.esp = First.offset - n
      /\ regs'.eflags = VM_BIT + ie /\ regs'.eax = 9
      /\ mode = "kernel" /\ mode' = "guest" /\ cur' = 1 /\ vm86_ie' = ie
      /\ \E s \in OwnStack : parked' = s /\ base' = <<First.offset, s.esp>>
  BY EntryRegisters
<1>2. StackInv' /\ StackNo(1)' = ws /\ StackNo(2)' = <<>>
  <2>1. PICK s \in OwnStack : parked' = s /\ base' = <<First.offset, s.esp>>
    BY <1>1
  <2>2. QED
    BY <1>1, <2>1, EntryStacks
<1>3. stray' = {}
  BY <1>1 DEF Vm86Inv
<1>4. Vm86Inv'
  BY <1>1, <1>2, <1>3 DEF Vm86Inv, OwnInv, StrayOnlyOutside
<1>5. regs'.eflags % 16 \in Machine!Words /\ (regs'.eflags % 16) % 4 = 0
  <2>1. ie \in {0, 4}
    BY DEF IF_BIT
  <2>2. regs'.eflags % 16 = ie
    BY <1>1, <2>1 DEF VM_BIT
  <2>3. QED
    BY <2>1, <2>2 DEF Machine!Words, Limit
<1>6. <<regs'.cs, regs'.eip>> \in Machine!Words \X Machine!Words /\ 9 \in Machine!Words
  BY <1>1 DEF Machine!Words, Word, Limit
<1>7. \E t \in {<<>>} \cup [1 .. Args -> Machine!Words] : <<StackNo(1), StackNo(2)>>' = <<t, <<>>>>
  BY <1>2 DEF Machine!Words, Word
<1>8. Machine!Call
  BY <1>1, <1>5, <1>6, <1>7 DEF Machine!Call
<1>9. QED
  BY <1>4, <1>8 DEF Machine!Next

LEMMA CallIntStep ==
    ASSUME Vm86Inv, callx86int
    PROVE  Vm86Inv' /\ Machine!Next
<1>1. PICK ptr \in PtrIsr, ie \in {0, IF_BIT} :
         /\ Enter(ToSegment(ptr, TRUE), First, First.offset, ie)
         /\ sys' = [call |-> "isr", at |-> ToSegment(ptr, TRUE)]
  BY DEF callx86int, First
<1>2. First.offset = First.offset - 0 /\ 0 \in 0 .. MaxDepth
  BY FirstStack DEF Word, Limit
<1>3. /\ ToSegment(ptr, TRUE).segment \in Word /\ ToSegment(ptr, TRUE).offset \in Word
      /\ ToSegment(ptr, TRUE).offset \in 0 .. Para - 1
  BY CodeStart, Vm86Assumption
<1>4. /\ mem' \in [Memory -> Word]
      /\ WordsIn(mem', First.segment, First.offset, 0) = <<>>
  <2>1. 0 \in Word /\ mem' = Blank
    BY DEF Word, Limit, callx86int
  <2>2. QED
    BY <2>1, NoWords DEF Blank
<1>5. /\ <<>> \in {<<>>} \cup [1 .. Args -> Word]
      /\ bus' = <<"none">> /\ UNCHANGED stray /\ sys'.at = ToSegment(ptr, TRUE)
  BY <1>1 DEF callx86int
<1>6. QED
  BY <1>1, <1>2, <1>3, <1>4, <1>5, Calling

LEMMA CallPtrStep ==
    ASSUME Vm86Inv, callx86ptr
    PROVE  Vm86Inv' /\ Machine!Next
<1>1. PICK ptr \in PtrLc, ws \in [1 .. Args -> Pushed], ie \in {0, IF_BIT} :
         /\ Enter(ToSegment(ptr, TRUE), First, Less(First.offset, Args), ie)
         /\ mem' = PushS(Blank, [ss |-> First.segment, esp |-> First.offset], ws)
         /\ sys' = [call |-> "lc", at |-> ToSegment(ptr, TRUE)]
         /\ bus' = <<"none">> /\ UNCHANGED stray
  BY DEF callx86ptr, First
<1>2. Less(First.offset, Args) = First.offset - Args /\ Args \in 0 .. MaxDepth
  <2>1. First.offset \in 0 .. 15 /\ MaxDepth \in 2 .. 15 /\ MaxDepth <= First.offset
    BY FirstStack DEF Word, Limit
  <2>2. PICK a \in Nat, b \in 0 .. 15, m \in 2 .. 15 :
           a = Args /\ b = First.offset /\ m = MaxDepth /\ m <= b /\ a <= m
    BY <2>1, Vm86Assumption, StackAssumption
  <2>3. a \in 0 .. b /\ a \in 0 .. m
    BY <2>2
  <2>4. (b - a) % 64 = b - a
    BY <2>3
  <2>5. QED
    BY <2>2, <2>3, <2>4 DEF Less, Wide
<1>3. /\ ToSegment(ptr, TRUE).segment \in Word /\ ToSegment(ptr, TRUE).offset \in Word
      /\ ToSegment(ptr, TRUE).offset \in 0 .. Para - 1
  BY CodeStart, Vm86Assumption
<1>4. ws \in [1 .. Args -> Word]
  BY Vm86Assumption
<1>5. /\ mem' \in [Memory -> Word]
      /\ WordsIn(mem', First.segment, First.offset, Args) = ws
  BY <1>1, <1>4, EntryWords
<1>6. ws \in {<<>>} \cup [1 .. Args -> Word] /\ sys'.at = ToSegment(ptr, TRUE)
  BY <1>1, <1>4
<1>7. QED
  BY <1>1, <1>2, <1>3, <1>5, <1>6, Calling

-----------------------------------------------------------------------------
(* Theorems. *)

LEMMA Starts == Init => Vm86Inv /\ Machine!Init
<1> SUFFICES ASSUME Init PROVE Vm86Inv /\ Machine!Init
  OBVIOUS
<1>1. Vm86Inv
  <2>1. mem \in [Memory -> Word]
    BY DEF Init, Blank, Word, Limit
  <2>2. StrayOnlyOutside /\ OwnInv
    <3>1. 0 \in Word /\ 0 \in 0 .. Para - 1
      BY Vm86Assumption DEF Word, Limit
    <3>2. QED
      BY <3>1 DEF Init, OwnInv, StrayOnlyOutside
  <2>3. QED
    BY <2>1, <2>2 DEF Init, Vm86Inv
<1>2. /\ regs.cs = 0 /\ regs.eip = 0 /\ regs.ss = 0 /\ regs.esp = 0
      /\ regs.eflags = 0 /\ regs.eax = 0
  BY RegisterNames DEF Init
<1>3. StackNo(1) = <<>> /\ StackNo(2) = <<>>
  <2>1. /\ cur = 1 /\ base[1] = 0 /\ base[2] = 0 /\ parked.ss = 0 /\ parked.esp = 0
        /\ (0 - 0) % Limit = 0
    BY DEF Init, Limit
  <2>2. StackNo(1) = WordsIn(mem, 0, 0, 0) /\ StackNo(2) = WordsIn(mem, 0, 0, 0)
    BY <1>2, <2>1 DEF StackNo, WordsOn, WordsIn
  <2>3. QED
    BY <2>2, NoWords
<1>4. Machine!Init
  <2>1. (mode = "guest") = FALSE /\ cur = 1 /\ bus = <<"none">>
    BY DEF Init
  <2>2. regs.eflags % 16 = 0
    BY <1>2
  <2>3. QED
    BY <1>2, <1>3, <2>1, <2>2 DEF Machine!Init
<1>5. QED
  BY <1>1, <1>4

\* Each step of the emulator, of the CPU and of the called code is one of the
\* real mode machine, or leaves that as it is.
LEMMA Steps == Vm86Inv /\ [Next]_vars => Vm86Inv' /\ [Machine!Next]_(Machine!vars)
<1> SUFFICES ASSUME Vm86Inv, [Next]_vars
             PROVE  Vm86Inv' /\ [Machine!Next]_(Machine!vars)
  OBVIOUS
<1>1. CASE callx86int
  BY <1>1, CallIntStep
<1>2. CASE callx86ptr
  BY <1>2, CallPtrStep
<1>3. CASE run
  BY <1>3, RunStep
<1>4. CASE push
  BY <1>4, PushStep
<1>5. CASE pop
  BY <1>5, PopStep
<1>6. CASE switch_stack
  BY <1>6, SwitchStep
<1>7. CASE far_call
  BY <1>7, FarCallStep
<1>8. CASE far_return
  BY <1>8, FarReturnStep
<1>9. CASE cli_sti
  BY <1>9, CliStiStep
<1>10. CASE pushf
  BY <1>10, PushfStep
<1>11. CASE popf
  BY <1>11, PopfStep
<1>12. CASE pushfd
  BY <1>12, PushfdStep
<1>13. CASE popfd
  BY <1>13, PopfdStep
<1>14. CASE \E v \in DOMAIN ivt : int_n(v)
  BY <1>14, IntStep
<1>15. CASE iret
  BY <1>15, IretStep
<1>16. CASE out_port
  BY <1>16, OutStep
<1>17. CASE in_port
  BY <1>17, InStep
<1>18. CASE hlt
  BY <1>18, HltStep
<1>19. CASE unhandled
  BY <1>19, UnhandledStep
<1>20. CASE go_astray
  BY <1>20, StrayStep
<1>21. CASE UNCHANGED vars
  <2>1. /\ UNCHANGED <<mode, regs, mem, vm86_ie, vm86_init_stackptr, out, bus>>
        /\ UNCHANGED <<cur, parked, base, stray, sys>>
    BY <1>21 DEF vars
  <2>2. RegsInv => RegsInv'
    BY <2>1 DEF RegsInv
  <2>3. StackInv => StackInv'
    BY <2>1, StacksStay
  <2>4. Vm86Inv'
    BY <2>1, <2>2, <2>3 DEF Vm86Inv, OwnInv, StrayOnlyOutside, Here, Places, OwnEnd, OwnLength
  <2>5. UNCHANGED Machine!vars
    BY <2>1 DEF Machine!vars, StackNo, WordsOn
  <2>6. QED
    BY <2>4, <2>5
<1>22. QED
  BY <1>1, <1>2, <1>3, <1>4, <1>5, <1>6, <1>7, <1>8, <1>9, <1>10, <1>11, <1>12, <1>13,
     <1>14, <1>15, <1>16, <1>17, <1>18, <1>19, <1>20, <1>21
     DEF Next, native, vm86_handle_gpf

\* The registers and the stacks stay as the emulator needs them.
THEOREM Vm86Safe == Spec => []Vm86Inv
<1>1. Init => Vm86Inv
  BY Starts
<1>2. Vm86Inv /\ [Next]_vars => Vm86Inv'
  BY Steps
<1>3. QED
  BY <1>1, <1>2, PTL DEF Spec

\* Whatever words the called code pops into the flags (popf, popfd, iret), it
\* stays in virtual-8086 mode without I/O privilege, and interrupts stay as the
\* caller had them.
THEOREM FlagsArePinned == Spec => []FlagsPinned
<1>1. Vm86Inv => FlagsPinned
  <2> SUFFICES ASSUME Vm86Inv, mode = "guest"
               PROVE  regs.eflags - (regs.eflags % 4) = VM_BIT + vm86_ie
    BY DEF FlagsPinned
  <2>1. RegsInv /\ vm86_ie \in {0, IF_BIT}
    BY DEF Vm86Inv
  <2>2. PICK u \in 0 .. 3 : regs.eflags = VM_BIT + vm86_ie + u
    BY <2>1 DEF RegsInv
  <2>3. QED
    BY <2>1, <2>2 DEF VM_BIT, IF_BIT
<1>2. QED
  BY <1>1, Vm86Safe, PTL

\* The emulator misses an instruction or a word of the stack only in segments
\* that do not begin at a multiple of 64K, or where an offset goes round; of the
\* call's own code only where that leaves its paragraph, on the call's own stack
\* only with a bit in the upper half of ESP.
THEOREM StraysOnlyOutside == Spec => []StrayOnlyOutside
<1>1. Vm86Inv => StrayOnlyOutside
  BY DEF Vm86Inv
<1>2. QED
  BY <1>1, Vm86Safe, PTL

\* To the called code the trapping instructions behave as on a real mode CPU
\* whose interrupt flag it cannot reach.
THEOREM EmulatesRealMode == Spec => SeesRealMode
<1>1. Init => Machine!Init
  BY Starts
<1>2. Vm86Inv /\ [Next]_vars => [Machine!Next]_(Machine!vars)
  BY Steps
<1>3. QED
  BY <1>1, <1>2, Vm86Safe, PTL DEF Spec, SeesRealMode, Machine!Spec

=============================================================================
