-------------------------------- MODULE Vm86 --------------------------------
(***************************************************************************)
(* Calls into the BIOS: callx86int and callx86ptr of vm86.cpp, and the     *)
(* emulation of the instructions that trap in virtual-8086 mode.           *)
(*                                                                         *)
(* Numbers are scaled down.  A word has four bits instead of sixteen and a *)
(* paragraph is Para bytes; registers of 32 bits have six.  A word takes   *)
(* one cell of mem.  The flags are, from the lowest bit on: two the called *)
(* code may change (carry and another), IF, IOPL (one bit), RF, VM.        *)
(*                                                                         *)
(* The called code is any program: it does one trapping instruction or one *)
(* harmless one at a time.  A trap is one step, for the handler runs with  *)
(* interrupts off.                                                         *)
(***************************************************************************)
EXTENDS Integers, Sequences, SequencesExt, FiniteSetsExt

CONSTANTS
    Para,           \* bytes in a paragraph: 16
    PtrIsr, PtrLc,  \* linear addresses the linker may give vm86_isr and vm86_lc
    PtrStack,       \* of the last byte of vm86_stack
    ivt,            \* interrupt vectors: <<offset, segment>>
    OwnStack,       \* stacks the called code may switch to: [ss, esp]
    Memory,         \* the addresses of the stacks
    Jumps,          \* where it may jump: <<segment, offset>>
    Pushed,         \* words it may push
    Args,           \* length of stack[]: 8
    MaxDepth,       \* bound on the words on both stacks
    IODepth         \* bound on those when the machine halts or does I/O

Limit == 16         \* 64K: one more than the largest word
Wide == 64          \* 2^32

Word == 0 .. Limit - 1

\* The programs' words and addresses are words.
ASSUME Vm86Assumption ==
    /\ Para \in {2, 4, 8}
    /\ PtrIsr \subseteq Nat /\ PtrLc \subseteq Nat /\ PtrStack \in Nat
    /\ Args \in Nat \ {0}
    /\ DOMAIN ivt \subseteq Word /\ \A v \in DOMAIN ivt : ivt[v] \in Word \X Word
    /\ OwnStack \subseteq [ss : Word, esp : Word]
    /\ Jumps \subseteq Word \X Word /\ Pushed \subseteq Word

VARIABLES
    mode,           \* "kernel", "guest", "dead" (gpfC has halted)
    regs,           \* the CPU's registers
    mem,
    vm86_ie, vm86_init_stackptr,
    out,            \* what the last call returned, and how it ended
    bus,            \* the last transfer on the I/O bus
    sys,            \* history: which call it is, and where its own code lies
    cur, parked,    \* history: the stack in use, and the pointer to the other
    base,           \* history: where the two stacks begin
    stray           \* history: why an address was not the one of real mode

vars == <<mode, regs, mem, vm86_ie, vm86_init_stackptr, out, bus, sys, cur,
          parked, base, stray>>

IF_BIT == 4
VM_BIT == 32

-----------------------------------------------------------------------------
(* The trap frame. *)

\* What the CPU pushes when virtual-8086 mode traps, first to last.
CpuPushes == <<"gs", "fs", "ds", "es", "ss", "esp", "eflags", "cs", "eip",
               "error_code">>

\* ISR<Error_stack> and bezbios_err_handler; the kernel's segment registers
\* are "k" here.
StubPushes == <<"irq", "eax", "ecx", "edx", "ebx", "ebp", "esi", "edi",
                "kds", "kes", "kfs", "kgs">>

\* VM86_stack<User_stack<Error_stack>>, from its first member.
Fields == <<"kgs", "kfs", "kes", "kds", "edi", "esi", "ebp", "ebx", "edx",
            "ecx", "eax", "irq", "error_code", "eip", "cs", "eflags",
            "esp", "ss", "es", "ds", "fs", "gs">>

\* What is popped; irq and error_code are dropped, and iret takes the rest.
StubPops == <<"kgs", "kfs", "kes", "kds", "edi", "esi", "ebp", "ebx", "edx",
              "ecx", "eax", "irq", "error_code", "eip", "cs", "eflags",
              "esp", "ss", "es", "ds", "fs", "gs">>

Registers == ToSet(Fields)

At(names, f) == CHOOSE i \in DOMAIN names : names[i] = f

\* The register that lies where the handler sees the member f.
Source == [f \in Registers |-> Reverse(CpuPushes \o StubPushes)[At(Fields, f)]]

Frame(r) == [f \in Registers |-> r[Source[f]]]

\* The member that is popped into the register r.
Target == [r \in Registers |-> Fields[At(StubPops, r)]]

Restored(frame) == [r \in Registers |-> frame[Target[r]]]

-----------------------------------------------------------------------------
(* Addresses. *)

Or(a, b) ==
    LET bit(w) == IF (a \div w) % 2 = 1 \/ (b \div w) % 2 = 1 THEN w ELSE 0
    IN  bit(1) + bit(2) + bit(4) + bit(8) + bit(16) + bit(32) + bit(64)

\* Mutant: the segment keeps all its bits.
ToSegment_plain(ptr, codesection) ==
    [segment |-> (ptr \div Para) % Limit,
     offset |-> IF codesection THEN ptr % Para ELSE ptr % Limit]

\* vmm86_to_segment: code gets a small offset, data and stack a large one.
ToSegment(ptr, codesection) ==
    IF codesection
    THEN [segment |-> (ptr \div Para) % Limit, offset |-> ptr % Para]
    ELSE [segment |-> ((ptr \div Para) % Limit) - ((ptr \div Para) % (Limit \div Para)),
          offset |-> ptr % Limit]

\* VM86RegPtr: segment and offset are put together with an or.
LinearTable == [s \in Word |-> [o \in 0 .. Wide - 1 |-> Or(s * Para, o)]]

Linear(seg, off) == LinearTable[seg][off % Wide]

\* The CPU adds, and offsets go round after 64K.
Real(seg, off) == seg * Para + (off % Limit)

\* Where a stack of MaxDepth words lies that begins at off.
Cells(seg, off) == {Real(seg, off - k) : k \in 1 .. MaxDepth}

\* vm86_stack is deep enough, does not lie across a multiple of 64K (rawdisk.ld:87,
\* multiboot.ld:105), and no stack of the BIOS lies in it.
ASSUME StackAssumption ==
    LET own == ToSegment(PtrStack, FALSE) IN
    /\ MaxDepth \in 2 .. Limit - 1 /\ MaxDepth <= own.offset /\ Args <= MaxDepth
    /\ Cells(own.segment, own.offset) \subseteq Memory
    /\ \A s \in OwnStack :
          /\ Cells(s.ss, s.esp) \subseteq Memory
          /\ Cells(s.ss, s.esp) \cap Cells(own.segment, own.offset) = {}

Exact(seg, off) == Linear(seg, off) = Real(seg, off)

Less(off, n) == (off - n) % Wide

\* popC for an instruction of n bytes, prefixes included.
FetchExact(f, n) == \A k \in 0 .. n - 1 : Exact(f.cs, f.eip + k)

\* The cells that popS and pushS use for n words.
PopExact(f, n) == \A k \in 0 .. n - 1 : Exact(f.ss, f.esp + k)
PushExact(f, n) == \A k \in 1 .. n : Exact(f.ss, Less(f.esp, k))

\* The n words at the stack pointer.
PopS(f, n) == [k \in 1 .. n |-> mem[Linear(f.ss, f.esp + k - 1)]]

\* Memory m after each word of ws is stored in its cell.
Stored(m, ws, cell) ==
    [a \in DOMAIN m |-> IF \E k \in DOMAIN ws : cell[k] = a
                         THEN ws[CHOOSE k \in DOMAIN ws : cell[k] = a] ELSE m[a]]

\* Memory m after the words ws are pushed one by one.
PushS(m, f, ws) == Stored(m, ws, [k \in DOMAIN ws |-> Linear(f.ss, Less(f.esp, k))])

\* mem after n words are popped at off: nobody reads them again.
Forgotten(ss, off, n) ==
    [a \in DOMAIN mem |->
        IF \E k \in 0 .. n - 1 : Real(ss, off + k) = a THEN 0 ELSE mem[a]]

-----------------------------------------------------------------------------
(* Flags. *)

\* eflags & PUSH_MASK, as a word and as a double word.
PushMasked(fl) == fl % 16

\* Mutant: IF is taken from what the program pops.
PopMasked_IF(w) == (w % 8) + VM_BIT

\* (eflags & POP_MASK) | POP_SET | vm86_ie
PopMasked(w) == (w % 4) + VM_BIT + vm86_ie

-----------------------------------------------------------------------------
(* Calls. *)

\* The stacks, from which nobody reads what an earlier call left.
Blank == [a \in Memory |-> 0]

NoResult == [eax |-> 0, eflags |-> 0, oops |-> FALSE]

\* callx86_nomut: the registers come from in, seg and run, and iretl enters
\* virtual-8086 mode.
Enter(code, stack, esp, ie) ==
    /\ mode = "kernel" /\ mode' = "guest"
    /\ regs' = [r \in Registers |->
          CASE r = "eip" -> code.offset   [] r = "cs" -> code.segment
            [] r = "esp" -> esp           [] r = "ss" -> stack.segment
            [] r = "eflags" -> VM_BIT + ie
            [] r = "eax" -> 9             [] r = "error_code" -> 0
            [] OTHER -> At(Fields, r)]
    /\ vm86_ie' = ie
    /\ vm86_init_stackptr' = esp
    /\ cur' = 1
    /\ \E s \in OwnStack : parked' = s /\ base' = <<stack.offset, s.esp>>

callx86int ==
    /\ \E ptr \in PtrIsr, ie \in {0, IF_BIT} :
          /\ Enter(ToSegment(ptr, TRUE), ToSegment(PtrStack, FALSE),
                   ToSegment(PtrStack, FALSE).offset, ie)
          /\ sys' = [call |-> "isr", at |-> ToSegment(ptr, TRUE)]
    /\ mem' = Blank
    /\ bus' = <<"none">> /\ out' = NoResult
    /\ UNCHANGED stray

\* The words of stack[] go on the stack first, and the code is a far call.
callx86ptr ==
    LET s == ToSegment(PtrStack, FALSE)
        ss == [ss |-> s.segment, esp |-> s.offset]
    IN \E ptr \in PtrLc, ws \in [1 .. Args -> Pushed], ie \in {0, IF_BIT} :
          /\ Enter(ToSegment(ptr, TRUE), s, Less(s.offset, Args), ie)
          /\ mem' = PushS(Blank, ss, ws)
          /\ sys' = [call |-> "lc", at |-> ToSegment(ptr, TRUE)]
          /\ bus' = <<"none">> /\ out' = NoResult
          /\ UNCHANGED stray

\* The bytes of int n, and of the far call.
OwnLength == IF sys.call = "isr" THEN 2 ELSE 5

-----------------------------------------------------------------------------
(* Harmless instructions of the called code. *)

Here == <<regs.cs, regs.eip>>

\* The code of the call itself: int n or the far call, and the hlt behind it.
OwnStart == <<sys.at.segment, sys.at.offset>>
OwnEnd == <<sys.at.segment, sys.at.offset + OwnLength>>

Guest == mode = "guest" /\ stray = {}

\* The program is at code of its own.
Free == Guest /\ Here \notin {OwnStart, OwnEnd}

\* Where it has instructions that trap; between them it runs.
Places == Jumps \cup {<<ivt[v][2], ivt[v][1]>> : v \in DOMAIN ivt}

Depth == (base[cur] - regs.esp) % Limit

\* The words on both stacks.
Used == Depth + ((base[3 - cur] - parked.esp) % Limit)

Kept == UNCHANGED <<vm86_ie, vm86_init_stackptr, out, sys, base, stray>>

\* Native pushes and pops use SP and go round at 64K.
NativePush(ws) ==
    /\ Used + Len(ws) <= MaxDepth
    /\ mem' = Stored(mem, ws, [k \in DOMAIN ws |-> Real(regs.ss, Less(regs.esp, k))])

\* The upper half of ESP is left alone.
SP(d) == (regs.esp - (regs.esp % Limit)) + ((regs.esp + d) % Limit)

\* It computes and jumps.
run ==
    /\ Free /\ mode' = mode
    /\ \E j \in Jumps, u \in {3} :
          regs' = [regs EXCEPT !.cs = j[1], !.eip = j[2], !.eax = 9, !.eflags = (@ - (@ % 4)) + u]
    /\ bus' = <<"none">> /\ UNCHANGED <<mem, cur, parked>> /\ Kept

push ==
    /\ Free /\ Here \in Places /\ mode' = mode
    /\ \E w \in Pushed : NativePush(<<w>>)
    /\ regs' = [regs EXCEPT !.esp = SP(-1)]
    /\ bus' = <<"none">> /\ UNCHANGED <<cur, parked>> /\ Kept

\* A word of an interrupt's frame may be changed by popping and pushing; this
\* is how the BIOS returns the carry flag.
pop ==
    /\ Free /\ Here \in Places /\ mode' = mode
    /\ Depth > 0
    /\ regs' = [regs EXCEPT !.esp = SP(1)]
    /\ mem' = Forgotten(regs.ss, regs.esp, 1)
    /\ bus' = <<"none">> /\ UNCHANGED <<cur, parked>> /\ Kept

\* It loads ss and sp, or all of esp.
switch_stack ==
    /\ Free /\ Here \in Places /\ mode' = mode
    /\ cur' = 3 - cur
    /\ parked' = [ss |-> regs.ss, esp |-> regs.esp]
    /\ \E esp \in {parked.esp, (regs.esp - (regs.esp % Limit)) + (parked.esp % Limit)} :
          regs' = [regs EXCEPT !.ss = parked.ss, !.esp = esp]
    /\ bus' = <<"none">> /\ UNCHANGED mem /\ Kept

\* The far call of vm86_lc, and the far return that answers it.
far_call ==
    /\ Guest /\ mode' = mode
    /\ sys.call = "lc" /\ Here = OwnStart
    /\ \E j \in Jumps :
          /\ NativePush(<<regs.cs, (regs.eip + 5) % Limit>>)
          /\ regs' = [regs EXCEPT !.esp = SP(-2), !.cs = j[1], !.eip = j[2]]
    /\ bus' = <<"none">> /\ UNCHANGED <<cur, parked>> /\ Kept

far_return ==
    /\ Free /\ Here \in Places /\ mode' = mode
    /\ Depth >= 2
    /\ regs' = [regs EXCEPT !.esp = SP(2),
                            !.eip = mem[Real(regs.ss, regs.esp)],
                            !.cs = mem[Real(regs.ss, regs.esp + 1)]]
    /\ mem' = Forgotten(regs.ss, regs.esp, 2)
    /\ bus' = <<"none">> /\ UNCHANGED <<cur, parked>> /\ Kept

-----------------------------------------------------------------------------
(* vm86_handle_gpf *)

\* The frame with eip behind an instruction of n bytes.
Behind(n) == [Frame(regs) EXCEPT !.eip = @ + n]

\* The handler has emulated an instruction and goes back to the program.
Return(frame) == mode' = mode /\ regs' = Restored(frame)

\* An instruction of n bytes traps; what it reads is what the CPU would.
Trap(n, places) ==
    /\ Guest
    /\ Here \in places
    /\ FetchExact(Frame(regs), n)
    /\ UNCHANGED <<vm86_ie, vm86_init_stackptr, sys, cur, parked, base, stray>>

Emulated(n, places) == Trap(n, places) /\ UNCHANGED out

\* With or without the address size prefix, which is passed over.
Prefix67 == {0, 1}

cli_sti ==
    \E p \in Prefix67 :
        /\ Emulated(1 + p, Places)
        /\ Return(Behind(1 + p))
        /\ bus' = <<"none">> /\ UNCHANGED mem

\* Push the words ws, the emulated instruction being n bytes long, and go on
\* at the place that next gives.
PushAndGo(n, places, ws, eip, cs) ==
    LET f == Behind(n) IN
    /\ Emulated(n, places)
    /\ Used + Len(ws) <= MaxDepth
    /\ PushExact(f, Len(ws))
    /\ mem' = PushS(mem, f, ws)
    /\ Return([f EXCEPT !.esp = Less(@, Len(ws)), !.eip = eip, !.cs = cs])
    /\ bus' = <<"none">>

\* Pop k words and go on with the members that new gives the frame.
PopAndGo(n, k, new(_, _)) ==
    LET f == Behind(n) IN
    /\ Emulated(n, Places)
    /\ Depth >= k
    /\ PopExact(f, k)
    /\ Return([new(f, PopS(f, k)) EXCEPT !.esp = (@ + k) % Wide])
    /\ mem' = Forgotten(f.ss, f.esp, k)
    /\ bus' = <<"none">>

pushf ==
    \E p \in Prefix67 :
        LET f == Behind(1 + p)
        IN  PushAndGo(1 + p, Places, <<PushMasked(f.eflags)>>, f.eip, f.cs)

popf ==
    \E p \in Prefix67 :
        PopAndGo(1 + p, 1, LAMBDA f, w : [f EXCEPT !.eflags = PopMasked(w[1])])

\* The same with the operand size prefix, which comes last.
pushfd ==
    \E p \in Prefix67 :
        LET f == Behind(2 + p)
        IN  PushAndGo(2 + p, Places, <<0, PushMasked(f.eflags)>>, f.eip, f.cs)

popfd ==
    \E p \in Prefix67 :
        PopAndGo(2 + p, 2,
                 LAMBDA f, w : [f EXCEPT !.eflags = PopMasked(w[1] + 16 * w[2])])

\* The call's own instructions have no prefix.
IntPlaces(p) == IF sys.call = "isr" /\ p = 0 THEN Places \cup {OwnStart} ELSE Places
HltPlaces(p) == IF p = 0 THEN Places \cup {OwnEnd} ELSE Places

\* Mutant: the place to return to is the interrupt instruction itself.
int_n_again(v) ==
    \E p \in Prefix67 :
        LET f == Behind(2 + p)
        IN  PushAndGo(2 + p, IntPlaces(p),
                      <<PushMasked(f.eflags), f.cs, (f.eip - 2) % Limit>>,
                      ivt[v][1], ivt[v][2])

int_n(v) ==
    \E p \in Prefix67 :
        LET f == Behind(2 + p)
        IN  PushAndGo(2 + p, IntPlaces(p),
                      <<PushMasked(f.eflags), f.cs, f.eip % Limit>>,
                      ivt[v][1], ivt[v][2])

iret ==
    \E p \in Prefix67 :
        PopAndGo(1 + p, 3, LAMBDA f, w :
            [f EXCEPT !.eip = w[1], !.cs = w[2], !.eflags = PopMasked(w[3])])

\* The length of an in or out: a port number in the code is a byte more, and so
\* is each prefix.
PortLength(size, imm, p) == 1 + imm + p + (IF size = 6 THEN 1 ELSE 0)

\* out of al, ax or eax; the size is in bits.
out_port ==
    \E size \in {2, 4, 6}, imm \in {0, 1}, p \in Prefix67 :
        LET f == Behind(PortLength(size, imm, p)) IN
        /\ Used <= IODepth
        /\ Emulated(PortLength(size, imm, p), Places)
        /\ bus' = <<"out", size, f.eax % 2^size>>
        /\ Return(f)
        /\ UNCHANGED mem

\* in al, ax or eax: the rest of eax stays.
in_port ==
    \E size \in {2, 4, 6}, imm \in {0, 1}, p \in Prefix67 :
        LET f == Behind(PortLength(size, imm, p)) IN
        /\ Used <= IODepth
        /\ Emulated(PortLength(size, imm, p), Places)
        /\ bus' = <<"in", size>>
        /\ \E val \in {0, 2^size - 1} :
              Return([f EXCEPT !.eax = (@ - (@ % 2^size)) + val])
        /\ UNCHANGED mem

\* Any hlt ends the call; a message is sent if the stack pointer is not where
\* the call began.
hlt ==
    LET f == Frame(regs) IN
    /\ \E p \in Prefix67 : Trap(1 + p, HltPlaces(p))
    /\ mode' = "kernel"
    /\ out' = [eax |-> f.eax, eflags |-> f.eflags, oops |-> vm86_init_stackptr # f.esp]
    /\ bus' = <<"none">>
    /\ UNCHANGED <<regs, mem>>

\* Anything else: gpfC halts the machine.
unhandled ==
    /\ Free /\ Here \in Places /\ Used <= IODepth
    /\ mode' = "dead"
    /\ bus' = <<"none">>
    /\ UNCHANGED <<regs, mem, vm86_ie, vm86_init_stackptr, out, sys, cur,
                   parked, base, stray>>

vm86_handle_gpf ==
    \/ cli_sti \/ pushf \/ popf \/ pushfd \/ popfd
    \/ (\E v \in DOMAIN ivt : int_n(v)) \/ iret
    \/ out_port \/ in_port \/ hlt \/ unhandled

\* The bytes that an instruction that traps here may have.
Lengths == {n \in 1 .. 4 : \/ Here \in Places
                           \/ n = 1 /\ Here \in HltPlaces(0)
                           \/ n = 2 /\ Here \in IntPlaces(0)}

\* The emulator goes astray: it reads the instruction, or n words of the stack,
\* from another place than the CPU would, or is about to write there.  What
\* follows depends on what lies there, and the model stops.
go_astray ==
    LET f == Frame(regs) IN
    /\ Guest
    /\ \/ stray' = {"fetch"} /\ \E n \in Lengths : ~FetchExact(f, n)
       \/ /\ stray' = {"pop"} /\ Here \in Places
          /\ \E n \in 1 .. Min({3, Depth}) : ~PopExact(f, n)
       \/ /\ stray' = {"push"} /\ Here \in IntPlaces(0)
          /\ \E n \in 1 .. Min({3, MaxDepth - Used}) : ~PushExact(f, n)
    /\ UNCHANGED <<mode, regs, mem, vm86_ie, vm86_init_stackptr, out, bus, sys,
                   cur, parked, base>>

-----------------------------------------------------------------------------
Init ==
    /\ mode = "kernel"
    /\ regs = [r \in Registers |-> 0]
    /\ mem = Blank
    /\ vm86_ie = 0 /\ vm86_init_stackptr = 0
    /\ out = NoResult
    /\ bus = <<"none">>
    /\ sys = [call |-> "isr", at |-> [segment |-> 0, offset |-> 0]] /\ cur = 1
    /\ parked = [ss |-> 0, esp |-> 0] /\ base = <<0, 0>>
    /\ stray = {}

native == run \/ push \/ pop \/ switch_stack \/ far_call \/ far_return

Next == callx86int \/ callx86ptr \/ native \/ vm86_handle_gpf \/ go_astray

Spec == Init /\ [][Next]_vars

-----------------------------------------------------------------------------
(* Refinement. *)

\* The words on a stack that begins at b, the oldest first.
WordsOn(b, ss, esp) == [k \in 1 .. (b - esp) % Limit |-> mem[Real(ss, b - k)]]

StackNo(i) ==
    IF i = cur THEN WordsOn(base[i], regs.ss, regs.esp)
    ELSE WordsOn(base[i], parked.ss, parked.esp)

Machine == INSTANCE RealMode WITH
    WordSize <- Limit, UserBits <- 4,
    Vector <- LAMBDA v : <<ivt[v][2], ivt[v][1]>>,
    running <- mode = "guest",
    at <- <<regs.cs, regs.eip>>, flags <- regs.eflags % 16,
    stacks <- <<StackNo(1), StackNo(2)>>, acc <- regs.eax

\* vm86.cpp:111-263, interrupts.cpp:140-205: to the called code the trapping
\* instructions behave as on a real mode CPU whose interrupt flag it cannot
\* reach, as long as the emulator finds its addresses: what was pushed is
\* popped in the other order, calls return behind the instruction that made
\* them, and no register but those meant is changed by a trap.
SeesRealMode == Machine!Spec

-----------------------------------------------------------------------------
(* Properties. *)

\* vm86.cpp:107-109: whatever words the called code pops into the flags, it
\* stays in virtual-8086 mode without I/O privilege, and interrupts stay as
\* the caller had them.
FlagsPinned ==
    mode = "guest" => regs.eflags - (regs.eflags % 4) = VM_BIT + vm86_ie

\* vm86.cpp:60, 72, 80: the emulator goes astray only where the or is no sum
\* (a segment that does not begin at a multiple of 64K, an offset past its
\* first clear bits) or an offset has gone round.  Of the call's own code it
\* misses an instruction only if that lies across the end of a paragraph, and
\* of the stack that vmm86_to_segment makes it misses no word, unless the
\* called code has left bits in the upper half of ESP.
StrayOnlyOutside ==
    /\ "fetch" \in stray =>
          /\ regs.cs % (Limit \div Para) # 0 \/ regs.eip + 4 > Limit
          /\ Here \in Places \/ OwnEnd[2] >= Para
    /\ stray \cap {"pop", "push"} # {} =>
          \/ regs.esp >= Limit
          \/ cur = 2 /\ (regs.ss % (Limit \div Para) # 0 \/ regs.esp \notin 3 .. Limit - 3)
=============================================================================
