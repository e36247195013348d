# Verification of bezbios

bezbios is a small kernel for 32-bit PCs: preemptive threads on one CPU, a
timer with delays, an interrupt-driven serial port, a framed request protocol
(Tlay2) over that port through which a host drives the machine, and calls into
the BIOS in virtual-8086 mode.  This directory models the kernel in TLA+,
checks the models with TLC and proves theorems about them with TLAPS.

## The system

| Part | Source (under `src/`) | State | Operations | What makes it correct |
| --- | --- | --- | --- | --- |
| Scheduler | `sched/sched_main.cpp`, `sched/sched_process.cpp`, `platform_pc/x86-32/sched_low.cpp`, `sched_asm.cc`, `sched/list.hpp` | ring of TCBs, `current_tcb`, `ready` flags, `wait_tid` of the idle loop | create, `rr_next_task`, `free_cpu`, `sel_task`, `switch_context`, exit, the idle loop | no thread forgotten, none starved, no dead one resumed, no halt with work to do |
| Timer and delays | `platform_pc/x86-32/timerPIT.cpp` | `systick_msf`, list at `delay_head` with nodes in stack frames | `PIT_IRQ`, `bezbios_delay_ms` | a delay ends, and not early |
| Serial driver | `platform_pc/uart/uart.cpp` | two fifos, two condition variables, IER, the chip's fifos | `UART_IRQ`, `bezbios_serial_recv`, `bezbios_serial_send` | no byte lost or reordered, no interrupt missed, the reader woken |
| Byte fifo | `uart/fifo.h` | array, two pointers | put, get, check, clear | it is a bounded queue |
| Mutex | `sched/sched_mutex.cpp` | `locked`, `lock_cnt`, list of waiters with nodes in stack frames | `aquire`, `release` | exclusion, a right count, no waiter lost |
| Condition variables | `sched/sched_mutex.cpp` | list of waiters, or one | `wait`, `notify` | a wake-up is not lost |
| ForYield | `sched/bezbios_sched_api.h:79-107`, `main/main.cpp:26-72` | value, two threads | `future_data`, `yield_data` | each value is seen once, in order |
| Tlay2 | `uart/tlay2.cpp`, `uart/crc8.c`, `uart/tlay2_uart.cpp` | buffer, CRC, `send_mutex` | `process`, `reply*`, `msgout`, `dbgout` | what is framed is what is parsed; the parser finds its place again after garbage |
| Monitor | `uart/monitor.cpp`, `uart/vm86_monitor.cpp` | – | one per command | a valid request gets one reply |
| Host tools | `tlay2_server.py`, `tlay2_client.py`, the tools | request number, connections, pacing event, sockets | send, receive, time out | a reply goes to who asked, and to the call it answers |
| Debug output | `uart/tlay2_dbgout.hpp` | CRC | frames by polling, interrupts off | it cuts no frame unseen |
| Virtual-8086 mode | `platform_pc/x86-32/vm86.cpp`, `gpf.cpp` | static register images, TSS stack | `callx86int`, `callx86ptr`, `vm86_handle_gpf` | the called code sees a real mode CPU, flags stay masked, the emulator reads what the CPU would |
| Static guards | `platform_pc/x86-32/cxa_guard.cpp` | guard bytes, `init_mutex` | acquire, release | initialised once, lock balanced |
| Interrupts | `platform_pc/x86-32/interrupts.cpp`, `io.h` | handler table, PIC masks | register, enable, ack | nesting of atomic sections |
| PCI, CardBus | `pci.cpp`, `yenta_socket.cpp`, `memreg.hpp`, `e820.cpp` | driver ring, MMIO regions, bridges | scan, allocate, attach, `isr` | one driver per device, regions disjoint and inside the hole, the handler comes to every socket |
| BIOS32, PnP, APM, display, start-up, loaders, scripts | the rest | – | – | – |

The parts meet in three ways.  Threads call the kernel directly; a call that
blocks ends in `free_cpu(0)`.  Interrupt handlers run on the stack of the
thread they interrupt and may switch away from it (`free_cpu(1)` in the timer,
`sel_task(1, t)` in the serial handler), so that thread sees an arbitrary delay
at any instruction outside an atomic section.  And `idle_tcb.ready` couples
everything: the timer preempts, and the static guards lock, only while it is
set.

The hard behaviours are therefore interleavings at the borders of atomic
sections, list nodes that live in stack frames, choices acted on after
interrupts were enabled, and lost wake-ups.  `PROJECT.json` lists each of these
hazards at its line with the properties that watch it.

## The modules

| Module | Models | Extends |
| --- | --- | --- |
| `Sched` | ring, idle loop, timer, delays, the reader's wake-up, thread exit | |
| `ByteQueue` | what a fifo promises: a bounded queue | |
| `Fifo` | `fifo_t` with its pointers; implements `ByteQueue` | |
| `Uart` | the driver, the 16550, the edge-triggered 8259 | |
| `Mutex` | `aquire` and `release` access by access, frames under the lock | `Sched` |
| `Crc8` | the CRC by its table, and the division it stands for | |
| `Tlay2` | framing in both directions: escaping, parser, the host's reader, a debug message cutting in | `Crc8` |
| `Monitor` | which request gets which reply, and the requests of the tools | |
| `Host` | the tools, the two threads of the server, the line and the machine | `Monitor` |
| `RealMode` | what called BIOS code is promised: a real mode CPU with its stacks | |
| `Vm86` | the two calls, the trap frame, the emulated instructions; implements `RealMode` | |
| `MemoryPool` | the hole in the BIOS's memory map, and the allocator of regions | |
| `Pci` | the scan, the ring of drivers, their interrupt, the set-up of the sockets | `MemoryPool` |
| `SchedProofs`, `FifoProofs`, `UartProofs`, `MutexProofs`, `Tlay2Proofs`, `HostProofs`, `Vm86Proofs`, `PciProofs` | the theorems | the module of that name |
| `MCSched`, `MCFifo`, `MCUart`, `MCMutex`, `MCTlay2`, `MCVm86`, `MCHost`, `MCPci` | the instances | |

**Steps.**  There is one CPU, and code between `ENTER_ATOMIC` and
`EXIT_ATOMIC` runs undisturbed, so it is one step; so is an interrupt handler,
except in `Uart`, where the chip goes on working between two port accesses.
Code with interrupts enabled is cut at each access to shared state.
`switchcontext_int` saves the flags with the context, so whether interrupts are
enabled follows from where the thread on the CPU stands: a thread resumed
inside `rx_cv.wait()` goes on with interrupts off.

**`Sched`.**  `ring` is the circular list in the order of `next`; `ready`,
`current`, `rx_cv`, `wait_tid` are the variables of those names; `delayq` is
the list at `delay_head` with the ticks each timeout is away.  `pc` says where
each thread stands.  `create_process` and `start_idle` are boot, which runs
with interrupts enabled; `idle_*` is `bezbios_main`; `delay_enlist`,
`delay_park`, `delay_return` are the atomic pieces of `bezbios_delay_ms`;
`serial_recv` is `bezbios_serial_recv` with its wait; `sched_exit` ends a
thread.  `Insert` keeps what `List::plug` does at the front of a longer list:
the nodes behind the old head are unlinked.  `lost` is a history variable that
records why a thread will not be woken.  A step whose effect the language
leaves undefined sets `fault`, and the model stops there.

**`Uart`.**  Bytes are numbered, and each of `arrived`, `rbr`, `serial_rx`,
`got` is the place a byte can be.  `Latch` makes the controller see rising
edges only.  The 16550 and the 8259 are external: they are modelled from the
registers the driver uses.  The software fifos are sequences, which `Fifo`
justifies.

**`Mutex`.**  A thread in the middle of a call is "user" for `Sched` and stands
at `mpc` here.  `dangling` holds the threads whose list node is still linked
after its loop body was left; touching it (by `plug`, or by `unplug` of the node
itself or of the one behind it), or switching to a null owner, sets `broken` and
stops the model.  A frame is two puts, which is enough for another
thread's byte to come between.

**`Tlay2`.**  A behaviour is about one direction.  `out` holds the bytes of the
frame under way, and each `putch` hands one to the reader at the other end:
`process` on the device, with its buffer limit, or `server_read` on the host.
The loop of `process` is cut at `getch()`: `esc` and `skip` say which of its
three calls is waiting.  `debug_out` puts a newline and a whole frame in front
of what is left of `out`.  `lose` drops a byte.  `cost` is a history variable.

**`Monitor` and `Host`.**  `Reply` is the dispatch by pid and each handler's
tests of command and length; its value is the length of the reply or `NoReply`.
`Ends` names the commands that do not come back.  In `Host`, `udp_recv`,
`wait_set` or `wait_timeout`, `clear` and `write` are the statements of
`udprecv`, and `read_answer` and `sendto` those of the main thread, so that the
event and the dictionary are accessed in every order.  `Call` names a call by
its client and its place among that client's calls; `serial` and `epoch` of a
frame are history that the code does not have.  Damage on the line is a loss
here, as `Tlay2` justifies for one frame; what `Tlay2` finds about two frames
read as one is not carried over.  `boot` starts the machine again, `restart`
the server.

**`Vm86`.**  Any program may run: at each of its places it does one trapping or
one harmless instruction.  `Frame` and `Restored` follow a trap through the
order in which the CPU and the stub push, the members of the structure, and the
order of the pops, so that a register put in the wrong place would change the
program.  `Linear` is the address the emulator computes, with an or, and `Real`
the one the CPU uses; where they differ for the bytes of an instruction or the
words it uses, `go_astray` records it and the model stops, as what follows
depends on what lies there.  That holds for the called code and for the call's
own, `int n; hlt` or `far call; hlt`, whose segment begins at the paragraph its
bytes lie in: `PtrIsr` and `PtrLc` are sets of linear addresses, so a run tries
more than one place in the paragraph.  Numbers are scaled down: a word has four
bits, a paragraph four bytes and a 32-bit register six bits.  Native code
changes SP and leaves the upper half of ESP as it is, or loads all of ESP; the
emulator's sums are over the whole register, as in the code.  `Args` stands for
the eight words of `stack[]`.  Each instruction may have the prefix 0x67, which
the emulator passes over.  Popped words are forgotten, as nobody reads them
again.

**`MemoryPool` and `Pci`.**  The BIOS and the devices are the constant
`Machines`.  One thread constructs the sockets, step by step; the four stores
of `List::plug` are four actions in program order, and `isr` may come between
any two.  `Selects` is what the address register makes of slot 32.  What is
read through the null pointer at the end of the region list is any value of
`LowMemory`.  Between a socket and the processor are two switches: `linked`,
which `link_irq` may or may not set and whose result nobody uses, and `cascade`,
IRQ 2 of the first controller.  `bezbios_enable_irq(10)` does not touch the
latter; `write_mask` changes it at any time, as the host (`monitor.cpp:31-37`) or
a BIOS may, since both can write to any port.

## The runs

| Run | Instance | Question |
| --- | --- | --- |
| `SchedSleep` | two sleepers (2 or 3 ticks), one thread that exits, no serial input | boot, halt, exit, delays and progress when nothing is lost |
| `SchedReader` | a sleeper (1 or 2 ticks), the reader, one that exits, fifo of 2 | the inductive invariant; progress with wake-ups from the serial port |
| `SchedCrowd` | three sleepers and the reader, symmetric sleepers | every way a thread can go astray is a recorded one |
| `SchedPreempt` | as `SchedSleep` | violation, see below |
| `Fifo` | 4 slots, 2 byte values | `fifo_t` is a queue |
| `Uart` | software fifos of 2, chip fifos of 2, 5 bytes in, 3 out | the driver loses nothing and misses no edge |
| `Mutex` | a sleeper and the reader, both sending | counting and running holders under the races |
| `MutexFrames` | as `Mutex` | violation, see below |
| `Tlay2` | 3 frames of 5 payloads, buffer of 6, one lost byte or one debug message | what is accepted was sent, and the reader recovers |
| `Vm86` | one vector, a stack of the call and two of the BIOS, 4 words on both in use, 2 of the caller's | the called code sees a real mode CPU; flags; where the emulator reads another address |
| `Host` | a tool with one call, a prompt with two, numbers 1 and 2, one lost frame, one restart | pacing, routing, pairing of calls and answers, no call left lying |
| `Pci` | two sockets; 2 buses of 2 slots of 3 functions with up to three devices; memory maps of up to three entries | drivers, regions, the end of the scan, events during set-up |

**Bounds.**  `Delays` of up to three ticks let two timeouts be in either order
and equal.  Three sleepers are the fewest for a list of two to be cut by a
third.  `RxMax` of 1 or 2 lets the reader find none, one, or more bytes.  In
`Uart` five bytes are more than one software and one chip fifo hold together, so
the receiver is masked, the chip overruns, and everything drains again.  Two
threads are the fewest for a mutex; the branch of `release()` that finds the
list empty at the second look needs three and is in the module but is not
reached.  In `Tlay2` the payloads hold both bytes that are escaped, the longest
with its CRC fills the buffer, and three frames let a fault hit the middle one
and show that the third gets through; a behaviour has a lost byte or a debug
message and not both, as the two together leave the account in `cost` too coarse
to tell anything.  The serial line may deliver in any step, so the models have
no bound on how often interrupts come, with one exception: while a thread keeps
the CPU in the few instructions between the two atomic sections of
`bezbios_delay_ms`, at most one tick arrives (ticks are 55 ms apart).  That is
why delays of one tick can be lost in `SchedReader` and `SchedCrowd`, and delays
of two and more cannot in `SchedSleep`.

In `Vm86` four words are an interrupt's frame and one more, or the far call's
return address and the two words of the caller under it.  The BIOS's own stacks
begin at offset 1, so that pushes go round at 64K, one in a segment that the or
joins rightly and one in another.  Its code is at an address where the next
bytes are found by the sum but not by the or, and `PtrIsr` and `PtrLc` each have
a place where the call's own code lies inside a paragraph and one where it lies
across the end.  Port accesses and instructions that are not handled do not
depend on the stack and are tried with both stacks empty (`IODepth`).  In `Host`
two numbers come round with the third call, and the menus hold a call that
waits, one that is not answered, one that may be (power-off without APM) and a
reset.  In `Pci` an odd and an even bus, devices at any three addresses and
functions with gaps make slot `Slots` alias a present device, an absent one and
the bus's own slot 0; the maps have entries that touch, enclose, follow or lie
above the hole, and one that leaves none.

**Fairness.**  The timer ticks for ever, and a tick that comes with interrupts
off is latched.  Threads and idle have strong fairness: they get the CPU in
slices, and the work done in the slices adds up, so one that has the CPU again
and again reaches its next call.  Nothing is assumed of the serial line for
safety.  For progress of the others `LineGoesQuiet` is assumed: again and again
the reader finds the fifo empty; a line that never stops would keep the reader
on the CPU.  In `Uart` the chip sends what it has, handlers and atomic sections
end, and the reader calls `recv` again.  In `Host` the two threads of the server
run and the wait ends, as `wait(1.5)` does; the machine comes to the next
request, as its handlers end, or nobody reads the line; that a client gives up,
the machine boots or the server is restarted is not assumed.  In `Pci` the
thread runs, and a request that stays up to the processor is taken, as threads run
with interrupts on; that IRQ 2 is ever let through, that `link_irq` succeeds, and that
cards come and go is not assumed.

**What they show.**  The halt is sound and no thread is forgotten except in two
ways.  (1) A tick between the atomic sections of `bezbios_delay_ms` (delay of
one tick, or a thread preempted there) sets `ready`, and `free_cpu(0)` clears
it.  (2) A node put in front of a delay list with two or more nodes cuts off
the rest.  Further, idle may act on a choice that an interrupt has made stale
(`StaleOnlyFromIdle`); this never concerns the reader, and the thread concerned
can return from its delay early.  `DelayNotEarly`, `ExitedStayExited` and
`NoTaskLost` hold in `SchedSleep`, whose instance has neither the reader nor
one-tick delays nor a third sleeper; they are claims about such systems and not
about `SchedCrowd`.  In the serial driver nothing is lost but by overrun in the
chip; the software transmit fifo never holds a byte between calls, so the wait
for room is never reached.

In Tlay2 the reader recovers at the next newline or, if that is lost or taken
for data, at the one after it.  As the CRC starts at 0, leading zeros do not
change it and neither does a whole frame.  So the reader takes two frames that
have lost the newline between them for one, and takes the rest of a debug frame
whose leading zeros were cut off for a message of another kind.  `Readings`
lists these cases and `Genuine` shows there are no others.  A lost byte makes at
most one such frame, the debug message at most two, and the other frames
accepted are frames sent in that order (`Accounted`).

Between the tools and the machine (`Host`) requests go out early only after a
wait ran out, one for each: `Paced`.  An answer reaches a client that did not
ask only when the numbers have come round or the server was restarted; after a
restart an unknown number ends the server's main thread, and from then on no
answer gets through (`Routed`, `Settled`).  A client takes the first datagram in
its socket: once one of its calls has timed out, or a power-off was answered
because there is no APM, each later call gets the answer to the call before
(`OwnAnswer`).

The code called in virtual-8086 mode (`Vm86`) sees a real mode CPU as long as its
code and stack segments begin at multiples of 64K and offsets do not go round;
elsewhere the emulator's or may miss the CPU's address, and the segments of a BIOS
are not such in general (`StrayOnlyOutside`).  The stack that `vmm86_to_segment` makes
is, so the emulator misses no word of it, unless called code has left bits in the
upper half of ESP.  The call's own code begins at any paragraph.  It is missed
only if it lies across the end of one, with its `hlt` or the second byte of
`int n` in the next; in the images that the build makes the nine bytes of
`.loram_code` begin a section that is aligned to 16 or more (`rawdisk.ld:59`,
`multiboot.ld:94`), where that does not happen.

Any `hlt` ends the call.  The message is sent when the stack pointer is not where
the call began, and nothing more is known: called code that has popped the words of
its caller may halt inside an interrupt with the pointer back where it was, and
the call ends quietly.  There is no property about this, as it could only repeat the
comparison.

The PCI scan ends except where a device at slot 0 of an odd bus answers to slot
32 of a bus before it; the scan takes it for one more device and then begins
again, for ever if no free bridge comes up (`ScanEnds`).  No device gets two
drivers.  No matter when a card event comes during set-up, it is served if its request
is let through to the processor (`EventServed`).  By itself the program never lets it
through: all of the first controller is masked at `interrupts.cpp:267`, enabling IRQ 10
clears a bit of the second one only (290-296), and nobody enables IRQ 2.  And when
`link_irq` fails the constructor goes on as if it had not.  The
regions of the two sockets never overlap, though the bound of the pool is tested
wrongly.  The hole may contain an entry of the BIOS's map that begins at its
start or before (`RegionsApart`): the scan looks only for entries that begin
later.

**Two disagreements with the source's own words.**

* `SchedPreempt`: `timerPIT.cpp:57` says there is no preemption "if in
  main/idle task".  `bezbios_sched_is_idle` is also true for any other task
  while `idle_tcb.ready` is clear, and only the serial interrupt sets it while
  idle is on the CPU.  Without serial input the timer never preempts.
* `MutexFrames`: `tlay2.cpp:8-13` draws a frame in one piece, and `send_mutex`
  is held around it, but `aquire()` tests `locked` in one place and takes the
  mutex in another.  Two threads hold it and their frames mix.

## The proofs

Every theorem is for any values of the constants that satisfy the assumption of
its module (`SchedAssumption`, `SizeAssumption`, `MutexAssumption`,
`UartAssumption`, `HostAssumption`, `Tlay2Assumption`, `Vm86Assumption`,
`StackAssumption`, `PciAssumption`, `MemoryAssumption`); TLC evaluates these in
every run.  Theorems that need more say so in an `ASSUME`.  The assumptions are
types and sizes, with two exceptions.  `StackAssumption` says that `vm86_stack`
is deep enough, does not lie across a multiple of 64K, as the linker scripts
place it (`rawdisk.ld:87`, `multiboot.ld:105`), and that no stack of the BIOS
lies in it.  `MemoryAssumption` says that addresses end at a multiple of the
page size and leave room for two pages.

`SchedProofs` proves `Spec => []SchedInv` for any set of threads, any delays
and any fifo size.  The properties are not inductive alone.  That no thread is
forgotten needs: the ring holds all threads (`RingInv`), or the round-robin
choice could miss one; a node is listed only while its thread is inside the
delay (`ListedInv`); and the reader's condition variable is armed only while it
is parked, and not armed while idle holds it as its choice (`ReaderInv`), or a
wake-up would be overwritten by idle's clearing of the flag.  The halt needs
that nothing became ready since the second look.  The invariant is proved step
by step, one lemma per action; the lemmas about `rr_next_task`, `Prefix`,
`Insert` and `Ticked` come first.  `BootIsUndisturbed` is an action property
that follows: idle is not ready until it runs, so a tick at boot keeps the CPU.
`StaleIsFromIdle` adds `SwitchInv`: a thread is on the delay list once and an
exited one is neither ready nor on the CPU.  A thread taken off the list by a
tick is then really off it, and the choices of `free_cpu` and `sel_task` are
ready threads.

The last part of `SchedProofs` is about systems without a serial reader.  Idle
is then never ready, so no tick takes the CPU from a thread (`NoPreemption`),
and idle keeps it from its choice to the switch; so the choice cannot become
stale (`AwakeInv`), no delay returns early and no exited thread is resumed, for
any threads and any delays.  With delays of two ticks and more the node outlives
the one tick in the window, and with two sleepers there is never a list of two
to cut (`LossInv`); so no wake-up is lost.  With this every safety property of
`SchedSleep` holds in general.

Two more theorems of `SchedProofs` hold for all systems, with a reader too, and
are what the liveness properties rest on.  `DelayRunsDown`: the list is kept in
the order of the timeouts, also by the insertion that cuts it, so the nodes that
`Prefix` counts are exactly those that are due (`PrefixSplits`); hence a tick
wakes every thread whose time has come and brings all others one tick nearer.
`NoneIsOvertaken`: places on the ring are numbers modulo its length (`Turn`), the
search returns the nearest ready thread, so with each switch of the round a ready
thread comes nearer.  What fairness adds to these two is that ticks and switches
go on.

`FifoProofs` proves that `Fifo` implements `ByteQueue`: the contents are the
slots after `rdptr` up to `wrptr`, and the wrap is dealt with by cases on both
pointers.

`UartProofs` proves all invariants of the run `Uart`.  The types need that the
handler reads RBR only with a byte in it and room for it, and that the transmit
fifo holds at most the byte of the call under way (`BaseInv`).  `MaskInv` follows
the mask through the two accesses of the handler between which the fifo is one
short; `EdgeInv` says where the handler is not about to read IIR again.  The two
streams are one lemma about a sequence that grows at one end and moves along.

`MutexProofs` proves that the count is the number of holders, although two may
hold at once: each step changes the set of holders by at most one thread.  A
holder can always run (`HolderInv`): a thread inside a mutex call loses the CPU
only to an interrupt, which marks it ready, or in the jump of `aquire()`, where
it holds nothing; and idle clears a flag only of the thread it takes in hand.
It also proves that without a reader there is no contention: the only thread
inside a mutex call is the running one, and it finds the mutex free.

`Tlay2Proofs` is about payloads of any bytes and length and a buffer of any
size, so it begins with what the prover has no rule for.  Induction over the
bytes of a frame is done with sets of numbers: `Induct` says that a set with 0
and the successor of each of its numbers holds all of them, and `FoldExists`
and the lemmas after it that `Crcs`, `Remainders`, `Puts` and `Reached`, each a
function defined by its own smaller values, are what their definitions say.

The table of `crc8.c:23-25` is the polynomial division, `CrcIsRemainderAlways`:
exclusive or is associative and commutative bit by bit, dividing four bits is
one step of the table, and the eight zeros behind the data can be added before
or after the last byte.  A frame with its CRC behind it has CRC 0.  `TypeInv`
says that what was sent are such frames, `CrcInv` that the reader's CRC is that
of its buffer.  The bound on the buffer, `NeverBehindBuffer`, follows: the byte
that fills it starts the skipping, and whatever ends that empties it.

`Accounted` is far from inductive: which of the frames accepted are those that
were sent it does not say, and it counts the missing ones only when nothing is
under way.  `LossInv` speaks of every byte.  `Matched` says that m of the frames
accepted are frames sent, in that order; `Wrong` is the number of the others,
and `Owed` the number of frames missing that nothing accounts for.  What is
still to come of a frame is `Tidy`: one newline, at its end, and no escape byte
before it.  While a frame is under way the reader is either in step (`Synced`:
it has just the bytes before, or those and an escape byte), and then that frame
alone may be owed, and what it accepts next is that frame; or it is not, and
then nothing is owed, as the frame is paid for by a fault or its length, and it
may accept one frame that was not sent (`Spare`).
The debug message needs cases of its own: it is behind a newline, which ends
the frame it cuts into, and the rest of that frame or the whole of it comes
after it (`Cutting`, `Reporting`, `Rest`).  A lost byte raises `cost` by as many
frames as the reader may then miss: from any state the next newline that is
not taken for data brings it back (`EndsWell`, `TidyReads`).

`GenuineWithoutFaults` is `LossInv` for a line without faults: then nothing is
`Wrong`, so each frame accepted is one that was sent, later than the one accepted
before (`Orders`), and `Earliest`, which takes the first place where a frame may
end, never runs out of places.

`HostProofs` proves `Paced`, which is inductive with the types, and `Routed`: a
frame that the server or the line holds has the number that was given as many
requests before the next one as have been numbered since (`RouteInv`), and that
number is still its client's while these are fewer than `MaxId`.

`OwnAnswer` needs that nothing else of the client is about (`PairInv`): while a
client is undisturbed, at most one thing of it - a datagram to the server, a
request, an answer, a datagram in its socket - is anywhere on its way, there is
one only while the client waits, and it belongs to the call the client waits
for.  Each step takes that thing out of one place and puts it into the next, so
the invariant is proved with a lemma about such moves.  That what is sent is
what the tool unpacks is a lemma about the tools (`ToolsUnpack`).

Of `Settled` it proves what a step may do to a call (`EachCallOnce`): every call
made has left exactly one trace - a datagram or a frame that somebody holds, an
answer sent to one client, or an entry in `lost`.  Every step carries the traces
from one state to the next one to one and leaves the call in each as it is
(`Carried`), which is proved for a step that takes the head of a queue
(`Dequeued`), for one that passes on what it holds (`HandedOn`), and for a restart.
So no request or answer is doubled, none vanishes, and what is lost stays lost.
That each call does leave the queues in the end is what TLC checks.

`Vm86Proofs` proves the safety properties of the run `Vm86` and the refinement
`SeesRealMode`.  The invariant `Vm86Inv` says that the flags are VM, the IF the
caller chose and what the called code may set; where the call's code lies
(`OwnInv`) and where the two stacks begin; that the pointer of the call's own
never goes round; and that both together hold no more than the bound; so what is
pushed on one is not stored in the other.  The refinement is by cases on the
instruction: `TrapIdentity` shows that what the CPU and the stub push is read by
the handler under the right names and popped where it came from,
`AlignedIsExact` that the or is the sum in a segment that begins at a multiple of
64K, `ParagraphIsExact` that it is within the first paragraph of any segment, and
lemmas about `Stored` that a push puts its words at the end of its stack and
leaves the other alone.

`PciProofs` proves the safety properties of the run `Pci`.  `ScanInv` holds why
slot number `Slots`, whose bit falls on the bus number, does not show a device
twice: the scan never is on a bus behind one whose slot `Slots` answers.
`RingInv` says how far `plug()` has come: the drivers whose way into the ring is
complete are there in the order of construction, and the one on its way is
reached from the last of them or not at all.  From it `HandlerServesAll`: each
run of the handler, between any two of the stores, comes back to the first
driver, keeps the thread's place and clears every event there is, also of a
socket whose own line leads elsewhere; this is the safety half of `EventServed`.
`ScanGetsOn` is that of `ScanEnds`: unless a device answers to slot 32 the scan
never begins again at 0:0.0, so what follows an address lies behind it
(`FollowingIsLater`), and the constructor's steps at one address come in one
order.  These are for any number of sockets.  `Regions` is for the two of
`main.cpp:32-33`: the first gets the first page of the hole, the second the page
behind it, whatever is read at address 0; a third allocation would read the
bound wrongly, and nothing makes one.

Only model-checked: all liveness (`DelayEnds`, `ReadyRuns`, `ByteIsRead`,
`ByteDelivered`, `Settled`, `ScanEnds`, `EventServed`), which is out of the
prover's reach under fairness - of five of them a theorem proves what a step does
towards the end (`DelayRunsDown`, `NoneIsOvertaken`, `ScanGetsOn`,
`HandlerServesAll`, `EachCallOnce`); and `Genuine` once the line has done something
wrong.  With faults it is a claim about the frames of the run and not about all:
two frames may differ in a lost byte and have the same CRC, and no proof can
exclude what eight bits of CRC let through.  How many such frames there can be,
and that they do not keep the reader from the frames behind them, is
`Accounted`, which is proved for all frames.

## Not modelled

* `ForYield`, and with it the making of a thread at run time; the guards of
  static locals in `cxa_guard.cpp`, whose two tests of `idle_tcb.ready` may
  disagree; `ConditionVariable`, which nothing uses; the wrap of the millisecond
  counter.  The first two are the parts worth adding next: `CxaGuard` over
  `Mutex`, with the static locals of `Pci::get_handle` reached by two threads
  and by the interrupt that `pci.cpp:118` enables inside the constructor.
* A thread switch in the middle of a virtual-8086 call.  `Mutex` shows how two
  calls get in at once; what the second does to the static images is a page of
  plain overwriting.
* Details without effect on a property.  The timeouts of `Sched` are ticks, so
  of two that end with the same tick the one enlisted later stands second, where
  `timerPIT.cpp:97-104` compares milliseconds; insertion into an empty delay
  list works on a null object, and what it stores at address 0 is left out.
  `Uart` leaves out `tx_cv`, which nothing arms, and `Tlay2` a `dbgout` of no
  bytes.  At an interrupt `RealMode` leaves TF alone as the emulator does, which a
  CPU does not.
* How PCI interrupts are routed, and every mask bit but that of IRQ 2; the third
  allocation and later ones (nothing in the repository makes them), BIOS32, PnP
  and APM calls, display, start-up code and loaders: single-threaded hardware
  accesses with no state the other parts see.
* Compiler reordering of the plain stores in `List::plug`; the model has them in
  program order.
