-------------------------------- MODULE Pci --------------------------------
(***************************************************************************)
(* The PCI scan and its drivers (pci.cpp) as the two CardBus sockets of    *)
(* pcmciatest/main.cpp use them: one thread runs the constructor of        *)
(* YentaSocket (yenta_socket.cpp) for each, and the interrupt that all     *)
(* drivers share may come between any two of its steps.                    *)
(*                                                                         *)
(* An address is <<bus, slot, func>>, of Buses x Slots x Funcs (256 x 32   *)
(* x 8).  The scan also forms slot number Slots, one too many: in the      *)
(* address register its bit falls on the lowest bit of the bus.            *)
(***************************************************************************)
EXTENDS MemoryPool, FiniteSets

CONSTANTS
    Buses, Slots, Funcs,
    Machines,      \* the machines: [layout, map, bios], see Init
    MinAddr,       \* holes are looked for from here
    LowMemory,     \* what may be read through a null pointer
    Sockets,       \* 1 .. n: the sockets, constructed in this order
    None

ASSUME PciAssumption ==
    /\ Buses \in Nat \ {0} /\ Slots \in Nat \ {0} /\ Funcs \in Nat \ {0}
    /\ MinAddr \in Nat
    /\ \A m \in Machines : m.map \in Seq([base : Nat, len : Nat])
    /\ IsFiniteSet(Sockets) /\ Sockets # {} /\ Sockets = 1 .. Cardinality(Sockets)
    /\ None \notin Sockets

VARIABLES
    machine,    \* layout: address -> is it a CardBus bridge; map; bios
    avalible, pool, regions,   \* of Pci: spelt as in the code
    drivers,    \* the first driver in the ring, or None
    next, prev, \* the ring: of each driver
    address,    \* of each driver
    isr_set,    \* its isr is not null
    base_addr,  \* its region, or None
    bar,        \* the bridge has been given the address
    mask,       \* the bridge may interrupt
    event,      \* it has something to tell
    linked,     \* its interrupt line leads to IRQ 10
    cascade,    \* the first controller lets the second one's requests through
    pc,         \* where the constructor is
    this,       \* the socket under construction
    candidate   \* the address it looks at

ring == <<drivers, next, prev>>
card == <<bar, mask, event, linked, cascade>>
vars == <<machine, avalible, pool, regions, ring, address, isr_set, base_addr, card,
          pc, this, candidate>>

NoAddress == <<Buses, Slots, Funcs>>

Init ==
    /\ machine \in Machines
    /\ avalible = FALSE /\ pool = NoHole /\ regions = <<>>
    /\ drivers = None
    /\ next = [s \in Sockets |-> s] /\ prev = [s \in Sockets |-> s]
    /\ address = [s \in Sockets |-> NoAddress]
    /\ isr_set = [s \in Sockets |-> FALSE]
    /\ base_addr = [s \in Sockets |-> None]
    /\ bar = [s \in Sockets |-> FALSE]
    /\ mask = [s \in Sockets |-> FALSE]
    /\ event = [s \in Sockets |-> FALSE]
    /\ linked = [s \in Sockets |-> FALSE]
    /\ cascade = FALSE
    /\ pc = "Pci" /\ this = 1 /\ candidate = NoAddress

-----------------------------------------------------------------------------
(* Configuration space. *)

\* get_reg: the device that the address register selects.
Selects(a) ==
    IF a[2] < Slots THEN a ELSE <<2 * (a[1] \div 2) + 1, 0, a[3]>>

validate_vid(a) == Selects(a) \in DOMAIN machine.layout

\* Mutant of is_valid: slot > 30.
is_valid_below_last(a) == a[1] < Buses /\ a[2] < Slots - 1 /\ a[3] < Funcs

is_valid(a) == a[1] < Buses /\ a[2] < Slots /\ a[3] < Funcs

\* Bit 7 of the header type of function 0: set if there are more functions, and
\* read as set where no function 0 is.
multi_function(b, s) ==
    \/ <<b, s, 0>> \notin DOMAIN machine.layout
    \/ \E f \in 1 .. Funcs - 1 : <<b, s, f>> \in DOMAIN machine.layout

\* Slots in the order of the loop: Slots + 1 on each bus.
Rank(b, s) == b * (Slots + 1) + s

\* What next() makes of address a; NoAddress if it returns false.  From an
\* address that is not valid it begins anew, without a look at what is there.
\* After a function comes the next one, or, if that is missing, the next slot.
Following(a) ==
    IF ~is_valid(a) THEN <<0, 0, 0>>
    ELSE IF /\ multi_function(a[1], a[2])
            /\ a[3] < Funcs - 1
            /\ validate_vid(<<a[1], a[2], a[3] + 1>>)
         THEN <<a[1], a[2], a[3] + 1>>
    ELSE LET later == {x \in (0 .. Buses - 1) \X (0 .. Slots) \X {0} :
                         Rank(x[1], x[2]) > Rank(a[1], a[2]) /\ validate_vid(x)}
         IN IF later = {} THEN NoAddress
            ELSE CHOOSE x \in later :
                     \A y \in later : Rank(x[1], x[2]) <= Rank(y[1], y[2])

-----------------------------------------------------------------------------
(* The ring of drivers. *)

\* The drivers that a walk along next comes to from d: the least set with d in it
\* that next does not lead out of.
Reached(d) ==
    {s \in Sockets : \A C \in SUBSET Sockets :
        d \in C /\ (\A x \in C : next[x] \in C) => s \in C}

\* The walk of isr() and of is_free() comes back to the first driver.
Returns == drivers = None \/ drivers \in Reached(next[drivers])

Visited == IF drivers = None THEN {} ELSE Reached(drivers)

\* Mutant of is_free: the walk leaves out the first driver.
is_free_but_first(a) == \A d \in Visited \ {drivers} : address[d] # a

is_free(a) == \A d \in Visited : address[d] # a

-----------------------------------------------------------------------------
(* Pci::Pci *)

\* Without the BIOS's PCI services or a hole there is no PCI.
Pci_Pci ==
    /\ pc = "Pci"
    /\ pool' = IF machine.bios THEN e820_scan_hole(machine.map, MinAddr) ELSE pool
    /\ avalible' = (machine.bios /\ pool'.len # 0)
    /\ pc' = "next"
    /\ UNCHANGED <<machine, regions, ring, address, isr_set, base_addr, card, this,
                   candidate>>

-----------------------------------------------------------------------------
(* YentaSocket::YentaSocket *)

\* The constructor returns, the next one begins with a candidate of its own.
Return ==
    /\ candidate' = NoAddress
    /\ IF this + 1 \in Sockets THEN this' = this + 1 /\ pc' = "next"
                               ELSE this' = this /\ pc' = "done"

next_candidate ==
    /\ pc = "next"
    /\ IF ~avalible \/ Following(candidate) = NoAddress THEN Return
       ELSE /\ candidate' = Following(candidate)
            /\ pc' = "look"
            /\ UNCHANGED this
    /\ UNCHANGED <<machine, avalible, pool, regions, ring, address, isr_set, base_addr,
                   card>>

\* A bridge that no driver has: the class register of the device selected.
look ==
    /\ pc = "look"
    /\ pc' = IF is_free(candidate) /\ validate_vid(candidate)
                /\ machine.layout[Selects(candidate)]
             THEN "allocate" ELSE "next"
    /\ UNCHANGED <<machine, avalible, pool, regions, ring, address, isr_set, base_addr,
                   card, this, candidate>>

\* A region of a page; then drv.address.
allocate_region ==
    /\ pc = "allocate"
    /\ \E low \in LowMemory :
        LET a == allocate(pool, regions, Page, low) IN
        IF ~a.ok
        THEN Return /\ UNCHANGED <<regions, base_addr, address>>
        ELSE /\ regions' = a.regions
             /\ base_addr' = [base_addr EXCEPT ![this] = a.region]
             /\ address' = [address EXCEPT ![this] = candidate]
             /\ pc' = "attach"
             /\ UNCHANGED <<this, candidate>>
    /\ UNCHANGED <<machine, avalible, pool, ring, isr_set, card>>

\* attach_driver: drivers = this, or the four stores of plug(drivers, false).
Store(at, n, p, then) ==
    /\ pc = at
    /\ next' = n /\ prev' = p
    /\ pc' = then
    /\ UNCHANGED <<machine, avalible, pool, regions, drivers, address, isr_set,
                   base_addr, card, this, candidate>>

attach_first ==
    /\ pc = "attach" /\ drivers = None
    /\ drivers' = this
    /\ pc' = "setup_irq"
    /\ UNCHANGED <<machine, avalible, pool, regions, next, prev, address, isr_set,
                   base_addr, card, this, candidate>>

\* Mutant of plug_next: this.next is set only with the last store.
plug_next_late ==
    /\ drivers # None
    /\ Store("attach", next, prev, "plug1")

plug_next ==
    /\ drivers # None
    /\ Store("attach", [next EXCEPT ![this] = drivers], prev, "plug1")

plug_prev_next ==
    Store("plug1", [next EXCEPT ![prev[drivers]] = this], prev, "plug2")

plug_prev ==
    Store("plug2", next, [prev EXCEPT ![this] = prev[drivers]], "plug3")

plug_obj_prev ==
    Store("plug3", next, [prev EXCEPT ![drivers] = this], "setup_irq")

attach_driver ==
    attach_first \/ plug_next \/ plug_prev_next \/ plug_prev \/ plug_obj_prev

\* setup_irq: isr_arg, then isr, then link_irq.  If the BIOS refuses the routing,
\* link_irq returns before it lets the device use its line; where that line leads
\* is then as the BIOS had it.  The constructor goes on all the same.
setup_irq ==
    /\ pc = "setup_irq"
    /\ isr_set' = [isr_set EXCEPT ![this] = TRUE]
    /\ \E ok \in BOOLEAN : linked' = [linked EXCEPT ![this] = ok]
    /\ pc' = "bar"
    /\ UNCHANGED <<machine, avalible, pool, regions, ring, address, base_addr, bar, mask,
                   event, cascade, this, candidate>>

\* Memory access on and the address written; then the events are let through.
set_bar ==
    /\ pc = "bar"
    /\ bar' = [bar EXCEPT ![this] = TRUE]
    /\ pc' = "mask"
    /\ UNCHANGED <<machine, avalible, pool, regions, ring, address, isr_set, base_addr,
                   mask, event, linked, cascade, this, candidate>>

set_mask ==
    /\ pc = "mask"
    /\ mask' = [mask EXCEPT ![this] = TRUE]
    /\ Return
    /\ UNCHANGED <<machine, avalible, pool, regions, ring, address, isr_set, base_addr,
                   bar, event, linked, cascade>>

third ==
    \/ Pci_Pci \/ next_candidate \/ look \/ allocate_region
    \/ attach_driver \/ setup_irq \/ set_bar \/ set_mask

-----------------------------------------------------------------------------
(* The interrupt. *)

\* A card is put in or taken out.
card_event(s) ==
    /\ mask[s] /\ ~event[s]
    /\ event' = [event EXCEPT ![s] = TRUE]
    /\ UNCHANGED <<machine, avalible, pool, regions, ring, address, isr_set, base_addr,
                   bar, mask, linked, cascade, pc, this, candidate>>

\* bezbios_enable_irq(10) lets the line through on the second controller only, and
\* init has masked all of the first.  Its IRQ 2 is changed, if at all, from outside:
\* by the BIOS or by the host, for both of whom the program writes to any port.
write_mask ==
    /\ cascade' = ~cascade
    /\ UNCHANGED <<machine, avalible, pool, regions, ring, address, isr_set, base_addr,
                   bar, mask, event, linked, pc, this, candidate>>

\* The line is up, and up to the processor.
Requested == cascade /\ \E s \in Sockets : event[s] /\ linked[s]

\* Pci::isr and YentaSocket::isr: every driver in the ring that has an isr
\* acknowledges the events of its socket.  If the walk does not come back, the
\* handler never ends and nothing runs any more.
isr ==
    /\ pc # "hung"
    /\ Requested
    /\ IF Returns
       THEN /\ event' = [s \in Sockets |->
                          event[s] /\ ~(s \in Visited /\ isr_set[s] /\ bar[s])]
            /\ pc' = pc
       ELSE pc' = "hung" /\ UNCHANGED event
    /\ UNCHANGED <<machine, avalible, pool, regions, ring, address, isr_set, base_addr,
                   bar, mask, linked, cascade, this, candidate>>

Next == third \/ isr \/ write_mask \/ \E s \in Sockets : card_event(s)

Spec == Init /\ [][Next]_vars

\* The thread runs, and a request that stays up to the processor is taken.
FairSpec == Spec /\ WF_vars(third) /\ WF_vars(isr)

-----------------------------------------------------------------------------
(* Properties *)

\* pci.cpp:230: the scan takes slot 32, whose address selects a device that has
\* an address of its own (or slot 0 of the same bus once more).  No device gets
\* two drivers all the same: is_free compares addresses, and a scan that has
\* accepted slot 32 never reaches the other address of the device.
OneDriverEach ==
    \A s, t \in Sockets :
        s # t /\ address[s] # NoAddress /\ address[t] # NoAddress
        => Selects(address[s]) # Selects(address[t])

Overlap(a, b) == a.addr < b.addr + b.len /\ b.addr < a.addr + a.len

\* The hole holds two whole pages.
TwoPages ==
    ((pool.addr + Page - 1) \div Page) * Page + 2 * Page <= pool.addr + pool.len

\* memreg.hpp:49-52: whatever is at address 0, and though the bound is tested
\* wrongly, the two sockets get regions of their own, and both inside the hole
\* if it has two pages.  e820.cpp:53-65: the hole avoids what the BIOS lists
\* except entries that begin at its start or before: an entry right behind the
\* one that the hole follows, one that encloses its start, and, because the sum
\* at line 53 is cut to 32 bits, one that lies anywhere below memory above 4 GB.
RegionsApart ==
    \A s \in Sockets : base_addr[s] # None =>
        /\ base_addr[s].addr % Page = 0
        /\ \A t \in Sockets \ {s} :
              base_addr[t] # None => ~Overlap(base_addr[s], base_addr[t])
        /\ TwoPages
           => /\ pool.addr <= base_addr[s].addr
              /\ base_addr[s].addr + Page <= pool.addr + pool.len
              /\ \A i \in DOMAIN machine.map :
                    LET e == machine.map[i] IN
                    Overlap(base_addr[s], Region(e.base, e.len)) => e.base <= pool.addr

\* The construction of the sockets ends - unless a device in slot 0 of an odd
\* bus answers to slot 32 of some bus: then the scan takes it, finds the address
\* not valid and begins again at 0:0.0, for ever if nothing free is found.
Answers32 ==
    \E b \in 0 .. Buses - 1 : <<2 * (b \div 2) + 1, 0, 0>> \in DOMAIN machine.layout

ScanEnds == <>(pc = "done" \/ Answers32)

\* attach_driver stores into the ring with interrupts on and without the lock of
\* the handler (pci.cpp:295, list.hpp:40-44, pci.cpp:131-142).  When a card has
\* been put in or taken out, also between two of the stores, and the request is let
\* through to the processor, the handler's walk ends and comes to the socket.  No
\* more than that: while IRQ 2 is masked, which the program by itself leaves so
\* (interrupts.cpp:267, 290-296), or where link_irq has failed (pci.cpp:144-184,
\* yenta_socket.cpp:48), an event may stay for ever.
EventServed ==
    \A s \in Sockets : event[s] /\ linked[s] /\ cascade ~> ~event[s] \/ ~cascade
=============================================================================
