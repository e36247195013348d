----------------------------- MODULE PciProofs -----------------------------
(***************************************************************************)
(* Theorems about Pci for every machine, every size of the configuration   *)
(* space, every memory map and every number of sockets; only RegionsApart  *)
(* is about the two sockets that the program has.                          *)
(***************************************************************************)
EXTENDS Pci, TLAPS, FiniteSetTheorems, WellFoundedInduction, SequenceTheorems

Plugging == pc \in {"attach", "plug1", "plug2", "plug3"}

\* The sockets that have no region yet: their constructor has not come so far.
Unborn(s) == s > this \/ (s = this /\ pc \in {"Pci", "next", "look", "allocate"})

\* The drivers whose way into the ring is complete.
Attached == {s \in Sockets : address[s] # NoAddress /\ ~(s = this /\ Plugging)}

ScanSpace == (0 .. Buses - 1) \X (0 .. Slots) \X (0 .. Funcs - 1)

TypeInv ==
    /\ machine \in Machines
    /\ this \in Sockets
    /\ pc \in {"Pci", "next", "look", "allocate", "attach", "plug1", "plug2", "plug3",
               "setup_irq", "bar", "mask", "done"}
    /\ drivers \in Sockets \cup {None}
    /\ next \in [Sockets -> Sockets] /\ prev \in [Sockets -> Sockets]
    /\ address \in [Sockets -> ScanSpace \cup {NoAddress}]
    /\ DOMAIN base_addr = Sockets

\* The order in which a socket gets what it has.
StagesInv ==
    /\ \A s \in Sockets : Unborn(s) => address[s] = NoAddress /\ base_addr[s] = None
    /\ Plugging \/ pc \in {"setup_irq", "bar", "mask"} => address[this] # NoAddress
    /\ isr_set \in [Sockets -> BOOLEAN] /\ bar \in [Sockets -> BOOLEAN]
    /\ mask \in [Sockets -> BOOLEAN] /\ event \in [Sockets -> BOOLEAN]
    /\ pc \in {"bar", "mask"} => isr_set[this]
    /\ pc = "mask" => bar[this]
    /\ \A s \in Sockets : event[s] => mask[s]
    /\ \A s \in Sockets : mask[s] => s \in Attached /\ isr_set[s] /\ bar[s]

\* An address that the scan of pci.cpp can be at: at slot number Slots only if a
\* device answers, and on no bus behind one whose slot number Slots answers.
Scanned(c) ==
    /\ c \in ScanSpace
    /\ c[2] = Slots => c[3] = 0 /\ validate_vid(c)
    /\ \A b \in 0 .. Buses - 1 : validate_vid(<<b, Slots, 0>>) => c[1] <= b

ScanInv ==
    /\ candidate # NoAddress => Scanned(candidate)
    /\ pc \in {"look", "allocate"} => candidate # NoAddress
    /\ \A s \in Sockets : address[s] # NoAddress => Scanned(address[s])
    /\ pc = "allocate" => \A s \in Sockets : address[s] # candidate
    /\ \A s, t \in Sockets : s # t /\ address[s] = address[t] => address[s] = NoAddress

\* The ring in the order of construction, and how far plug() has come with it.
RingInv ==
    /\ \A s \in Sockets : s \notin Attached /\ ~(s = this /\ Plugging /\ pc # "attach")
                          => next[s] = s /\ prev[s] = s
    /\ drivers = None <=> Attached = {}
    /\ pc \in {"plug1", "plug2", "plug3"} => drivers # None /\ next[this] = drivers
    /\ pc \in {"plug2", "plug3"} => next[prev[drivers]] = this
    /\ pc = "plug3" => prev[this] = prev[drivers]
    /\ drivers # None =>
        /\ drivers \in Attached /\ prev[drivers] \in Attached
        /\ \A s \in Attached : drivers <= s /\ s <= prev[drivers]
        /\ \A s \in Attached \ {drivers} :
              prev[s] \in Attached /\ prev[s] < s /\ next[prev[s]] = s
        /\ \A s \in Attached :
              \/ next[s] = drivers
              \/ next[s] \in Attached /\ next[s] > s
              \/ next[s] = this /\ pc \in {"plug2", "plug3"}

PciInv == TypeInv /\ StagesInv /\ ScanInv /\ RingInv

\* What the two sockets can get.
First == Region(Align(pool.addr), Page)
Second == Region(AfterRegion(First), Page)

PoolInv ==
    /\ pool.addr \in Nat /\ pool.len \in Nat
    /\ pool.addr + pool.len <= Top
    /\ \A i \in DOMAIN machine.map :
          machine.map[i].base > pool.addr =>
              pool = NoHole \/ pool.addr + pool.len <= machine.map[i].base

\* The regions of sockets 1 and 2.
RegionsInv ==
    /\ PoolInv
    /\ pc = "Pci" => pool = NoHole /\ regions = <<>>
    /\ regions = <<>> => \A s \in Sockets : base_addr[s] = None
    /\ this = 1 /\ Unborn(this) => regions = <<>>
    /\ this = 1 \/ Unborn(this) =>
        regions \in {<<>>, <<First>>} /\ base_addr[1] \in {None, First}
    /\ \A s \in Sockets : base_addr[s] \in {None, First, Second}
    /\ \A s, t \in Sockets : s # t /\ base_addr[s] = base_addr[t] => base_addr[s] = None

-----------------------------------------------------------------------------
(* Facts about the constants. *)

\* A set of naturals that is not empty has a least element.
LEMMA LeastNat ==
    ASSUME NEW S, S \subseteq Nat, S # {}
    PROVE  \E m \in S : \A n \in S : m <= n
<1>1. IsWellFoundedOn(OpToRel(<, Nat), Nat)
  BY NatLessThanWellFounded
<1>2. PICK m \in S : \A n \in S : <<n, m>> \notin OpToRel(<, Nat)
  BY <1>1, WFMin
<1>3. \A n \in S : ~(n < m)
  BY <1>2 DEF OpToRel
<1>4. QED
  BY <1>3

\* The sockets are numbered from 1.
LEMMA SocketFacts ==
    /\ Cardinality(Sockets) \in Nat \ {0}
    /\ Sockets = 1 .. Cardinality(Sockets)
    /\ Sockets \subseteq Nat \ {0}
    /\ 1 \in Sockets
    /\ None \notin Sockets
<1>1. Cardinality(Sockets) \in Nat
  BY PciAssumption, FS_CardinalityType
<1>2. Cardinality(Sockets) # 0
  BY PciAssumption, FS_EmptySet
<1>3. QED
  BY <1>1, <1>2, PciAssumption

\* NoAddress is none that the scan forms.
LEMMA NoAddressIsNone == NoAddress \notin ScanSpace
  BY PciAssumption DEF NoAddress, ScanSpace

\* The function that begins the scan anew is one that it forms.
LEMMA FirstAddress == <<0, 0, 0>> \in ScanSpace
  BY PciAssumption DEF ScanSpace

-----------------------------------------------------------------------------
(* The scan. *)

\* The order of the slots: by bus, then by slot.
LEMMA RankOrder ==
    ASSUME NEW b \in Nat, NEW s \in 0 .. Slots, NEW c \in Nat, NEW t \in 0 .. Slots,
           Rank(b, s) <= Rank(c, t)
    PROVE  b <= c
<1>1. Slots \in Nat
  BY PciAssumption
<1>2. SUFFICES ASSUME c + 1 <= b PROVE FALSE
  OBVIOUS
<1>3. PICK d \in Nat : b = c + 1 + d
  BY <1>2
<1>4. b * (Slots + 1) = c * (Slots + 1) + (Slots + 1) + d * (Slots + 1)
  BY <1>1, <1>3
<1>5. d * (Slots + 1) >= 0
  BY <1>1
<1>6. c * (Slots + 1) \in Nat /\ d * (Slots + 1) \in Nat
  BY <1>1
<1>7. b * (Slots + 1) + s <= c * (Slots + 1) + t
  BY DEF Rank
<1>8. QED
  BY <1>1, <1>4, <1>5, <1>6, <1>7

\* Slot number Slots comes after the slots of its bus.
LEMMA RankLast ==
    ASSUME NEW b \in Nat, NEW s \in 0 .. Slots, NEW c \in Nat, b <= c, s < Slots
    PROVE  Rank(b, s) < Rank(c, Slots)
<1>1. Slots \in Nat
  BY PciAssumption
<1>2. PICK d \in Nat : c = b + d
  BY SMT
<1>3. c * (Slots + 1) = b * (Slots + 1) + d * (Slots + 1)
  BY <1>1, <1>2
<1>4. b * (Slots + 1) \in Nat /\ d * (Slots + 1) \in Nat
  BY <1>1
<1>5. QED
  BY <1>1, <1>3, <1>4 DEF Rank

\* The places of the slots are counted from 0.
LEMMA RankIsNat == \A b \in 0 .. Buses - 1 : \A s \in 0 .. Slots : Rank(b, s) \in Nat
<1> TAKE b \in 0 .. Buses - 1
<1> TAKE s \in 0 .. Slots
<1>1. b \in Nat /\ s \in Nat /\ Slots + 1 \in Nat
  BY PciAssumption
<1>2. b * (Slots + 1) \in Nat
  BY <1>1
<1>3. QED
  BY <1>1, <1>2 DEF Rank

\* When there is no other function, the scan goes to the least slot behind that
\* answers.
LEMMA FollowingSlot ==
    ASSUME NEW a, is_valid(a), Following(a) # NoAddress,
           ~ /\ multi_function(a[1], a[2])
             /\ a[3] < Funcs - 1
             /\ validate_vid(<<a[1], a[2], a[3] + 1>>)
    PROVE  LET later == {x \in (0 .. Buses - 1) \X (0 .. Slots) \X {0} :
                           Rank(x[1], x[2]) > Rank(a[1], a[2]) /\ validate_vid(x)}
           IN  /\ Following(a) \in later
               /\ \A y \in later :
                    Rank(Following(a)[1], Following(a)[2]) <= Rank(y[1], y[2])
<1> DEFINE later == {x \in (0 .. Buses - 1) \X (0 .. Slots) \X {0} :
                       Rank(x[1], x[2]) > Rank(a[1], a[2]) /\ validate_vid(x)}
           ranks == {Rank(x[1], x[2]) : x \in later}
           least(x) == \A y \in later : Rank(x[1], x[2]) <= Rank(y[1], y[2])
<1>1. Following(a) = IF later = {} THEN NoAddress ELSE CHOOSE x \in later : least(x)
  BY DEF Following
<1>2. later # {}
  BY <1>1
<1>3. \A x \in later : x[1] \in 0 .. Buses - 1 /\ x[2] \in 0 .. Slots
  OBVIOUS
<1>4. ranks \subseteq Nat /\ ranks # {}
  BY <1>2, <1>3, RankIsNat
<1>5. PICK m \in ranks : \A n \in ranks : m <= n
  BY <1>4, LeastNat
<1>6. \E x \in later : least(x)
  BY <1>5
<1>7. QED
  BY <1>1, <1>2, <1>6

\* What next() makes of an address of the scan is one again.
LEMMA FollowingScanned ==
    ASSUME NEW a, a = NoAddress \/ Scanned(a), Following(a) # NoAddress
    PROVE  Scanned(Following(a))
<1> DEFINE B == 0 .. Buses - 1
<1>0. Buses \in Nat \ {0} /\ Slots \in Nat \ {0} /\ Funcs \in Nat \ {0}
  BY PciAssumption
<1>1. CASE ~is_valid(a)
  <2>1. Following(a) = <<0, 0, 0>>
    BY <1>1 DEF Following
  <2>2. Scanned(<<0, 0, 0>>)
    BY <1>0, FirstAddress DEF Scanned
  <2>3. QED
    BY <2>1, <2>2
<1>2. CASE is_valid(a)
  <2>1. /\ a \in ScanSpace
        /\ a[1] \in B /\ a[2] \in 0 .. Slots /\ a[3] \in 0 .. Funcs - 1
        /\ a[2] < Slots
        /\ \A b \in B : validate_vid(<<b, Slots, 0>>) => a[1] <= b
    <3>1. a # NoAddress
      BY <1>0, <1>2 DEF is_valid, NoAddress
    <3>2. QED
      BY <1>0, <1>2, <3>1 DEF is_valid, Scanned, ScanSpace
  <2>2. CASE /\ multi_function(a[1], a[2])
             /\ a[3] < Funcs - 1
             /\ validate_vid(<<a[1], a[2], a[3] + 1>>)
    <3>1. Following(a) = <<a[1], a[2], a[3] + 1>>
      BY <1>2, <2>2 DEF Following
    <3>2. <<a[1], a[2], a[3] + 1>> \in ScanSpace
      BY <1>0, <2>1, <2>2 DEF ScanSpace
    <3>3. QED
      BY <1>0, <2>1, <3>1, <3>2 DEF Scanned
  <2>3. CASE ~ /\ multi_function(a[1], a[2])
               /\ a[3] < Funcs - 1
               /\ validate_vid(<<a[1], a[2], a[3] + 1>>)
    <3> DEFINE later == {x \in B \X (0 .. Slots) \X {0} :
                           Rank(x[1], x[2]) > Rank(a[1], a[2]) /\ validate_vid(x)}
               least(x) == \A y \in later : Rank(x[1], x[2]) <= Rank(y[1], y[2])
    <3>3. \A x \in later : x[1] \in B /\ x[2] \in 0 .. Slots /\ x[3] = 0 /\ x \in ScanSpace
      BY <1>0 DEF ScanSpace
    <3>7. PICK x \in later : x = Following(a) /\ least(x)
      BY <1>2, <2>3, FollowingSlot
    <3>8. \A b \in B : validate_vid(<<b, Slots, 0>>) => x[1] <= b
      <4> TAKE b \in B
      <4>1. SUFFICES ASSUME validate_vid(<<b, Slots, 0>>) PROVE x[1] <= b
        OBVIOUS
      <4>2. a[1] <= b
        BY <2>1, <4>1
      <4>3. Rank(a[1], a[2]) < Rank(b, Slots)
        BY <1>0, <2>1, <4>2, RankLast
      <4>4. Rank(a[1], a[2]) \in Nat /\ Rank(b, Slots) \in Nat
        BY <1>0, <2>1, RankIsNat, Slots \in 0 .. Slots
      <4>5. <<b, Slots, 0>> \in later
        BY <1>0, <4>1, <4>3, <4>4
      <4>6. Rank(x[1], x[2]) <= Rank(b, Slots)
        BY <3>7, <4>5
      <4>7. QED
        BY <1>0, <3>3, <3>7, <4>6, RankOrder
    <3>9. validate_vid(x)
      OBVIOUS
    <3>10. QED
      BY <3>3, <3>7, <3>8, <3>9 DEF Scanned
  <2>4. QED
    BY <2>2, <2>3
<1>3. QED
  BY <1>1, <1>2

-----------------------------------------------------------------------------
(* The walk of the interrupt handler. *)

\* The drivers in the ring are sockets.
LEMMA AttachedSockets == Attached \subseteq Sockets
  BY DEF Attached

\* The walk comes to every driver in the ring.
LEMMA AllVisited ==
    ASSUME TypeInv, RingInv
    PROVE  Attached \subseteq Visited
<1>1. CASE drivers = None
  BY <1>1 DEF RingInv
<1>2. CASE drivers # None
  <2> SUFFICES ASSUME NEW s \in Attached,
                      NEW C \in SUBSET Sockets, drivers \in C, \A x \in C : next[x] \in C
               PROVE  s \in C
    BY <1>2, AttachedSockets DEF Visited, Reached
  <2> SUFFICES ASSUME Attached \ C # {} PROVE FALSE
    OBVIOUS
  <2>1. Attached \ C \subseteq Nat
    BY AttachedSockets, SocketFacts
  <2>2. PICK m \in Attached \ C : \A n \in Attached \ C : m <= n
    BY <2>1, LeastNat
  <2>3. prev[m] \in Attached /\ prev[m] < m /\ next[prev[m]] = m
    BY <1>2, <2>2 DEF RingInv
  <2>4. prev[m] \in Nat /\ m \in Nat
    BY <2>1, <2>3, AttachedSockets, SocketFacts
  <2>5. prev[m] \in C
    BY <2>2, <2>3, <2>4
  <2>6. QED
    BY <2>2, <2>3, <2>5
<1>3. QED
  BY <1>1, <1>2

\* It comes back to the first driver, also between the stores of plug().
LEMMA WalkReturns ==
    ASSUME TypeInv, RingInv
    PROVE  Returns
<1>1. SUFFICES ASSUME drivers # None PROVE drivers \in Reached(next[drivers])
  BY DEF Returns
<1>2. drivers \in Sockets
  BY <1>1 DEF TypeInv
<1>3. SUFFICES ASSUME NEW C \in SUBSET Sockets, next[drivers] \in C,
                      \A x \in C : next[x] \in C
               PROVE  drivers \in C
  BY <1>2 DEF Reached
<1>4. \A s \in Attached : \/ next[s] = drivers
                          \/ next[s] \in Attached /\ next[s] > s
                          \/ next[s] = this /\ next[this] = drivers
  BY <1>1 DEF RingInv
<1>5. drivers \in Attached
  BY <1>1 DEF RingInv
<1>6. CASE C \cap Attached = {}
  BY <1>3, <1>4, <1>5, <1>6
<1>7. CASE C \cap Attached # {}
  <2> DEFINE N == Cardinality(Sockets)
             D == {N - s : s \in C \cap Attached}
  <2>0. N \in Nat /\ \A s \in Attached : s \in 1 .. N
    BY AttachedSockets, SocketFacts
  <2> HIDE DEF N
  <2>1. D \subseteq Nat /\ D # {}
    BY <1>7, <2>0
  <2>2. PICK m \in D : \A n \in D : m <= n
    BY <2>1, LeastNat
  <2>3. PICK g \in C \cap Attached : m = N - g
    BY <2>2
  <2>4. \A s \in C \cap Attached : N - g <= N - s
    BY <2>2, <2>3
  <2>5. \A s \in C \cap Attached : s <= g
    BY <2>0, <2>3, <2>4
  <2>6. next[g] \in C
    BY <1>3, <2>3
  <2>7. ~(next[g] \in Attached /\ next[g] > g)
    BY <2>0, <2>3, <2>5, <2>6
  <2>8. QED
    BY <1>3, <1>4, <2>3, <2>6, <2>7
<1>8. QED
  BY <1>6, <1>7

-----------------------------------------------------------------------------
(* The stages of construction. *)

\* The first state is one of the invariant.
LEMMA InitPci == Init => PciInv
<1> SUFFICES ASSUME Init PROVE PciInv
  OBVIOUS
<1>0. \A s \in Sockets : s >= 1
  BY SocketFacts
<1>1. TypeInv
  BY SocketFacts DEF Init, TypeInv
<1>2. Attached = {}
  BY DEF Init, Attached
<1>3. StagesInv
  BY <1>0, <1>2 DEF Init, StagesInv, Unborn, Plugging
<1>4. ScanInv
  BY DEF Init, ScanInv
<1>5. RingInv
  BY <1>2 DEF Init, RingInv, Plugging
<1>6. QED
  BY <1>1, <1>3, <1>4, <1>5 DEF PciInv

\* The constructor's return leads to the next socket or to the end.
LEMMA Returned ==
    ASSUME TypeInv, Return
    PROVE  /\ this' \in Sockets /\ pc' \in {"next", "done"} /\ candidate' = NoAddress
           /\ \/ this' = this + 1 /\ pc' = "next"
              \/ this' = this /\ pc' = "done" /\ \A s \in Sockets : s <= this
<1> DEFINE N == Cardinality(Sockets)
<1>1. N \in Nat /\ Sockets = 1 .. N
  BY SocketFacts
<1>2. this \in Sockets
  BY DEF TypeInv
<1> HIDE DEF N
<1>3. CASE this + 1 \in Sockets
  BY <1>2, <1>3 DEF Return
<1>4. CASE this + 1 \notin Sockets
  <2>1. this' = this /\ pc' = "done" /\ candidate' = NoAddress
    BY <1>4 DEF Return
  <2>2. \A s \in Sockets : s <= this
    BY <1>1, <1>2, <1>4
  <2>3. QED
    BY <1>2, <2>1, <2>2
<1>5. QED
  BY <1>3, <1>4

\* Every step keeps the types; the handler never hangs.
LEMMA TypeStep ==
    ASSUME PciInv, [Next]_vars
    PROVE  TypeInv'
<1> USE DEF PciInv
<1>1. CASE Pci_Pci
  BY <1>1 DEF TypeInv, Pci_Pci, ring, card
<1>2. CASE next_candidate
  <2>1. this' \in Sockets /\ pc' \in {"next", "done", "look"}
    BY <1>2, Returned DEF next_candidate, TypeInv
  <2>2. QED
    BY <1>2, <2>1 DEF TypeInv, next_candidate, ring, card
<1>3. CASE look
  BY <1>3 DEF TypeInv, look, ring, card
<1>4. CASE allocate_region
  <2>1. candidate \in ScanSpace
    BY <1>4 DEF ScanInv, Scanned, allocate_region
  <2>2. this' \in Sockets /\ pc' \in {"next", "done", "attach"}
    BY <1>4, Returned DEF allocate_region, TypeInv
  <2>3. /\ address' \in [Sockets -> ScanSpace \cup {NoAddress}]
        /\ DOMAIN base_addr' = Sockets
    BY <1>4, <2>1 DEF TypeInv, allocate_region
  <2>4. QED
    BY <1>4, <2>2, <2>3 DEF TypeInv, allocate_region, ring, card
<1>5. CASE attach_first
  BY <1>5 DEF TypeInv, attach_first, ring, card
<1>6. CASE plug_next
  BY <1>6 DEF TypeInv, plug_next, Store, ring, card
<1>7. CASE plug_prev_next
  BY <1>7 DEF TypeInv, plug_prev_next, Store, ring, card
<1>8. CASE plug_prev
  BY <1>8 DEF TypeInv, RingInv, plug_prev, Store, ring, card
<1>9. CASE plug_obj_prev
  BY <1>9 DEF TypeInv, plug_obj_prev, Store, ring, card
<1>10. CASE setup_irq
  BY <1>10 DEF TypeInv, setup_irq, ring, card
<1>11. CASE set_bar
  BY <1>11 DEF TypeInv, set_bar, ring, card
<1>12. CASE set_mask
  <2>1. this' \in Sockets /\ pc' \in {"next", "done"}
    BY <1>12, Returned DEF set_mask
  <2>2. QED
    BY <1>12, <2>1 DEF TypeInv, set_mask, ring, card
<1>13. CASE isr
  BY <1>13, WalkReturns DEF TypeInv, isr, ring, card
<1>14. ASSUME NEW s \in Sockets, card_event(s) PROVE TypeInv'
  BY <1>14 DEF TypeInv, card_event, ring, card
<1>15. CASE write_mask
  BY <1>15 DEF TypeInv, write_mask, ring, card
<1>16. CASE UNCHANGED vars
  BY <1>16 DEF TypeInv, vars, ring, card
<1>17. QED
  BY <1>1, <1>2, <1>3, <1>4, <1>5, <1>6, <1>7, <1>8, <1>9, <1>10, <1>11, <1>12,
     <1>13, <1>14, <1>15, <1>16 DEF Next, third, attach_driver

\* No socket is in the ring before the last store of attach_driver.
LEMMA SameAttached ==
    ASSUME PciInv, [Next]_vars, ~attach_first, ~plug_obj_prev
    PROVE  Attached' = Attached
<1> USE DEF PciInv
<1>0. this \in Sockets /\ (Unborn(this) => address[this] = NoAddress)
  BY DEF TypeInv, StagesInv
<1>1. CASE Pci_Pci
  BY <1>1 DEF Pci_Pci, Attached, Plugging, NoAddress
<1>2. CASE next_candidate
  <2>1. pc' \in {"next", "done", "look"}
    BY <1>2, Returned DEF next_candidate
  <2>2. QED
    BY <1>2, <2>1 DEF next_candidate, Attached, Plugging, NoAddress
<1>3. CASE look
  BY <1>3 DEF look, Attached, Plugging, NoAddress
<1>4. CASE allocate_region
  <2>1. CASE address' = address
    <3>1. pc' \in {"next", "done", "attach"} /\ (pc' = "attach" => this' = this)
      BY <1>4, Returned DEF allocate_region
    <3>2. address[this] = NoAddress /\ ~Plugging
      BY <1>0, <1>4 DEF allocate_region, Unborn, Plugging
    <3>3. QED
      BY <2>1, <3>1, <3>2 DEF Attached, Plugging, NoAddress
  <2>2. CASE address' = [address EXCEPT ![this] = candidate] /\ pc' = "attach" /\ this' = this
    <3>1. address[this] = NoAddress /\ ~Plugging
      BY <1>0, <1>4 DEF allocate_region, Unborn, Plugging
    <3>2. \A s \in Sockets : s # this => address'[s] = address[s]
      BY <2>2 DEF TypeInv
    <3>3. QED
      BY <1>0, <2>2, <3>1, <3>2 DEF Attached, Plugging, NoAddress
  <2>3. QED
    BY <1>4, <2>1, <2>2 DEF allocate_region
<1>5. CASE plug_next \/ plug_prev_next \/ plug_prev
  BY <1>5 DEF plug_next, plug_prev_next, plug_prev, Store, Attached, Plugging, NoAddress
<1>6. CASE setup_irq \/ set_bar
  BY <1>6 DEF setup_irq, set_bar, Attached, Plugging, NoAddress
<1>7. CASE set_mask
  <2>1. pc' \in {"next", "done"}
    BY <1>7, Returned DEF set_mask
  <2>2. QED
    BY <1>7, <2>1 DEF set_mask, Attached, Plugging, NoAddress
<1>8. CASE isr
  BY <1>8, WalkReturns DEF isr, Attached, Plugging, NoAddress
<1>9. ASSUME NEW s \in Sockets, card_event(s) PROVE Attached' = Attached
  BY <1>9 DEF card_event, Attached, Plugging, NoAddress
<1>10. CASE write_mask \/ UNCHANGED vars
  BY <1>10 DEF write_mask, vars, Attached, Plugging, NoAddress
<1>11. QED
  BY <1>1, <1>2, <1>3, <1>4, <1>5, <1>6, <1>7, <1>8, <1>9, <1>10
     DEF Next, third, attach_driver

\* The last store of attach_driver puts the socket into it.
LEMMA OneMoreAttached ==
    ASSUME PciInv, attach_first \/ plug_obj_prev
    PROVE  Attached' = Attached \cup {this} /\ this \notin Attached /\ this' = this
<1>1. this \in Sockets /\ address[this] # NoAddress /\ Plugging
  BY DEF PciInv, TypeInv, StagesInv, attach_first, plug_obj_prev, Store, Plugging
<1>2. address' = address /\ this' = this /\ pc' = "setup_irq"
  BY DEF attach_first, plug_obj_prev, Store
<1>3. QED
  BY <1>1, <1>2 DEF Attached, Plugging, NoAddress

\* Nothing behind the socket under construction is in the ring.
LEMMA AttachedBefore ==
    ASSUME PciInv
    PROVE  \A s \in Attached : s <= this
<1>1. \A s \in Sockets : s \in Nat /\ this \in Nat
  BY SocketFacts DEF PciInv, TypeInv
<1>2. QED
  BY <1>1 DEF PciInv, StagesInv, Attached, Unborn

\* Every step keeps the order in which a socket gets what it has.
LEMMA StagesStep ==
    ASSUME PciInv, [Next]_vars
    PROVE  StagesInv'
<1> USE DEF PciInv
<1>0. /\ this \in Sockets /\ \A s \in Sockets : s \in Nat
      /\ base_addr = [s \in Sockets |-> base_addr[s]] \/ DOMAIN base_addr = Sockets
  BY SocketFacts DEF TypeInv
<1>1. CASE Pci_Pci
  <2>1. Attached' = Attached
    BY <1>1, SameAttached DEF Pci_Pci, attach_first, plug_obj_prev, Store
  <2>2. QED
    BY <1>1, <2>1 DEF Pci_Pci, StagesInv, Unborn, Plugging, NoAddress, card
<1>2. CASE next_candidate
  <2>1. Attached' = Attached
    BY <1>2, SameAttached DEF next_candidate, attach_first, plug_obj_prev, Store
  <2>2. \A s \in Sockets : Unborn(s)' => Unborn(s)
    BY <1>0, <1>2, Returned DEF next_candidate, Unborn
  <2>3. pc' \in {"next", "done", "look"}
    BY <1>2, Returned DEF next_candidate
  <2>4. QED
    BY <1>2, <2>1, <2>2, <2>3 DEF next_candidate, StagesInv, Plugging, NoAddress, card
<1>3. CASE look
  <2>1. Attached' = Attached
    BY <1>3, SameAttached DEF look, attach_first, plug_obj_prev, Store
  <2>2. QED
    BY <1>3, <2>1 DEF look, StagesInv, Unborn, Plugging, NoAddress, card
<1>4. CASE allocate_region
  <2>1. Attached' = Attached
    BY <1>4, SameAttached DEF allocate_region, attach_first, plug_obj_prev, Store
  <2>2. CASE Return /\ UNCHANGED <<regions, base_addr, address>>
    <3>1. \A s \in Sockets : Unborn(s)' => Unborn(s)
      BY <1>0, <1>4, <2>2, Returned DEF allocate_region, Unborn
    <3>2. pc' \in {"next", "done"}
      BY <2>2, Returned
    <3>3. QED
      BY <1>4, <2>1, <2>2, <3>1, <3>2
         DEF allocate_region, StagesInv, Plugging, NoAddress, card
  <2>3. CASE /\ this' = this /\ pc' = "attach"
             /\ \E r : base_addr' = [base_addr EXCEPT ![this] = r]
             /\ address' = [address EXCEPT ![this] = candidate]
    <3>1. \A s \in Sockets : Unborn(s)' => s # this /\ Unborn(s)
      BY <1>0, <2>3 DEF Unborn
    <3>2. \A s \in Sockets : s # this =>
             address'[s] = address[s] /\ base_addr'[s] = base_addr[s]
      BY <2>3 DEF TypeInv
    <3>3. address'[this'] # NoAddress
      BY <1>0, <1>4, <2>3 DEF TypeInv, ScanInv, allocate_region
    <3>4. QED
      BY <1>4, <2>1, <2>3, <3>1, <3>2, <3>3
         DEF allocate_region, StagesInv, Plugging, NoAddress, card
  <2>4. QED
    BY <1>4, <2>2, <2>3 DEF allocate_region
<1>5. CASE attach_first
  <2>1. Attached \subseteq Attached'
    BY <1>5, OneMoreAttached
  <2>2. QED
    BY <1>5, <2>1 DEF attach_first, StagesInv, Unborn, Plugging, NoAddress, card
<1>6. CASE plug_next \/ plug_prev_next \/ plug_prev
  <2>1. Attached' = Attached
    BY <1>6, SameAttached
       DEF plug_next, plug_prev_next, plug_prev, attach_first, plug_obj_prev, Store
  <2>2. QED
    BY <1>6, <2>1 DEF plug_next, plug_prev_next, plug_prev, Store, StagesInv, Unborn,
                      Plugging, NoAddress, card
<1>7. CASE plug_obj_prev
  <2>1. Attached \subseteq Attached'
    BY <1>7, OneMoreAttached
  <2>2. QED
    BY <1>7, <2>1 DEF plug_obj_prev, Store, StagesInv, Unborn, Plugging, NoAddress, card
<1>8. CASE setup_irq
  <2>1. Attached' = Attached
    BY <1>8, SameAttached DEF setup_irq, attach_first, plug_obj_prev, Store
  <2>2. QED
    BY <1>0, <1>8, <2>1 DEF setup_irq, StagesInv, Unborn, Plugging, NoAddress, card
<1>9. CASE set_bar
  <2>1. Attached' = Attached
    BY <1>9, SameAttached DEF set_bar, attach_first, plug_obj_prev, Store
  <2>2. QED
    BY <1>0, <1>9, <2>1 DEF set_bar, StagesInv, Unborn, Plugging, NoAddress, card
<1>10. CASE set_mask
  <2>1. Attached' = Attached
    BY <1>10, SameAttached DEF set_mask, attach_first, plug_obj_prev, Store
  <2>2. this \in Attached
    BY <1>0, <1>10 DEF set_mask, StagesInv, Attached, Plugging
  <2>3. \A s \in Sockets : Unborn(s)' => Unborn(s)
    BY <1>0, <1>10, Returned DEF set_mask, Unborn
  <2>4. pc' \in {"next", "done"}
    BY <1>10, Returned DEF set_mask
  <2>5. QED
    BY <1>0, <1>10, <2>1, <2>2, <2>3, <2>4
       DEF set_mask, StagesInv, Plugging, NoAddress, card
<1>11. CASE isr
  <2>1. Attached' = Attached
    BY <1>11, SameAttached DEF isr, attach_first, plug_obj_prev, Store
  <2>2. pc' = pc
    BY <1>11, WalkReturns DEF isr
  <2>3. event' \in [Sockets -> BOOLEAN] /\ \A s \in Sockets : event'[s] => event[s]
    BY <1>11, WalkReturns DEF isr
  <2>4. QED
    BY <1>11, <2>1, <2>2, <2>3 DEF isr, StagesInv, Unborn, Plugging, NoAddress, card
<1>12. ASSUME NEW s \in Sockets, card_event(s) PROVE StagesInv'
  <2>1. Attached' = Attached
    BY <1>12, SameAttached DEF card_event, attach_first, plug_obj_prev, Store
  <2>2. event' \in [Sockets -> BOOLEAN] /\ \A t \in Sockets : event'[t] => mask[t]
    BY <1>12 DEF card_event, StagesInv
  <2>3. QED
    BY <1>12, <2>1, <2>2 DEF card_event, StagesInv, Unborn, Plugging, NoAddress, card
<1>13. CASE write_mask \/ UNCHANGED vars
  <2>1. Attached' = Attached
    BY <1>13 DEF write_mask, vars, Attached, Plugging, NoAddress
  <2>2. QED
    BY <1>13, <2>1 DEF write_mask, vars, StagesInv, Unborn, Plugging, NoAddress, card
<1>14. QED
  BY <1>1, <1>2, <1>3, <1>4, <1>5, <1>6, <1>7, <1>8, <1>9, <1>10, <1>11, <1>12, <1>13
     DEF Next, third, attach_driver

-----------------------------------------------------------------------------
(* The addresses. *)

\* What answers does not change.
LEMMA SameMachine ==
    ASSUME [Next]_vars
    PROVE  machine' = machine
<1>1. ASSUME NEW s \in Sockets, card_event(s) PROVE machine' = machine
  BY <1>1 DEF card_event
<1>2. CASE UNCHANGED vars
  BY <1>2 DEF vars
<1>3. QED
  BY <1>1, <1>2 DEF Next, third, attach_driver, Pci_Pci, next_candidate, look,
     allocate_region, attach_first, plug_next, plug_prev_next, plug_prev,
     plug_obj_prev, Store, setup_irq, set_bar, set_mask, write_mask, isr

\* Nor what the scan can be at.
LEMMA SameScan ==
    ASSUME machine' = machine
    PROVE  \A c : Scanned(c)' = Scanned(c)
  BY DEF Scanned, validate_vid, ScanSpace

\* Every step keeps the addresses among those that the scan can be at, and distinct.
LEMMA ScanStep ==
    ASSUME PciInv, [Next]_vars
    PROVE  ScanInv'
<1> USE DEF PciInv
<1>0. /\ this \in Sockets
      /\ NoAddress' = NoAddress
      /\ \A c : Scanned(c)' = Scanned(c)
  BY SameMachine, SameScan DEF TypeInv, NoAddress
<1>1. CASE Pci_Pci
  BY <1>0, <1>1 DEF Pci_Pci, ScanInv
<1>2. CASE next_candidate
  <2>1. CASE Return
    BY <1>0, <1>2, <2>1, Returned DEF next_candidate, ScanInv
  <2>2. CASE /\ Following(candidate) # NoAddress
             /\ candidate' = Following(candidate)
             /\ pc' = "look"
    <3>1. Scanned(Following(candidate))
      BY <2>2, FollowingScanned DEF ScanInv
    <3>2. QED
      BY <1>0, <1>2, <2>2, <3>1 DEF next_candidate, ScanInv
  <2>3. QED
    BY <1>2, <2>1, <2>2 DEF next_candidate
<1>3. CASE look
  <2>1. CASE is_free(candidate)
    <3>1. candidate # NoAddress
      BY <1>3 DEF look, ScanInv
    <3>2. \A s \in Attached : address[s] # candidate
      BY <2>1, AllVisited DEF is_free
    <3>3. \A s \in Sockets : address[s] # NoAddress => s \in Attached
      BY <1>3 DEF look, Attached, Plugging
    <3>4. \A s \in Sockets : address[s] # candidate
      BY <3>1, <3>2, <3>3
    <3>5. QED
      BY <1>0, <1>3, <3>1, <3>4 DEF look, ScanInv
  <2>2. CASE ~is_free(candidate)
    BY <1>0, <1>3, <2>2 DEF look, ScanInv
  <2>3. QED
    BY <2>1, <2>2
<1>4. CASE allocate_region
  <2>1. CASE Return /\ UNCHANGED address
    BY <1>0, <1>4, <2>1, Returned DEF allocate_region, ScanInv
  <2>2. CASE /\ this' = this /\ pc' = "attach" /\ candidate' = candidate
             /\ address' = [address EXCEPT ![this] = candidate]
    <3>1. address'[this] = candidate /\ \A s \in Sockets : s # this => address'[s] = address[s]
      BY <1>0, <2>2 DEF TypeInv
    <3>2. candidate # NoAddress /\ \A s \in Sockets : address[s] # candidate
      BY <1>4 DEF allocate_region, ScanInv
    <3>3. QED
      BY <1>0, <2>2, <3>1, <3>2 DEF ScanInv
  <2>3. QED
    BY <1>4, <2>1, <2>2 DEF allocate_region
<1>5. CASE attach_driver \/ setup_irq \/ set_bar
  BY <1>0, <1>5 DEF attach_driver, attach_first, plug_next, plug_prev_next, plug_prev,
     plug_obj_prev, Store, setup_irq, set_bar, ScanInv
<1>6. CASE set_mask
  BY <1>0, <1>6, Returned DEF set_mask, ScanInv
<1>7. CASE isr
  BY <1>0, <1>7, WalkReturns DEF isr, ScanInv
<1>8. ASSUME NEW s \in Sockets, card_event(s) PROVE ScanInv'
  BY <1>0, <1>8 DEF card_event, ScanInv
<1>9. CASE write_mask \/ UNCHANGED vars
  BY <1>0, <1>9 DEF write_mask, vars, ScanInv
<1>10. QED
  BY <1>1, <1>2, <1>3, <1>4, <1>5, <1>6, <1>7, <1>8, <1>9 DEF Next, third

-----------------------------------------------------------------------------
(* The ring. *)

\* Every store of attach_driver keeps the ring whole.
LEMMA RingStep ==
    ASSUME PciInv, [Next]_vars
    PROVE  RingInv'
<1> USE DEF PciInv
<1>0. /\ this \in Sockets /\ \A s \in Sockets : s \in Nat
      /\ next \in [Sockets -> Sockets] /\ prev \in [Sockets -> Sockets]
      /\ None \notin Sockets
      /\ Attached \subseteq Sockets
  BY SocketFacts, AttachedSockets DEF TypeInv
<1>1. ASSUME ~Plugging, ~Plugging', Attached' = Attached, UNCHANGED ring
      PROVE  RingInv'
  <2>1. ~(pc \in {"attach", "plug1", "plug2", "plug3"})
        /\ ~(pc' \in {"attach", "plug1", "plug2", "plug3"})
    BY <1>1 DEF Plugging
  <2>2. next' = next /\ prev' = prev /\ drivers' = drivers
    BY <1>1 DEF ring
  <2>3. QED
    BY <1>1, <2>1, <2>2 DEF RingInv
<1>2. CASE Pci_Pci \/ look \/ setup_irq \/ set_bar
  <2>1. ~Plugging /\ ~Plugging'
    BY <1>2 DEF Pci_Pci, look, setup_irq, set_bar, Plugging
  <2>2. Attached' = Attached
    BY <1>2, SameAttached
       DEF Pci_Pci, look, setup_irq, set_bar, attach_first, plug_obj_prev, Store
  <2>3. QED
    BY <1>1, <1>2, <2>1, <2>2 DEF Pci_Pci, look, setup_irq, set_bar
<1>3. CASE next_candidate \/ set_mask
  <2>1. ~Plugging /\ ~Plugging'
    BY <1>3, Returned DEF next_candidate, set_mask, Plugging
  <2>2. Attached' = Attached
    BY <1>3, SameAttached DEF next_candidate, set_mask, attach_first, plug_obj_prev, Store
  <2>3. QED
    BY <1>1, <1>3, <2>1, <2>2 DEF next_candidate, set_mask
<1>4. CASE allocate_region
  <2>1. Attached' = Attached /\ UNCHANGED ring
    BY <1>4, SameAttached DEF allocate_region, attach_first, plug_obj_prev, Store
  <2>2. CASE pc' # "attach"
    <3>1. ~Plugging /\ ~Plugging'
      BY <1>4, <2>2, Returned DEF allocate_region, Plugging
    <3>2. QED
      BY <1>1, <2>1, <3>1
  <2>3. CASE pc' = "attach"
    <3>1. next' = next /\ prev' = prev /\ drivers' = drivers /\ pc = "allocate"
      BY <1>4, <2>1 DEF ring, allocate_region
    <3>2. QED
      BY <2>1, <2>3, <3>1 DEF RingInv, Plugging
  <2>4. QED
    BY <2>2, <2>3
<1>5. CASE attach_first
  <2>1. Attached' = {this} /\ this' = this
    BY <1>5, OneMoreAttached DEF RingInv, attach_first
  <2>2. next[this] = this /\ prev[this] = this
    BY <1>0, <1>5, OneMoreAttached DEF RingInv, attach_first
  <2>3. drivers' = this /\ next' = next /\ prev' = prev /\ pc' = "setup_irq" /\ pc = "attach"
    BY <1>5 DEF attach_first
  <2>4. Attached = {}
    BY <1>5 DEF attach_first, RingInv
  <2>5. QED
    BY <1>0, <2>1, <2>2, <2>3, <2>4 DEF RingInv, Plugging
<1>6. CASE plug_next
  <2>1. Attached' = Attached
    BY <1>6, SameAttached DEF plug_next, attach_first, plug_obj_prev, Store
  <2>2. this \notin Attached
    BY <1>6 DEF Attached, Plugging, plug_next, Store
  <2>3. /\ pc = "attach" /\ pc' = "plug1" /\ this' = this /\ drivers' = drivers
        /\ prev' = prev /\ drivers # None /\ drivers \in Sockets
        /\ next' = [next EXCEPT ![this] = drivers]
    BY <1>6 DEF plug_next, Store, TypeInv
  <2>4. next'[this] = drivers /\ \A s \in Sockets : s # this => next'[s] = next[s]
    BY <1>0, <2>3
  <2>5. QED
    BY <1>0, <2>1, <2>2, <2>3, <2>4 DEF RingInv, Plugging
<1>7. CASE plug_prev_next
  <2>1. Attached' = Attached
    BY <1>7, SameAttached DEF plug_prev_next, attach_first, plug_obj_prev, Store
  <2>2. this \notin Attached
    BY <1>7 DEF Attached, Plugging, plug_prev_next, Store
  <2>3. /\ pc = "plug1" /\ pc' = "plug2" /\ this' = this /\ drivers' = drivers
        /\ prev' = prev
        /\ next' = [next EXCEPT ![prev[drivers]] = this]
    BY <1>7 DEF plug_prev_next, Store
  <2> DEFINE last == prev[drivers]
  <2>4. drivers # None /\ drivers \in Sockets /\ last \in Attached
        /\ next[this] = drivers /\ last # this
    BY <2>2, <2>3 DEF RingInv, TypeInv
  <2>5. next'[last] = this /\ \A s \in Sockets : s # last => next'[s] = next[s]
    BY <1>0, <2>3, <2>4
  <2>6. \A s \in Attached \ {drivers} : prev[s] # last
    BY <1>0, <2>4 DEF RingInv
  <2>7. QED
    BY <1>0, <2>1, <2>2, <2>3, <2>4, <2>5, <2>6 DEF RingInv, Plugging
<1>8. CASE plug_prev
  <2>1. Attached' = Attached
    BY <1>8, SameAttached DEF plug_prev, attach_first, plug_obj_prev, Store
  <2>2. this \notin Attached
    BY <1>8 DEF Attached, Plugging, plug_prev, Store
  <2>3. /\ pc = "plug2" /\ pc' = "plug3" /\ this' = this /\ drivers' = drivers
        /\ next' = next
        /\ prev' = [prev EXCEPT ![this] = prev[drivers]]
    BY <1>8 DEF plug_prev, Store
  <2>4. drivers # None /\ drivers \in Attached /\ drivers # this
    BY <2>2, <2>3 DEF RingInv
  <2>5. prev'[this] = prev[drivers] /\ \A s \in Sockets : s # this => prev'[s] = prev[s]
    BY <1>0, <2>3
  <2>6. QED
    BY <1>0, <2>1, <2>2, <2>3, <2>4, <2>5 DEF RingInv, Plugging
<1>9. CASE plug_obj_prev
  <2>1. Attached' = Attached \cup {this} /\ this \notin Attached /\ this' = this
    BY <1>9, OneMoreAttached
  <2>2. /\ pc = "plug3" /\ pc' = "setup_irq" /\ drivers' = drivers /\ next' = next
        /\ prev' = [prev EXCEPT ![drivers] = this]
    BY <1>9 DEF plug_obj_prev, Store
  <2>3. drivers # None /\ drivers \in Attached /\ drivers # this
    BY <2>1, <2>2 DEF RingInv
  <2>4. prev'[drivers] = this /\ \A s \in Sockets : s # drivers => prev'[s] = prev[s]
    BY <1>0, <2>2, <2>3
  <2>5. \A s \in Attached : s < this
    BY <1>0, <2>1, AttachedBefore
  <2>6. prev[this] = prev[drivers] /\ next[prev[drivers]] = this /\ next[this] = drivers
        /\ prev[drivers] \in Attached
    BY <2>2, <2>3 DEF RingInv
  <2>7. QED
    BY <1>0, <2>1, <2>2, <2>3, <2>4, <2>5, <2>6 DEF RingInv, Plugging
<1>10. CASE isr
  <2>1. Attached' = Attached
    BY <1>10, SameAttached DEF isr, attach_first, plug_obj_prev, Store
  <2>2. pc' = pc /\ this' = this /\ next' = next /\ prev' = prev /\ drivers' = drivers
    BY <1>10, WalkReturns DEF isr, ring
  <2>3. QED
    BY <2>1, <2>2 DEF RingInv, Plugging
<1>11. ASSUME NEW s \in Sockets, card_event(s) PROVE RingInv'
  <2>1. Attached' = Attached
    BY <1>11, SameAttached DEF card_event, attach_first, plug_obj_prev, Store, Next
  <2>2. pc' = pc /\ this' = this /\ next' = next /\ prev' = prev /\ drivers' = drivers
    BY <1>11 DEF card_event, ring
  <2>3. QED
    BY <2>1, <2>2 DEF RingInv, Plugging
<1>12. CASE write_mask \/ UNCHANGED vars
  <2>1. Attached' = Attached
    BY <1>12 DEF write_mask, vars, Attached, Plugging, NoAddress
  <2>2. pc' = pc /\ this' = this /\ next' = next /\ prev' = prev /\ drivers' = drivers
    BY <1>12 DEF write_mask, vars, ring
  <2>3. QED
    BY <2>1, <2>2 DEF RingInv, Plugging
<1>13. QED
  BY <1>2, <1>3, <1>4, <1>5, <1>6, <1>7, <1>8, <1>9, <1>10, <1>11, <1>12
     DEF Next, third, attach_driver

\* The invariant of the scan, the stages and the ring.
THEOREM PciSafe == Spec => []PciInv
<1>1. PciInv /\ [Next]_vars => PciInv'
  BY TypeStep, StagesStep, ScanStep, RingStep DEF PciInv
<1>2. QED
  BY InitPci, <1>1, PTL DEF Spec

-----------------------------------------------------------------------------
(* No device gets two drivers. *)

\* The bus on which the address of slot number Slots selects a device.
LEMMA OddBus ==
    ASSUME NEW b \in Nat
    PROVE  \/ b % 2 = 0 /\ 2 * (b \div 2) + 1 = b + 1
           \/ b % 2 = 1 /\ 2 * (b \div 2) + 1 = b /\ b >= 1
                        /\ 2 * ((b - 1) \div 2) + 1 = b
  OBVIOUS

\* Two addresses that the scan has reached do not select the same device.
LEMMA SelectsApart ==
    ASSUME NEW a, NEW c, Scanned(a), Scanned(c), a # c
    PROVE  Selects(a) # Selects(c)
<1>0. Buses \in Nat \ {0} /\ Slots \in Nat \ {0} /\ Funcs \in Nat \ {0}
  BY PciAssumption
<1>1. ASSUME NEW x, Scanned(x)
      PROVE  /\ x = <<x[1], x[2], x[3]>> /\ x[1] \in 0 .. Buses - 1
             /\ x[2] \in 0 .. Slots /\ x[3] \in 0 .. Funcs - 1
  BY <1>1 DEF Scanned, ScanSpace
\* Slot number Slots is taken on an even bus only, and on one bus only.
<1>2. ASSUME NEW x, Scanned(x), NEW y, Scanned(y), ~(x[2] < Slots)
      PROVE  /\ x = <<x[1], Slots, 0>>
             /\ Selects(x) = <<2 * (x[1] \div 2) + 1, 0, 0>>
             /\ x[1] % 2 = 0
             /\ y[1] <= x[1]
  <2>1. x[2] = Slots /\ x[3] = 0 /\ x = <<x[1], Slots, 0>> /\ x[1] \in 0 .. Buses - 1
    BY <1>0, <1>1, <1>2 DEF Scanned
  <2>2. Selects(x) = <<2 * (x[1] \div 2) + 1, 0, 0>>
    BY <1>2, <2>1 DEF Selects
  <2>3. validate_vid(x)
    BY <1>2, <2>1 DEF Scanned
  <2>4. y[1] <= x[1]
    BY <1>2, <2>1, <2>3 DEF Scanned
  <2>5. ASSUME x[1] % 2 = 1 PROVE FALSE
    <3>1. x[1] >= 1 /\ 2 * (x[1] \div 2) + 1 = x[1] /\ 2 * ((x[1] - 1) \div 2) + 1 = x[1]
      BY <2>1, <2>5, OddBus
    <3> DEFINE w == <<x[1] - 1, Slots, 0>>
    <3>2. w[1] = x[1] - 1 /\ w[2] = Slots /\ w[3] = 0 /\ ~(Slots < Slots)
      BY <1>0
    <3>3. Selects(w) = <<x[1], 0, 0>>
      BY <3>1, <3>2 DEF Selects
    <3>4. Selects(x) = <<x[1], 0, 0>>
      BY <2>2, <3>1
    <3>5. validate_vid(w)
      BY <2>3, <3>3, <3>4 DEF validate_vid
    <3>6. x[1] - 1 \in 0 .. Buses - 1
      BY <1>0, <2>1, <3>1
    <3>7. x[1] <= x[1] - 1
      BY <1>2, <3>5, <3>6 DEF Scanned
    <3>8. QED
      BY <2>1, <3>7
  <2>6. x[1] % 2 = 0
    BY <2>1, <2>5, OddBus
  <2>7. QED
    BY <2>1, <2>2, <2>4, <2>6
<1>3. ASSUME NEW x, Scanned(x), NEW y, Scanned(y), ~(x[2] < Slots), y[2] < Slots
      PROVE  Selects(x) # Selects(y)
  <2>1. Selects(y) = y
    BY <1>3 DEF Selects
  <2>2. Selects(x)[1] = x[1] + 1 /\ y[1] <= x[1]
    BY <1>1, <1>2, <1>3, OddBus
  <2>3. QED
    BY <1>1, <1>3, <2>1, <2>2
<1>4. CASE a[2] < Slots /\ c[2] < Slots
  BY <1>4 DEF Selects
<1>5. CASE ~(a[2] < Slots) /\ ~(c[2] < Slots)
  <2>1. a = <<a[1], Slots, 0>> /\ c = <<c[1], Slots, 0>> /\ a[1] <= c[1] /\ c[1] <= a[1]
    BY <1>2, <1>5
  <2>2. a[1] = c[1]
    BY <1>1, <2>1
  <2>3. QED
    BY <2>1, <2>2
<1>6. QED
  BY <1>3, <1>4, <1>5

\* pci.cpp:230, pci.cpp:120: no device gets two drivers, though the scan takes a
\* slot too many on every bus.
THEOREM OneDriver == Spec => []OneDriverEach
<1>1. PciInv => OneDriverEach
  <2> SUFFICES ASSUME PciInv, NEW s \in Sockets, NEW t \in Sockets, s # t,
                      address[s] # NoAddress, address[t] # NoAddress
               PROVE  Selects(address[s]) # Selects(address[t])
    BY DEF OneDriverEach
  <2>1. Scanned(address[s]) /\ Scanned(address[t]) /\ address[s] # address[t]
    BY DEF PciInv, ScanInv
  <2>2. QED
    BY <2>1, SelectsApart
<1>2. QED
  BY PciSafe, <1>1, PTL

-----------------------------------------------------------------------------
(* What one interrupt does. *)

\* pci.cpp:131-142, yenta_socket.cpp: whenever the handler runs, also between two
\* stores of plug(), its walk comes back and acknowledges the events of every
\* socket, also of one whose line leads elsewhere: no level stays on the shared line.
Served == [][isr => pc' = pc /\ \A s \in Sockets : ~event'[s]]_vars

THEOREM HandlerServesAll == Spec => Served
<1>1. ASSUME PciInv, isr
      PROVE  pc' = pc /\ \A s \in Sockets : ~event'[s]
  <2>1. Returns /\ Attached \subseteq Visited
    BY <1>1, WalkReturns, AllVisited DEF PciInv
  <2>2. \A s \in Sockets : event[s] => s \in Visited /\ isr_set[s] /\ bar[s]
    BY <1>1, <2>1 DEF PciInv, StagesInv
  <2>3. QED
    BY <1>1, <2>1, <2>2 DEF isr
<1>2. PciInv /\ [Next]_vars => [isr => pc' = pc /\ \A s \in Sockets : ~event'[s]]_vars
  BY <1>1
<1>3. QED
  BY PciSafe, <1>2, PTL DEF Spec, Served

-----------------------------------------------------------------------------
(* The scan gets on. *)

\* The order of the steps that are taken at one address.
Stage == [Pci |-> 0, look |-> 1, allocate |-> 2, attach |-> 3, plug1 |-> 4,
          plug2 |-> 5, plug3 |-> 6, setup_irq |-> 7, bar |-> 8, mask |-> 9, next |-> 10]

\* The order in which the scan goes through the addresses of its finite space.
Later(a, b) ==
    /\ b # NoAddress
    /\ \/ a = NoAddress
       \/ Rank(b[1], b[2]) > Rank(a[1], a[2])
       \/ b[1] = a[1] /\ b[2] = a[2] /\ b[3] > a[3]

LEMMA FollowingIsLater ==
    ASSUME NEW a, a = NoAddress \/ Scanned(a), ~Answers32, Following(a) # NoAddress
    PROVE  Later(a, Following(a))
<1>0. Buses \in Nat \ {0} /\ Slots \in Nat \ {0} /\ Funcs \in Nat \ {0}
  BY PciAssumption
<1>1. CASE a = NoAddress
  BY <1>1 DEF Later
<1>2. CASE a # NoAddress
  <2>1. /\ a[1] \in 0 .. Buses - 1 /\ a[2] \in 0 .. Slots /\ a[3] \in 0 .. Funcs - 1
        /\ a[2] = Slots => a[3] = 0 /\ validate_vid(a)
    BY <1>2 DEF Scanned, ScanSpace
  <2>2. a[2] # Slots
    <3> SUFFICES ASSUME a[2] = Slots PROVE FALSE
      OBVIOUS
    <3>1. Selects(a) = <<2 * (a[1] \div 2) + 1, 0, 0>>
      BY <1>0, <2>1 DEF Selects
    <3>2. Selects(a) \in DOMAIN machine.layout
      BY <2>1 DEF validate_vid
    <3>3. QED
      BY <2>1, <3>1, <3>2 DEF Answers32
  <2>3. is_valid(a)
    BY <1>0, <2>1, <2>2 DEF is_valid
  <2>4. CASE /\ multi_function(a[1], a[2])
             /\ a[3] < Funcs - 1
             /\ validate_vid(<<a[1], a[2], a[3] + 1>>)
    <3>1. Following(a) = <<a[1], a[2], a[3] + 1>>
      BY <2>3, <2>4 DEF Following
    <3>2. QED
      BY <2>1, <3>1 DEF Later
  <2>5. CASE ~ /\ multi_function(a[1], a[2])
               /\ a[3] < Funcs - 1
               /\ validate_vid(<<a[1], a[2], a[3] + 1>>)
    BY <2>3, <2>5, FollowingSlot DEF Later
  <2>6. QED
    BY <2>4, <2>5
<1>3. QED
  BY <1>1, <1>2

\* What a step does to the place where the construction is.
GetsOn ==
    IF third
    THEN \/ this' > this \/ pc' = "done"
         \/ this' = this /\ Later(candidate, candidate')
         \/ this' = this /\ candidate' = candidate /\ Stage[pc'] > Stage[pc]
    ELSE UNCHANGED <<this, candidate, pc>>

LEMMA GettingOn ==
    ASSUME PciInv, Next, ~Answers32
    PROVE  GetsOn
<1> USE DEF PciInv
<1>1. this \in Nat
  BY SocketFacts DEF TypeInv
<1>2. ASSUME Return PROVE this' > this \/ pc' = "done"
  BY <1>1, <1>2 DEF Return
<1>3. ASSUME this' = this, candidate' = candidate, Stage[pc'] > Stage[pc], third
      PROVE  GetsOn
  BY <1>3 DEF GetsOn
<1>4. CASE Pci_Pci
  BY <1>3, <1>4 DEF Pci_Pci, third, Stage
<1>5. CASE next_candidate
  <2>1. CASE Return
    BY <1>2, <1>5, <2>1 DEF GetsOn, third
  <2>2. CASE /\ Following(candidate) # NoAddress
             /\ candidate' = Following(candidate) /\ UNCHANGED this
    <3>1. Later(candidate, candidate')
      BY <2>2, FollowingIsLater DEF ScanInv
    <3>2. QED
      BY <1>5, <2>2, <3>1 DEF GetsOn, third
  <2>3. QED
    BY <1>5, <2>1, <2>2 DEF next_candidate
<1>6. CASE look
  BY <1>3, <1>6 DEF look, third, Stage
<1>7. CASE allocate_region
  <2>1. CASE Return
    BY <1>2, <1>7, <2>1 DEF GetsOn, third
  <2>2. CASE pc' = "attach" /\ UNCHANGED <<this, candidate>>
    BY <1>3, <1>7, <2>2 DEF allocate_region, third, Stage
  <2>3. QED
    BY <1>7, <2>1, <2>2 DEF allocate_region
<1>8. CASE attach_driver
  BY <1>3, <1>8 DEF attach_driver, attach_first, plug_next, plug_prev_next, plug_prev,
                    plug_obj_prev, Store, third, Stage
<1>9. CASE setup_irq
  <2>1. pc = "setup_irq" /\ pc' = "bar" /\ this' = this /\ candidate' = candidate
    BY <1>9 DEF setup_irq
  <2>2. third
    BY <1>9 DEF third
  <2>3. QED
    BY <1>3, <2>1, <2>2 DEF Stage
<1>10. CASE set_bar
  BY <1>3, <1>10 DEF set_bar, third, Stage
<1>11. CASE set_mask
  BY <1>2, <1>11 DEF set_mask, GetsOn, third
<1>12. CASE ~third
  <2>1. CASE isr
    BY <1>12, <2>1, WalkReturns DEF isr, GetsOn
  <2>2. CASE write_mask \/ \E s \in Sockets : card_event(s)
    BY <1>12, <2>2 DEF write_mask, card_event, GetsOn
  <2>3. QED
    BY <1>12, <2>1, <2>2 DEF Next
<1>13. QED
  BY <1>4, <1>5, <1>6, <1>7, <1>8, <1>9, <1>10, <1>11, <1>12 DEF third

\* pci.cpp:199-243, yenta_socket.cpp: unless a device answers to slot 32, every
\* step of the constructors gets on: to the next socket, to an address that lies
\* behind, or to a later step at the same address; and the handler, whenever it
\* comes, leaves the place as it is.  There are finitely many sockets, addresses
\* and steps, so with the thread running the construction ends.
ScanProgress ==
    [][~Answers32 =>
          IF third
          THEN \/ this' > this \/ pc' = "done"
               \/ this' = this /\ Later(candidate, candidate')
               \/ this' = this /\ candidate' = candidate /\ Stage[pc'] > Stage[pc]
          ELSE UNCHANGED <<this, candidate, pc>>]_vars

THEOREM ScanGetsOn == Spec => ScanProgress
<1>1. PciInv /\ [Next]_vars
        => [~Answers32 =>
              IF third
              THEN \/ this' > this \/ pc' = "done"
                   \/ this' = this /\ Later(candidate, candidate')
                   \/ this' = this /\ candidate' = candidate /\ Stage[pc'] > Stage[pc]
              ELSE UNCHANGED <<this, candidate, pc>>]_vars
  BY GettingOn DEF GetsOn
<1>2. QED
  BY PciSafe, <1>1, PTL DEF Spec, ScanProgress

-----------------------------------------------------------------------------
(* Pages. *)

\* Division with a remainder, for a divisor that is not a number written down.
LEMMA Euclid ==
    ASSUME NEW x \in Nat, NEW p \in Nat \ {0}
    PROVE  /\ x \div p \in Nat /\ x % p \in 0 .. p - 1
           /\ x = (x \div p) * p + (x % p)
<1>1. x \div p \in Int /\ x % p \in Int /\ 0 <= x % p /\ x % p < p
  BY SMTT(30)
<1>2. x = (x \div p) * p + (x % p)
  BY SMTT(30)
<1>3. x \div p >= 0
  <2>1. SUFFICES ASSUME x \div p <= -1 PROVE FALSE
    BY <1>1
  <2>2. PICK d \in Nat : x \div p = -1 - d
    BY <1>1, <2>1
  <2>3. (x \div p) * p = - p - d * p
    BY <2>2
  <2>4. d * p \in Nat
    OBVIOUS
  <2>5. QED
    BY <1>1, <1>2, <2>3, <2>4
<1>4. QED
  BY <1>1, <1>2, <1>3

\* There is one way only to divide.
LEMMA Unique ==
    ASSUME NEW q \in Nat, NEW r \in Nat, NEW p \in Nat \ {0}, r < p
    PROVE  (q * p + r) \div p = q /\ (q * p + r) % p = r
<1> DEFINE x == q * p + r
           m == x \div p
           s == x % p
<1>0. q * p \in Nat
  OBVIOUS
<1>1. x \in Nat
  BY <1>0
<1> HIDE DEF x
<1>2. m \in Nat /\ s \in 0 .. p - 1 /\ x = m * p + s
  BY <1>1, Euclid
<1>3. x = q * p + r
  BY DEF x
<1> HIDE DEF m, s
<1>4. CASE m < q
  <2>1. PICK d \in Nat : q = m + 1 + d
    BY <1>2, <1>4
  <2>2. q * p = m * p + p + d * p
    BY <1>2, <2>1
  <2>3. d * p \in Nat /\ m * p \in Nat
    BY <1>2
  <2>4. QED
    BY <1>2, <1>3, <2>2, <2>3
<1>5. CASE m > q
  <2>1. PICK d \in Nat : m = q + 1 + d
    BY <1>2, <1>5
  <2>2. m * p = q * p + p + d * p
    BY <1>2, <2>1
  <2>3. d * p \in Nat /\ q * p \in Nat
    BY <1>2
  <2>4. QED
    BY <1>2, <1>3, <2>2, <2>3
<1>6. CASE m = q
  <2>1. s = r
    BY <1>0, <1>2, <1>3, <1>6
  <2>2. QED
    BY <2>1, <1>6 DEF m, s, x
<1>7. QED
  BY <1>2, <1>4, <1>5, <1>6

\* Top is a number of pages, two or more.
LEMMA PageFacts ==
    /\ Page \in Nat \ {0} /\ Top \in Nat \ {0} /\ 2 * Page <= Top
    /\ Top \div Page \in Nat \ {0} /\ Top = (Top \div Page) * Page
<1>1. Page \in Nat \ {0} /\ Top \in Nat \ {0} /\ 2 * Page <= Top /\ Top % Page = 0
  BY MemoryAssumption
<1>2. Top \div Page \in Nat /\ Top = (Top \div Page) * Page + (Top % Page)
  BY <1>1, Euclid
<1>3. (Top \div Page) * Page \in Nat
  BY <1>1, <1>2
<1>4. QED
  BY <1>1, <1>2, <1>3

\* A page that begins below Top ends there or below.
LEMMA PageFits ==
    ASSUME NEW j \in Nat, j * Page < Top
    PROVE  j * Page + Page <= Top
<1> DEFINE n == Top \div Page
<1>1. Page \in Nat \ {0} /\ n \in Nat /\ Top = n * Page
  BY PageFacts
<1> HIDE DEF n
<1>2. SUFFICES ASSUME n <= j PROVE FALSE
  <2>1. CASE n >= j + 1
    <3>1. PICK d \in Nat : n = j + 1 + d
      BY <1>1, <2>1
    <3>2. n * Page = j * Page + Page + d * Page
      BY <1>1, <3>1
    <3>3. d * Page \in Nat /\ j * Page \in Nat
      BY <1>1
    <3>4. QED
      BY <1>1, <3>2, <3>3
  <2>2. QED
    BY <1>1, <1>2, <2>1
<1>3. PICK d \in Nat : j = n + d
  BY <1>1, <1>2
<1>4. j * Page = n * Page + d * Page
  BY <1>1, <1>3
<1>5. d * Page \in Nat /\ n * Page \in Nat
  BY <1>1
<1>6. QED
  BY <1>1, <1>4, <1>5

\* Modulo Top, a page border is a page border.
LEMMA BorderWraps ==
    ASSUME NEW k \in Nat
    PROVE  \E j \in Nat : U32(k * Page) = j * Page /\ j * Page < Top
<1> DEFINE n == Top \div Page
           x == k * Page
           d == x \div Top
<1>1. Page \in Nat \ {0} /\ Top \in Nat \ {0} /\ n \in Nat /\ Top = n * Page
  BY PageFacts
<1>2. x \in Nat
  BY <1>1
<1>3. d \in Nat /\ x % Top \in 0 .. Top - 1 /\ x = d * Top + (x % Top)
  BY <1>1, <1>2, Euclid
<1> HIDE DEF n, d
<1>4. d * Top = (d * n) * Page
  BY <1>1, <1>3
<1>5. PICK m \in Nat : m = d * n
  BY <1>1, <1>3
<1>6. x % Top = (k - m) * Page
  BY <1>1, <1>3, <1>4, <1>5
<1>7. k - m >= 0
  <2>1. SUFFICES ASSUME k - m <= -1 PROVE FALSE
    BY m \in Nat
  <2>2. PICK e \in Nat : m = k + 1 + e
    BY <2>1, m \in Nat
  <2>3. x % Top = - Page - e * Page
    BY <1>1, <1>6, <2>2
  <2>4. e * Page \in Nat
    BY <1>1
  <2>5. QED
    BY <1>1, <1>3, <2>3, <2>4
<1>8. k - m \in Nat
  BY <1>5, <1>7
<1>9. U32(k * Page) = (k - m) * Page /\ (k - m) * Page < Top
  BY <1>1, <1>3, <1>6 DEF U32
<1>10. QED
  BY <1>8, <1>9

\* Where Align leads.
LEMMA AlignIs ==
    ASSUME NEW a \in Nat
    PROVE  /\ \E j \in Nat : Align(a) = j * Page /\ j * Page < Top
           /\ LET up == ((a + Page - 1) \div Page) * Page IN
              /\ up \in Nat /\ a <= up
              /\ up < Top => Align(a) = up
<1> DEFINE k == (a + Page - 1) \div Page
           r == (a + Page - 1) % Page
<1>1. Page \in Nat \ {0} /\ Top \in Nat \ {0} /\ a + Page - 1 \in Nat
  BY PageFacts
<1>2. k \in Nat /\ r \in 0 .. Page - 1 /\ a + Page - 1 = k * Page + r
  BY <1>1, Euclid
<1> HIDE DEF k, r
<1>3. k * Page \in Nat
  BY <1>1, <1>2
<1>4. a <= k * Page
  BY <1>1, <1>2, <1>3
<1>5. Align(a) = U32(k * Page)
  BY DEF Align, k
<1>6. k * Page < Top => U32(k * Page) = k * Page
  <2>1. SUFFICES ASSUME k * Page < Top PROVE (k * Page) % Top = k * Page
    BY DEF U32
  <2>2. (0 * Top + k * Page) % Top = k * Page
    BY <1>1, <1>3, <2>1, 0 \in Nat, Unique
  <2>3. 0 * Top + k * Page = k * Page
    BY <1>1, <1>3
  <2>4. QED
    BY <2>2, <2>3
<1>7. QED
  BY <1>2, <1>3, <1>4, <1>5, <1>6, BorderWraps DEF k

\* A border below Top stays where it is.
LEMMA AlignBorder ==
    ASSUME NEW j \in Nat, j * Page < Top
    PROVE  Align(j * Page) = j * Page
<1>1. Page \in Nat \ {0} /\ Top \in Nat \ {0} /\ j * Page \in Nat
  BY PageFacts
<1>2. (j * Page + (Page - 1)) \div Page = j
  BY <1>1, Unique
<1>3. j * Page + (Page - 1) = j * Page + Page - 1
  BY <1>1
<1>4. ((j * Page + Page - 1) \div Page) * Page = j * Page
  BY <1>2, <1>3
<1>5. QED
  BY <1>1, <1>4, AlignIs

-----------------------------------------------------------------------------
(* What the two sockets can get. *)

\* The first two regions are pages of their own, inside a hole of two pages.
LEMMA TwoRegions ==
    ASSUME pool.addr \in Nat, pool.len \in Nat, pool.addr + pool.len <= Top
    PROVE  /\ \A r \in {First, Second} : r.addr \in Nat /\ r.addr % Page = 0 /\ r.len = Page
           /\ ~Overlap(First, Second) /\ ~Overlap(Second, First) /\ First # Second
           /\ TwoPages => \A r \in {First, Second} :
                 pool.addr <= r.addr /\ r.addr + Page <= pool.addr + pool.len
<1>1. Page \in Nat \ {0} /\ Top \in Nat \ {0} /\ 2 * Page <= Top
  BY PageFacts
<1>2. PICK i \in Nat : Align(pool.addr) = i * Page /\ i * Page < Top
  BY AlignIs
<1>3. First.addr = i * Page /\ First.len = Page /\ i * Page + Page <= Top /\ i * Page \in Nat
  BY <1>1, <1>2, PageFits DEF First, Region
<1>4. PICK j \in Nat : /\ j * Page < Top
                       /\ U32(i * Page + Page) = j * Page
                       /\ \/ i * Page + Page < Top /\ j * Page = i * Page + Page
                          \/ i * Page + Page = Top /\ j * Page = 0
  <2>1. CASE i * Page + Page < Top
    <3>1. (i + 1) * Page = i * Page + Page /\ i + 1 \in Nat
      BY <1>1
    <3>2. (0 * Top + (i * Page + Page)) % Top = i * Page + Page
      BY <1>1, <1>3, <2>1, 0 \in Nat, i * Page + Page \in Nat, Unique
    <3>3. 0 * Top + (i * Page + Page) = i * Page + Page
      BY <1>1, <1>3
    <3>4. U32(i * Page + Page) = (i + 1) * Page
      BY <3>1, <3>2, <3>3 DEF U32
    <3>5. QED
      BY <2>1, <3>1, <3>4
  <2>2. CASE i * Page + Page = Top
    <3>1. (1 * Top + 0) % Top = 0
      BY <1>1, 0 \in Nat, 1 \in Nat, 0 < Top, Unique
    <3>2. 1 * Top + 0 = Top /\ 0 * Page = 0
      BY <1>1
    <3>3. U32(i * Page + Page) = 0 * Page
      BY <2>2, <3>1, <3>2 DEF U32
    <3>4. QED
      BY <1>1, <2>2, <3>2, <3>3
  <2>3. QED
    BY <1>1, <1>3, <2>1, <2>2
<1>5. Second.addr = j * Page /\ Second.len = Page /\ j * Page \in Nat
  <2>1. AfterRegion(First) = Align(U32(i * Page + Page))
    BY <1>3 DEF AfterRegion
  <2>2. Align(j * Page) = j * Page
    BY <1>4, AlignBorder
  <2>3. QED
    BY <1>1, <1>4, <2>1, <2>2 DEF Second, Region
<1>6. (i * Page) % Page = 0 /\ (j * Page) % Page = 0
  <2>1. \A k \in Nat : (k * Page + 0) % Page = 0
    BY <1>1, 0 \in Nat, 0 < Page, Unique
  <2>2. i * Page + 0 = i * Page /\ j * Page + 0 = j * Page
    BY <1>3, <1>5
  <2>3. QED
    BY <2>1, <2>2
<1>7. ~Overlap(First, Second) /\ ~Overlap(Second, First) /\ First # Second
  <2>1. First.addr # Second.addr
    BY <1>1, <1>3, <1>4, <1>5
  <2>2. QED
    BY <1>1, <1>3, <1>4, <1>5, <2>1 DEF Overlap
<1>8. ASSUME TwoPages
      PROVE  \A r \in {First, Second} :
                pool.addr <= r.addr /\ r.addr + Page <= pool.addr + pool.len
  <2> DEFINE up == ((pool.addr + Page - 1) \div Page) * Page
  <2>1. up \in Nat /\ pool.addr <= up /\ (up < Top => Align(pool.addr) = up)
    BY AlignIs
  <2>2. up + 2 * Page <= pool.addr + pool.len
    BY <1>8 DEF TwoPages
  <2> HIDE DEF up
  <2>3. up = i * Page
    BY <1>1, <1>2, <2>1, <2>2
  <2>4. j * Page = i * Page + Page
    BY <1>1, <1>3, <1>4, <2>2, <2>3
  <2>5. QED
    BY <1>1, <1>3, <1>5, <2>1, <2>2, <2>3, <2>4
<1>9. QED
  BY <1>3, <1>5, <1>6, <1>7, <1>8

\* The hole behind an entry ends below Top and before every entry that begins
\* behind its start.
LEMMA HoleIs ==
    ASSUME NEW map \in Seq([base : Nat, len : Nat]), NEW i \in DOMAIN map,
           NEW h, h = Hole(map, i, MinAddr)
    PROVE  /\ h.addr \in Nat /\ h.len \in Nat /\ h.addr + h.len <= Top
           /\ \A k \in DOMAIN map :
                 map[k].base > h.addr => h = NoHole \/ h.addr + h.len <= map[k].base
<1>1. Page \in Nat \ {0} /\ Top \in Nat \ {0} /\ 2 * Page <= Top /\ MinAddr \in Nat
  BY PageFacts, PciAssumption
<1>2. \A k \in DOMAIN map : map[k].base \in Nat /\ map[k].len \in Nat
  <2> TAKE k \in DOMAIN map
  <2>1. k \in 1 .. Len(map)
    BY LenProperties
  <2>2. map[k] \in [base : Nat, len : Nat]
    BY <2>1, ElementOfSeq
  <2>3. QED
    BY <2>2
<1> DEFINE behind == U32(map[i].base + map[i].len)
           later == {map[k].base : k \in {k \in DOMAIN map :
                       map[k].base > behind /\ map[k].base < Top}}
           start == IF behind < MinAddr THEN MinAddr ELSE behind
           end == CurEnd(map, i)
<1>3. behind \in Nat
  <2>1. map[i].base + map[i].len \in Nat
    BY <1>2
  <2>2. (map[i].base + map[i].len) % Top \in 0 .. Top - 1
    BY <1>1, <2>1, Euclid
  <2>3. QED
    BY <1>1, <2>2 DEF U32
<1>4. /\ end \in Nat /\ end < Top
      /\ \A k \in DOMAIN map : map[k].base > behind => map[k].base > end
  <2>1. end = IF later = {} THEN Top - 1 ELSE Least(later) - 1
    BY DEF CurEnd
  <2> HIDE DEF end, behind
  <2>2. CASE later = {}
    <3>1. \A k \in DOMAIN map : ~(map[k].base > behind /\ map[k].base < Top)
      BY <2>2
    <3>2. end = Top - 1
      BY <2>1, <2>2
    <3>3. ASSUME NEW k \in DOMAIN map, map[k].base > behind PROVE map[k].base > end
      <4>1. map[k].base \in Nat /\ ~(map[k].base < Top)
        BY <1>2, <3>1, <3>3
      <4>2. QED
        BY <1>1, <3>2, <4>1
    <3>4. QED
      BY <1>1, <3>2, <3>3
  <2>3. CASE later # {}
    <3>1. later \subseteq Nat
      BY <1>2
    <3>2. \E m \in later : \A n \in later : m <= n
      BY <2>3, <3>1, LeastNat
    <3>3. Least(later) \in later /\ \A n \in later : Least(later) <= n
      BY <3>2 DEF Least
    <3>4. PICK m \in Nat : m = Least(later)
      BY <3>1, <3>3
    <3>5. m > behind /\ m < Top
      BY <3>3, <3>4
    <3>6. \A k \in DOMAIN map :
             map[k].base > behind /\ map[k].base < Top => m <= map[k].base
      BY <3>3, <3>4
    <3>7. end = m - 1
      BY <2>1, <2>3, <3>4
    <3>8. end \in Nat /\ end < Top
      BY <1>1, <1>3, <3>5, <3>7
    <3>9. ASSUME NEW k \in DOMAIN map, map[k].base > behind PROVE map[k].base > end
      <4>1. map[k].base \in Nat /\ (map[k].base < Top => m <= map[k].base)
        BY <1>2, <3>6, <3>9
      <4>2. QED
        BY <1>1, <3>5, <3>7, <4>1
    <3>10. QED
      BY <3>8, <3>9
  <2>4. QED
    BY <2>2, <2>3
<1>5. h = IF end > start THEN [addr |-> start, len |-> U32(end + 1 - start)] ELSE NoHole
  BY DEF Hole
<1> HIDE DEF behind, end
<1>6. start \in Nat /\ behind <= start
  BY <1>1, <1>3
<1> HIDE DEF start
<1>7. CASE end > start
  <2>1. PICK n \in Nat : n = end + 1 - start
    BY <1>4, <1>6, <1>7
  <2>2. n % Top \in Nat /\ n % Top <= n
    <3>1. n \div Top \in Nat /\ n % Top \in 0 .. Top - 1 /\ n = (n \div Top) * Top + (n % Top)
      BY <1>1, Euclid
    <3>2. (n \div Top) * Top \in Nat
      BY <1>1, <3>1
    <3>3. QED
      BY <3>1, <3>2
  <2>3. h.addr = start /\ h.len = n % Top
    BY <1>5, <1>7, <2>1 DEF U32
  <2>4. h.addr \in Nat /\ h.len \in Nat /\ h.addr + h.len <= end + 1
    BY <1>4, <1>6, <2>1, <2>2, <2>3
  <2>5. \A k \in DOMAIN map : map[k].base > h.addr => end + 1 <= map[k].base
    <3> TAKE k \in DOMAIN map
    <3>1. SUFFICES ASSUME map[k].base > h.addr PROVE end + 1 <= map[k].base
      OBVIOUS
    <3>2. map[k].base \in Nat /\ map[k].base > behind
      BY <1>2, <1>3, <1>6, <2>3, <3>1
    <3>3. map[k].base > end
      BY <1>4, <3>2
    <3>4. QED
      BY <1>4, <3>2, <3>3
  <2>6. \A k \in DOMAIN map : map[k].base > h.addr => h.addr + h.len <= map[k].base
    <3> TAKE k \in DOMAIN map
    <3>1. SUFFICES ASSUME map[k].base > h.addr PROVE h.addr + h.len <= map[k].base
      OBVIOUS
    <3>2. map[k].base \in Nat /\ end + 1 <= map[k].base /\ end \in Nat
      BY <1>2, <1>4, <2>5, <3>1
    <3>3. QED
      BY <2>4, <3>2
  <2>7. QED
    BY <1>1, <1>4, <2>4, <2>6
<1>8. CASE ~(end > start)
  BY <1>1, <1>5, <1>8 DEF NoHole
<1>9. QED
  BY <1>7, <1>8

\* e820_scan_hole finds such a hole or none.
LEMMA ScanHoleIs ==
    ASSUME NEW map \in Seq([base : Nat, len : Nat]), NEW h, h = e820_scan_hole(map, MinAddr)
    PROVE  /\ h.addr \in Nat /\ h.len \in Nat /\ h.addr + h.len <= Top
           /\ \A k \in DOMAIN map :
                 map[k].base > h.addr => h = NoHole \/ h.addr + h.len <= map[k].base
<1> DEFINE holes == {i \in 1 .. Len(map) - 1 : Hole(map, i, MinAddr) # NoHole}
           best == {i \in holes : \A j \in holes :
                      Hole(map, j, MinAddr).len <= Hole(map, i, MinAddr).len}
<1>1. h = IF holes = {} THEN NoHole ELSE Hole(map, Least(best), MinAddr)
  BY DEF e820_scan_hole
<1>2. Top \in Nat
  BY PageFacts
<1>3. \A i \in holes : i \in Nat /\ i \in DOMAIN map
  OBVIOUS
<1>4. CASE holes = {}
  BY <1>1, <1>2, <1>4 DEF NoHole
<1>5. CASE holes # {}
  <2> DEFINE len(i) == Hole(map, i, MinAddr).len
             gaps == {Top - len(i) : i \in holes}
  <2>1. \A i \in holes : len(i) \in Nat /\ len(i) <= Top
    <3> TAKE i \in holes
    <3> DEFINE g == Hole(map, i, MinAddr)
    <3>1. g.addr \in Nat /\ g.len \in Nat /\ g.addr + g.len <= Top
      BY <1>3, HoleIs
    <3>2. QED
      BY <1>2, <3>1
  <2> HIDE DEF len, holes
  <2>2. gaps \subseteq Nat /\ gaps # {}
    BY <1>2, <1>5, <2>1
  <2>3. PICK m \in gaps : \A n \in gaps : m <= n
    BY <2>2, LeastNat
  <2>4. PICK i \in holes : m = Top - len(i)
    BY <2>3
  <2>5. \A j \in holes : len(j) <= len(i)
    <3> TAKE j \in holes
    <3>1. len(j) \in Nat /\ len(j) <= Top /\ len(i) \in Nat /\ len(i) <= Top
      BY <2>1
    <3>2. Top - len(i) <= Top - len(j)
      BY <2>3, <2>4
    <3>3. QED
      BY <1>2, <3>1, <3>2
  <2>6. i \in best
    BY <2>5 DEF len
  <2>7. best \subseteq holes /\ best \subseteq Nat
    BY <1>3
  <2>8. \E n \in best : \A o \in best : n <= o
    BY <2>6, <2>7, LeastNat
  <2> HIDE DEF best
  <2>9. Least(best) \in DOMAIN map
    BY <1>3, <2>7, <2>8 DEF Least
  <2>10. h = Hole(map, Least(best), MinAddr)
    BY <1>1, <1>5
  <2>11. QED
    BY <2>9, <2>10, HoleIs
<1>6. QED
  BY <1>4, <1>5

\* What allocate gives the first and the second who ask for a page.
LEMMA AllocateIs ==
    ASSUME NEW low
    PROVE  /\ LET a == allocate(pool, <<>>, Page, low) IN
              a.ok => a.region = First /\ a.regions = <<First>>
           /\ LET a == allocate(pool, <<First>>, Page, low) IN
              a.ok => a.region = Second /\ a.regions # <<>>
<1>1. LET a == allocate(pool, <<>>, Page, low) IN
      a.ok => a.region = First /\ a.regions = <<First>>
  BY DEF allocate, First, Placed, Failed
<1>2. LET a == allocate(pool, <<First>>, Page, low) IN
      a.ok => a.region = Second /\ a.regions # <<>>
  <2> DEFINE gaps == {i \in 1 .. 1 : Gap(<<First>>, i, Page, low)}
             i    == IF gaps = {} THEN 2 ELSE Least(gaps)
             s    == Region(AfterRegion(<<First>>[IF i > 1 THEN 1 ELSE i]), Page)
  <2>1. Len(<<First>>) = 1 /\ <<First>> # <<>> /\ <<First>>[1] = First
    OBVIOUS
  <2>2. i \in {1, 2}
    <3>1. CASE gaps = {}
      BY <3>1
    <3>2. CASE gaps # {}
      <4>1. gaps = {1}
        BY <3>2
      <4>2. Least(gaps) = 1
        BY <4>1 DEF Least
      <4>3. QED
        BY <3>2, <4>2
    <3>3. QED
      BY <3>1, <3>2
  <2>3. s = Second
    BY <2>1, <2>2 DEF Second
  <2>4. allocate(pool, <<First>>, Page, low) =
           IF i >= 1 /\ PastEnd(pool, <<First>>, Page) THEN Failed
           ELSE IF i = 1 THEN Placed(<<s, First>>, s)
           ELSE Placed(SubSeq(<<First>>, 1, i - 1) \o <<s>> \o SubSeq(<<First>>, i, 1), s)
    BY <2>1 DEF allocate
  <2> HIDE DEF gaps, i, s
  <2>5. <<s, First>> # <<>>
    OBVIOUS
  <2>6. i = 2 => SubSeq(<<First>>, 1, i - 1) \o <<s>> \o SubSeq(<<First>>, i, 1) # <<>>
    OBVIOUS
  <2>7. QED
    BY <2>2, <2>3, <2>4, <2>5, <2>6 DEF Placed, Failed
<1>3. QED
  BY <1>1, <1>2

\* The hole is chosen once.
LEMMA SamePool ==
    ASSUME [Next]_vars, ~Pci_Pci
    PROVE  pool' = pool
<1>1. ASSUME NEW s \in Sockets, card_event(s) PROVE pool' = pool
  BY <1>1 DEF card_event
<1>2. CASE UNCHANGED vars
  BY <1>2 DEF vars
<1>3. QED
  BY <1>1, <1>2 DEF Next, third, attach_driver, next_candidate, look,
     allocate_region, attach_first, plug_next, plug_prev_next, plug_prev,
     plug_obj_prev, Store, setup_irq, set_bar, set_mask, write_mask, isr

\* Pci::Pci takes a hole that the map allows.
LEMMA PoolStep ==
    ASSUME PciInv, RegionsInv, Pci_Pci
    PROVE  PoolInv'
<1>1. machine.map \in Seq([base : Nat, len : Nat])
  BY PciAssumption DEF PciInv, TypeInv
<1>2. machine' = machine
  BY DEF Pci_Pci
<1>3. CASE pool' = e820_scan_hole(machine.map, MinAddr)
  BY <1>1, <1>2, <1>3, ScanHoleIs DEF PoolInv
<1>4. CASE pool' = pool
  BY <1>2, <1>4 DEF RegionsInv, PoolInv
<1>5. QED
  BY <1>3, <1>4 DEF Pci_Pci

\* The two sockets get the first two regions.
LEMMA RegionsStep ==
    ASSUME Sockets \subseteq {1, 2}, PciInv, RegionsInv, [Next]_vars
    PROVE  RegionsInv'
<1>0. /\ this \in {1, 2} /\ this \in Sockets /\ Sockets \subseteq {1, 2} /\ 1 \in Sockets
      /\ base_addr[this] = None \/ ~Unborn(this)
      /\ machine' = machine
  BY SocketFacts, SameMachine DEF PciInv, TypeInv, StagesInv
<1>1. CASE Pci_Pci
  <2>1. PoolInv'
    BY <1>1, PoolStep
  <2>2. \A s \in Sockets : base_addr[s] = None
    BY <1>1 DEF RegionsInv, Pci_Pci
  <2>3. pc' = "next" /\ regions' = <<>> /\ base_addr' = base_addr
    BY <1>1 DEF RegionsInv, Pci_Pci
  <2>4. QED
    BY <1>0, <2>1, <2>2, <2>3 DEF RegionsInv
<1>2. CASE ~Pci_Pci
  <2>0. pool' = pool /\ First' = First /\ Second' = Second /\ PoolInv'
    BY <1>0, <1>2, SamePool DEF First, Second, PoolInv, RegionsInv
  \* Steps that give out nothing.
  <2>1. ASSUME UNCHANGED <<regions, base_addr>>, pc' # "Pci", this' = 1 => this = 1,
               Unborn(this)' => Unborn(this) \/ this = 1,
               this' = 1 /\ Unborn(this)' => Unborn(this)
        PROVE  RegionsInv'
    <3>1. this' = 1 /\ Unborn(this)' => this = 1 /\ Unborn(this)
      BY <2>1
    <3>2. (this = 1 \/ Unborn(this)) =>
             regions' \in {<<>>, <<First>>} /\ base_addr'[1] \in {None, First}
      BY <2>1 DEF RegionsInv
    <3>3. QED
      BY <1>0, <2>0, <2>1, <3>1, <3>2 DEF RegionsInv
  <2>2. CASE allocate_region
    <3>1. CASE Return /\ UNCHANGED <<regions, base_addr>>
      <4>1. Unborn(this)
        BY <2>2 DEF allocate_region, Unborn
      <4>2. pc' # "Pci" /\ (this' = 1 => this = 1)
        BY <1>0, <3>1, Returned DEF PciInv
      <4>3. QED
        BY <2>1, <3>1, <4>1, <4>2
    <3>2. CASE \E low \in LowMemory :
                 LET a == allocate(pool, regions, Page, low) IN
                 /\ a.ok /\ regions' = a.regions
                 /\ base_addr' = [base_addr EXCEPT ![this] = a.region]
                 /\ pc' = "attach" /\ this' = this
      <4>1. PICK low \in LowMemory :
               LET a == allocate(pool, regions, Page, low) IN
               /\ a.ok /\ regions' = a.regions
               /\ base_addr' = [base_addr EXCEPT ![this] = a.region]
               /\ pc' = "attach" /\ this' = this
        BY <3>2
      <4>2. Unborn(this) /\ ~Unborn(this)' /\ pc' # "Pci"
        BY <1>0, <2>2, <4>1 DEF allocate_region, Unborn
      <4>3. /\ regions \in {<<>>, <<First>>} /\ base_addr[1] \in {None, First}
            /\ base_addr[this] = None
            /\ this = 1 => regions = <<>>
        BY <1>0, <4>2 DEF RegionsInv
      <4>4. CASE regions = <<>>
        <5>1. regions' = <<First>> /\ base_addr' = [base_addr EXCEPT ![this] = First]
          BY <4>1, <4>4, AllocateIs
        <5>2. \A s \in Sockets : base_addr[s] = None
          BY <4>4 DEF RegionsInv
        <5>3. base_addr'[this] = First /\ \A s \in Sockets : s # this => base_addr'[s] = None
          BY <1>0, <5>1, <5>2 DEF PciInv, TypeInv
        <5>4. <<First>> # <<>>
          OBVIOUS
        <5>5. QED
          BY <1>0, <2>0, <4>1, <4>2, <5>1, <5>3, <5>4 DEF RegionsInv
      <4>5. CASE regions = <<First>> /\ this = 2
        <5>1. regions' # <<>> /\ base_addr' = [base_addr EXCEPT ![2] = Second]
          BY <4>1, <4>5, AllocateIs
        <5>2. base_addr'[2] = Second /\ base_addr'[1] = base_addr[1]
          BY <1>0, <4>5, <5>1 DEF PciInv, TypeInv
        <5>3. First # Second
          BY TwoRegions DEF RegionsInv, PoolInv
        <5>4. QED
          BY <1>0, <2>0, <4>1, <4>2, <4>3, <4>5, <5>1, <5>2, <5>3 DEF RegionsInv
      <4>6. <<First>> # <<>>
        OBVIOUS
      <4>7. QED
        BY <1>0, <4>3, <4>4, <4>5, <4>6
    <3>3. QED
      BY <2>2, <3>1, <3>2 DEF allocate_region
  <2>3. CASE next_candidate \/ set_mask
    <3>1. UNCHANGED <<regions, base_addr>>
      BY <2>3 DEF next_candidate, set_mask
    <3>2. CASE Return
      <4>1. \/ this' = this + 1 /\ pc' = "next"
            \/ this' = this /\ pc' = "done" /\ this' \in Sockets
        BY <3>2, Returned DEF PciInv
      <4>2. CASE this' = this + 1 /\ pc' = "next" /\ this' \in Sockets
        <5>1. this = 1 /\ this' = 2
          BY <1>0, <4>2
        <5>2. QED
          BY <2>1, <3>1, <4>2, <5>1
      <4>3. CASE this' = this /\ pc' = "done"
        <5>1. ~Unborn(this)'
          BY <1>0, <4>3 DEF Unborn
        <5>2. QED
          BY <2>1, <3>1, <4>3, <5>1
      <4>4. QED
        BY <3>2, <4>1, <4>2, <4>3, Returned DEF PciInv
    <3>3. CASE ~Return
      BY <2>1, <2>3, <3>1, <3>3 DEF next_candidate, set_mask, Unborn
    <3>4. QED
      BY <3>2, <3>3
  <2>4. CASE look \/ attach_driver \/ setup_irq \/ set_bar
    BY <1>0, <2>1, <2>4 DEF look, attach_driver, attach_first, plug_next, plug_prev_next,
       plug_prev, plug_obj_prev, Store, setup_irq, set_bar, Unborn
  <2>5. ASSUME this' = this, pc' = pc, UNCHANGED <<regions, base_addr>>
        PROVE  RegionsInv'
    BY <1>0, <2>0, <2>5 DEF RegionsInv, Unborn
  <2>6. CASE isr
    BY <2>5, <2>6, WalkReturns DEF isr, PciInv
  <2>7. ASSUME NEW s \in Sockets, card_event(s) PROVE RegionsInv'
    BY <2>5, <2>7 DEF card_event
  <2>8. CASE write_mask \/ UNCHANGED vars
    BY <2>5, <2>8 DEF write_mask, vars
  <2>9. QED
    BY <1>2, <2>2, <2>3, <2>4, <2>6, <2>7, <2>8 DEF Next, third
<1>3. QED
  BY <1>1, <1>2

\* memreg.hpp:49-52, e820.cpp:53-65: on every machine, and whatever is at address
\* 0, the sockets of main.cpp:32-33 get pages of their own; in a hole of two pages
\* they lie inside it and on no entry of the map that begins behind its start.
THEOREM Regions ==
    ASSUME Sockets \subseteq {1, 2}
    PROVE  Spec => []RegionsApart
<1>1. Init => RegionsInv
  <2> SUFFICES ASSUME Init PROVE RegionsInv
    OBVIOUS
  <2>1. PoolInv
    BY PageFacts DEF Init, PoolInv, NoHole
  <2>2. QED
    BY <2>1, SocketFacts DEF Init, RegionsInv
<1>2. PciInv /\ RegionsInv /\ [Next]_vars => RegionsInv'
  BY RegionsStep
<1>3. PciInv /\ RegionsInv => RegionsApart
  <2> SUFFICES ASSUME PciInv, RegionsInv, NEW s \in Sockets, base_addr[s] # None
               PROVE  /\ base_addr[s].addr % Page = 0
                      /\ \A t \in Sockets \ {s} :
                            base_addr[t] # None => ~Overlap(base_addr[s], base_addr[t])
                      /\ TwoPages
                         => /\ pool.addr <= base_addr[s].addr
                            /\ base_addr[s].addr + Page <= pool.addr + pool.len
                            /\ \A i \in DOMAIN machine.map :
                                  LET e == machine.map[i] IN
                                  Overlap(base_addr[s], Region(e.base, e.len))
                                  => e.base <= pool.addr
    BY DEF RegionsApart
  <2> DEFINE r == base_addr[s]
  <2>1. PoolInv /\ pool.addr \in Nat /\ pool.len \in Nat /\ pool.addr + pool.len <= Top
    BY DEF RegionsInv, PoolInv
  <2>2. \A u \in Sockets : base_addr[u] # None => base_addr[u] \in {First, Second}
    BY DEF RegionsInv
  <2>3. r.addr \in Nat /\ r.addr % Page = 0 /\ r.len = Page
    BY <2>1, <2>2, TwoRegions
  <2>4. ASSUME NEW t \in Sockets \ {s}, base_addr[t] # None
        PROVE  ~Overlap(r, base_addr[t])
    <3>1. base_addr[t] # r
      BY <2>4 DEF RegionsInv
    <3>2. QED
      BY <2>1, <2>2, <2>4, <3>1, TwoRegions
  <2>5. ASSUME TwoPages
        PROVE  pool.addr <= r.addr /\ r.addr + Page <= pool.addr + pool.len
    BY <2>1, <2>2, <2>5, TwoRegions
  <2>6. ASSUME TwoPages, NEW i \in DOMAIN machine.map,
               Overlap(r, Region(machine.map[i].base, machine.map[i].len))
        PROVE  machine.map[i].base <= pool.addr
    <3>1. machine.map[i].base < r.addr + Page
      BY <2>3, <2>6 DEF Overlap, Region
    <3>2. pool # NoHole
      BY <2>3, <2>5, <2>6, PageFacts DEF NoHole
    <3>3. machine.map[i].base > pool.addr => pool.addr + pool.len <= machine.map[i].base
      BY <2>1, <3>2 DEF PoolInv
    <3>4. machine.map[i].base \in Nat
      <4>1. machine.map \in Seq([base : Nat, len : Nat])
        BY PciAssumption DEF PciInv, TypeInv
      <4>2. i \in 1 .. Len(machine.map)
        BY <4>1, LenProperties
      <4>3. machine.map[i] \in [base : Nat, len : Nat]
        BY <4>1, <4>2, ElementOfSeq
      <4>4. QED
        BY <4>3
    <3>5. QED
      BY <2>1, <2>3, <2>5, <2>6, <3>1, <3>3, <3>4, PageFacts
  <2>7. QED
    BY <2>3, <2>4, <2>5, <2>6
<1>4. QED
  BY PciSafe, <1>1, <1>2, <1>3, PTL DEF Spec
=============================================================================
