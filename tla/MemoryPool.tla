----------------------------- MODULE MemoryPool ----------------------------
(***************************************************************************)
(* Where memory-mapped registers go: e820_scan_hole (e820.cpp) finds the   *)
(* longest hole in the memory map of the BIOS, and Memory_pool::allocate   *)
(* (memreg.hpp) gives out regions of it.  Pure algorithms.                 *)
(*                                                                         *)
(* Addresses are counted in units of which Page make a page.  The code     *)
(* computes modulo Top, 2^32 bytes; the BIOS may list memory above.        *)
(***************************************************************************)
EXTENDS Integers, Sequences

CONSTANTS Top, Page

ASSUME MemoryAssumption ==
    Page \in Nat \ {0} /\ Top \in Nat /\ Top % Page = 0 /\ 2 * Page <= Top

U32(a) == a % Top

Least(S) == CHOOSE a \in S : \A b \in S : a <= b

-----------------------------------------------------------------------------
(* e820_scan_hole.  A map is a sequence of entries [base, len]; the calls    *)
(* go through it with cont, which is 0 after the last entry.                 *)

NoHole == [addr |-> 0, len |-> 0]

\* The last address of the hole behind entry i: an entry that begins later ends
\* it.  One that begins exactly there does not.
CurEnd(map, i) ==
    LET later == {map[j].base : j \in {j \in DOMAIN map :
                    /\ map[j].base > U32(map[i].base + map[i].len)
                    /\ map[j].base < Top}}
    IN IF later = {} THEN Top - 1 ELSE Least(later) - 1

\* The hole behind entry i, from minaddr on.
Hole(map, i, minaddr) ==
    LET behind == U32(map[i].base + map[i].len)
        start  == IF behind < minaddr THEN minaddr ELSE behind
    IN IF CurEnd(map, i) > start
       THEN [addr |-> start, len |-> U32(CurEnd(map, i) + 1 - start)]
       ELSE NoHole

\* The first of the longest.  The loop ends at the last entry without a look at
\* what is behind it.
e820_scan_hole(map, minaddr) ==
    LET holes  == {i \in 1 .. Len(map) - 1 : Hole(map, i, minaddr) # NoHole}
        best   == {i \in holes : \A j \in holes :
                      Hole(map, j, minaddr).len <= Hole(map, i, minaddr).len}
    IN IF holes = {} THEN NoHole ELSE Hole(map, Least(best), minaddr)

-----------------------------------------------------------------------------
(* Memory_pool::allocate.  regions is the list from first on.                *)

Align(a) == U32(((a + Page - 1) \div Page) * Page)

Region(a, n) == [addr |-> a, len |-> n]

Failed == [ok |-> FALSE]

Placed(regions, region) == [ok |-> TRUE, regions |-> regions, region |-> region]

\* Mutant of AfterRegion: the length of the region in front is left out.
AfterRegion_base(region) == Align(region.addr)

AfterRegion(region) == Align(U32(region.addr + region.len))

\* A gap behind regions[i] that is long enough.  Behind the last one line 52
\* reads newhead->next->addr with next null: low is what is in memory there.
Gap(regions, i, rlen, low) ==
    AfterRegion(regions[i]) + rlen <
        (IF i < Len(regions) THEN regions[i + 1].addr ELSE low)

\* The test at line 49 takes the length of the pool off once more.
PastEnd(pool, regions, rlen) ==
    U32(AfterRegion(regions[Len(regions)]) + rlen - pool.len) > U32(pool.addr + pool.len)

\* In front of the first region the new one cuts the list behind it.
allocate(pool, regions, rlen, low) ==
    IF regions = <<>>
    THEN LET r == Region(Align(pool.addr), rlen) IN
         IF U32(r.addr + rlen) > U32(pool.addr + pool.len) THEN Failed
         ELSE Placed(<<r>>, r)
    ELSE LET n    == Len(regions)
             gaps == {i \in 1 .. n : Gap(regions, i, rlen, low)}
             i    == IF gaps = {} THEN n + 1 ELSE Least(gaps)
             r    == Region(AfterRegion(regions[IF i > n THEN n ELSE i]), rlen)
         IN IF i >= n /\ PastEnd(pool, regions, rlen) THEN Failed
            ELSE IF i = 1 THEN Placed(<<r, regions[1]>>, r)
            ELSE Placed(SubSeq(regions, 1, i - 1) \o <<r>> \o SubSeq(regions, i, n), r)
=============================================================================
