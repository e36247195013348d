-------------------------------- MODULE MCPci -------------------------------
(* An instance of Pci for TLC: two buses of two slots of three functions, and   *)
(* addresses of 64 units, two to a page.                                        *)
EXTENDS Pci

Entry(b, n) == [base |-> b, len |-> n]

Addresses == (0 .. 1) \X (0 .. 1) \X (0 .. 2)

\* Up to three devices, each a bridge or not.
Layouts == UNION {[D -> BOOLEAN] : D \in {D \in SUBSET Addresses : Cardinality(D) <= 3}}

TwoBridges == [a \in {<<0, 0, 0>>, <<0, 1, 0>>} |-> TRUE]

\* Memory from 0, something behind it, and an entry that is low, high or above Top.
Maps == {<<Entry(0, n), Entry(b, l), Entry(c, 4)>> :
            n \in {9, 16, 40}, b \in {16, 17, 40, 64}, l \in {2, 24}, c \in {20, 44, 60, 100}}

PlainMap == <<Entry(0, 16), Entry(60, 4)>>

MCMachines ==
    [layout : Layouts, map : {PlainMap}, bios : {TRUE}]
    \cup [layout : {TwoBridges}, map : Maps \cup {<<Entry(0, 16)>>}, bios : BOOLEAN]
=============================================================================
