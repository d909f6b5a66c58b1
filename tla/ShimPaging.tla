------------------------------ MODULE ShimPaging ------------------------------
(***************************************************************************)
(* The shim's view of its own memory under SEV-SNP: the page table of the  *)
(* offset mapping, with leaves of three sizes, and the two operations that *)
(* prepare pages to be shared with the host: smash, which splits a huge    *)
(* leaf by one level, and clear_c_bit_address_range, which makes a range   *)
(* unencrypted.  Sizes are in 4 KiB pages; Fanout stands for the 512       *)
(* entries of a table.                                                     *)
(***************************************************************************)
EXTENDS Naturals

CONSTANTS
    Fanout,     \* entries of one table: pages of a 2 MiB leaf, 512 in hardware
    NumPages    \* pages of the shim's mapping that are modelled

ASSUME PagingAssumption ==
    /\ Fanout \in Nat \ {0, 1}
    /\ NumPages \in Nat \ {0}

Pages == 0 .. NumPages - 1

Small == 1
Big == Fanout           \* a 2 MiB leaf
Huge == Fanout * Fanout \* a 1 GiB leaf
LeafSizes == {Small, Big, Huge}

\* A leaf as seen from one of its pages: its size, the frame it starts at and
\* whether its entry has the C-bit.
Leaves == [size : LeafSizes, frame : Pages, enc : BOOLEAN]
Tables == [Pages -> Leaves]

\* The entries the build generates: every page at its own frame, in leaves of
\* the size `size' names for it, all of them encrypted once the C-bit is known.
OffsetTable(size) ==
    [p \in Pages |-> [size |-> size[p], frame |-> p - (p % size[p]), enc |-> TRUE]]

Translate(pt, p) == pt[p].frame + (p % pt[p].size)

\* The pages that share page p's leaf.
LeafOf(pt, p) == {q \in Pages : q \div pt[p].size = p \div pt[p].size}

\* smash: one new table below the leaf, whose entries continue its frames.
SmashFrames(pt, p) == pt[p].size \div Fanout
Smash(pt, p) ==
    IF pt[p].size = Small THEN pt
    ELSE LET size == SmashFrames(pt, p) IN
         [q \in Pages |->
             IF q \notin LeafOf(pt, p) THEN pt[q]
             ELSE [size  |-> size,
                   frame |-> pt[p].frame + ((q % pt[p].size) \div size) * size,
                   enc   |-> pt[p].enc]]

\* set_memory_shared smashes page after page: one level each time.
SmashRange(pt, start, end) ==
    LET to[p \in start .. end] == IF p = start THEN pt ELSE Smash(to[p - 1], p - 1)
    IN to[end]

\* smash needs a page for the new table.
NeedsTable(pt, p) == pt[p].size # Small

Decrypted(pt, pages) ==
    [q \in Pages |-> IF q \in pages THEN [pt[q] EXCEPT !.enc = FALSE] ELSE pt[q]]

\* clear_c_bit_address_range, one turn: a huge leaf that the rest of the range
\* covers only in part is split, any other is decrypted and passed.
CoversAny(tab, current, end) == TRUE
CoversLeaf(tab, current, end) ==
    LET size == tab[current].size
    IN size = Small \/ (current % size = 0 /\ current + size <= end)
ClearStep(x, end) ==
    IF x.current >= end THEN x
    ELSE IF CoversLeaf(x.tab, x.current, end)
    THEN [tab |-> Decrypted(x.tab, LeafOf(x.tab, x.current)),
          current |-> x.current + x.tab[x.current].size]
    ELSE [tab |-> Smash(x.tab, x.current), current |-> x.current]

\* Two turns split the largest leaf down to pages and one passes it, so that
\* the loop is over after three turns for each page of the range.
ClearCBit(pt, start, end) ==
    LET turns == 3 * (end - start)
        turn == [x \in [tab : Tables, current : 0 .. NumPages] |-> ClearStep(x, end)]
        after[n \in 0 .. turns] ==
            IF n = 0 THEN [tab |-> pt, current |-> start] ELSE turn[after[n - 1]]
    IN after[turns].tab
=============================================================================
