------------------------------ MODULE MCFelSpl ------------------------------
(***************************************************************************)
(* Three small layouts with the shapes of real ones, in words.             *)
(***************************************************************************)
EXTENDS FelSpl

Buffers(b1, b2, n) == [buf1 |-> b1, buf2 |-> b2, size |-> n]

\* Two BROM buffers, scratch area below them, thunk and backups above the
\* SPL, a table that overlaps thunk and backups: H3.
LikeH3 ==
    [spl_addr |-> 0, scratch_addr |-> 3, thunk_addr |-> 9, thunk_size |-> 5,
     needs_l2en |-> FALSE, mmu_tt_addr |-> 8, icache_fix |-> FALSE, sram_size |-> 16,
     swap_buffers |-> <<Buffers(4, 14, 2), Buffers(7, 16, 1)>>]

\* No table of the tool's own, SRAM that ends below thunk and backups: A10, A31.
LikeA31 ==
    [spl_addr |-> 0, scratch_addr |-> 2, thunk_addr |-> 15, thunk_size |-> 5,
     needs_l2en |-> TRUE, mmu_tt_addr |-> 0, icache_fix |-> FALSE, sram_size |-> 9,
     swap_buffers |-> <<Buffers(3, 12, 1), Buffers(6, 13, 2)>>]

\* Thunk and backup below the SPL, scratch area inside the BROM buffer: A523.
LikeA523 ==
    [spl_addr |-> 6, scratch_addr |-> 9, thunk_addr |-> 0, thunk_size |-> 4,
     needs_l2en |-> FALSE, mmu_tt_addr |-> 0, icache_fix |-> TRUE, sram_size |-> 7,
     swap_buffers |-> <<Buffers(9, 4, 2)>>]

MCSocs == {LikeH3, LikeA31, LikeA523}

=============================================================================
