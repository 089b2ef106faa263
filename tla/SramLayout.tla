----------------------------- MODULE SramLayout -----------------------------
(***************************************************************************)
(* The memory layout fields of soc_info_t (soc_info.h) and what the SPL    *)
(* loader needs of them.  SocInfo checks the layouts of soc_info_table in  *)
(* bytes; FelSpl uses the same definitions with words as the unit.         *)
(***************************************************************************)
EXTENDS Integers, Sequences

CONSTANTS
    AddrMod,      \* number of addresses: uint32_t arithmetic is modulo this
    HeaderSize,   \* the fields of the eGON header that the thunk reads
    ThunkCode,    \* sizeof(fel_to_spl_thunk)
    PointerSize,  \* sizeof(soc_info->spl_addr)
    EntrySize,    \* sizeof(sram_swap_buffers)
    ScratchSize,  \* most that is ever uploaded to scratch_addr
    TtSize        \* size and alignment of an MMU translation table

ASSUME LayoutSizes ==
    /\ AddrMod \in Nat \ {0}
    /\ \A n \in {HeaderSize, ThunkCode, PointerSize, EntrySize, ScratchSize, TtSize} :
          n \in Nat \ {0}

Region(a, n) == a .. (a + n - 1)

Apart(a, m, b, n) == a + m <= b \/ b + n <= a

\* uint32_t subtraction.
Minus(a, b) == (a - b) % AddrMod

Buf1(s, j) == Region(s.swap_buffers[j].buf1, s.swap_buffers[j].size)
Buf2(s, j) == Region(s.swap_buffers[j].buf2, s.swap_buffers[j].size)
Entries(s) == DOMAIN s.swap_buffers
Scratch(s) == Region(s.scratch_addr, ScratchSize)

\* BROM data that has to survive: the stacks and variables in the BROM
\* buffers, except where every uploaded piece of code goes anyway.
BromLive(s) == (UNION {Buf1(s, j) : j \in Entries(s)}) \ Scratch(s)

\* The thunk with its appended spl_addr and swap table, end mark included.
ThunkLen(s) == ThunkCode + PointerSize + (Len(s.swap_buffers) + 1) * EntrySize
Thunk(s) == Region(s.thunk_addr, s.thunk_size)

\* One past the last BROM buffer, or past the header if there is none.
Buf1End(s) ==
    IF s.swap_buffers = <<>> THEN s.spl_addr + HeaderSize
    ELSE s.swap_buffers[Len(s.swap_buffers)].buf1 + s.swap_buffers[Len(s.swap_buffers)].size

-----------------------------------------------------------------------------
(* Well-formed layouts, part by part.                                      *)

\* "the entries in the 'swap_buffers' tables need to be sorted by 'buf1'":
\* and the buffers do not overlap, nor do they cover the eGON header.
Sorted(s) ==
    /\ \A j \in Entries(s) : s.swap_buffers[j].size > 0
    /\ \A j \in Entries(s) : s.spl_addr + HeaderSize <= s.swap_buffers[j].buf1
    /\ \A j, k \in Entries(s) :
          j < k => s.swap_buffers[j].buf1 + s.swap_buffers[j].size <= s.swap_buffers[k].buf1
    /\ \A j \in Entries(s) :
          s.swap_buffers[j].buf1 + s.swap_buffers[j].size <= Buf1End(s)
    /\ Buf1End(s) <= s.spl_addr + s.sram_size

\* A region that the SPL is kept out of by the size limit, or that lies
\* below the SPL altogether.
OutOfTheWay(s, a, n) == a + n <= s.spl_addr \/ Buf1End(s) <= a

BackupsApart(s) ==
    /\ \A j \in Entries(s) : OutOfTheWay(s, s.swap_buffers[j].buf2, s.swap_buffers[j].size)
    /\ \A j, k \in Entries(s) :
          j # k => Apart(s.swap_buffers[j].buf2, s.swap_buffers[j].size,
                         s.swap_buffers[k].buf2, s.swap_buffers[k].size)

ThunkApart(s) ==
    /\ OutOfTheWay(s, s.thunk_addr, s.thunk_size)
    /\ \A j \in Entries(s) :
          Apart(s.thunk_addr, s.thunk_size, s.swap_buffers[j].buf2, s.swap_buffers[j].size)

\* A translation table at a neither touches BROM data nor the scratch area.
TableApart(s, a) ==
    /\ \A j \in Entries(s) : Apart(a, TtSize, s.swap_buffers[j].buf1, s.swap_buffers[j].size)
    /\ Apart(a, TtSize, s.scratch_addr, ScratchSize)

MmuTableApart(s) ==
    s.mmu_tt_addr # 0 => TableApart(s, s.mmu_tt_addr) /\ s.mmu_tt_addr % TtSize = 0

WellFormed(s) ==
    /\ Sorted(s)
    /\ BackupsApart(s)
    /\ ThunkApart(s)
    /\ MmuTableApart(s)

=============================================================================
