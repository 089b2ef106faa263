------------------------------ MODULE SocInfo ------------------------------
(***************************************************************************)
(* The SoC tables of soc_info.c, in bytes, and the three loops that walk   *)
(* them: get_soc_info_from_id(), get_soc_name_from_id() and get_next_soc() *)
(* (fel --list-socs).  A pointer into soc_info_table is an index; the end  *)
(* mark is the index behind the last entry.                                *)
(***************************************************************************)
EXTENDS SramLayout, FiniteSetsExt

CONSTANT UnknownIds   \* IDs that no entry of the table has

Swap(b1, b2, n) == [buf1 |-> b1, buf2 |-> b2, size |-> n]

\* The layout fields; fields an initializer leaves out are zero.
Soc(id, name, spl, scratch, thunk, tsize, tt, kib, swap) ==
    [soc_id |-> id, name |-> name, spl_addr |-> spl, scratch_addr |-> scratch,
     thunk_addr |-> thunk, thunk_size |-> tsize, mmu_tt_addr |-> tt,
     sram_size |-> kib * 1024, swap_buffers |-> swap]

a10_a13_a20_sram_swap_buffers ==
    <<Swap(\h1C00, \hA400, \h400),
      Swap(\h5C00, \hA800, \h1400),
      Swap(\h7C00, \hBC00, \h400)>>

a31_sram_swap_buffers ==
    <<Swap(\h1800, \h20000, \h800),
      Swap(\h5C00, \h20800, \h2400)>>

a64_sram_swap_buffers ==
    <<Swap(\h11C00, \h31400, \h400),
      Swap(\h15C00, \h31800, \h1400),
      Swap(\h17C00, \h32C00, \h400)>>

ar100_abusing_sram_swap_buffers ==
    <<Swap(\h1800, \h44000, \h800),
      Swap(\h5C00, \h44800, \h2400)>>

a80_sram_swap_buffers ==
    <<Swap(\h11800, \h20000, \h800),
      Swap(\h15400, \h20800, \h2C00)>>

h6_sram_swap_buffers ==
    <<Swap(\h21C00, \h42400, \h400),
      Swap(\h25C00, \h42800, \h1400),
      Swap(\h27C00, \h43C00, \h400)>>

t7_sram_swap_buffers ==
    <<Swap(\h21C00, \h4E400, \h400),
      Swap(\h25C00, \h4E800, \h1400),
      Swap(\h27C00, \h4FC00, \h400)>>

v831_sram_swap_buffers ==
    <<Swap(\h21000, \h38000, \h1000)>>

\* Mutant: the backup runs into the thunk.
h616_backup_into_thunk ==
    <<Swap(\h21000, \h53000, \h1000)>>

h616_sram_swap_buffers ==
    <<Swap(\h21000, \h52A00, \h1000)>>

a133_sram_swap_buffers ==
    <<Swap(\h21000, \h40000, \h400)>>

r329_sram_swap_buffers ==
    <<Swap(\h101000, \h13BC00, \h400)>>

f1c100s_sram_swap_buffers ==
    <<Swap(\h1C00, \h9000, \h400),
      Swap(\h5C00, \h9400, \h1400),
      Swap(\h7C00, \hA800, \h400)>>

a523_sram_swap_buffers ==
    <<Swap(\h45000, \h40200, \h400)>>

generic_sram_swap_buffers ==
    <<Swap(\h1C00, \h5800, \h400)>>

\* soc_info_table, from A10 to T7.
soc_info_table_to_T7 ==
    <<Soc(\h1623, "A10", 0, \h1000, \hA200, \h200, 0, 48, a10_a13_a20_sram_swap_buffers),
      Soc(\h1625, "A13", 0, \h1000, \hA200, \h200, 0, 48, a10_a13_a20_sram_swap_buffers),
      Soc(\h1651, "A20", 0, \h1000, \hA200, \h200, 0, 48, a10_a13_a20_sram_swap_buffers),
      Soc(\h1650, "A23", 0, \h1000, \h46E00, \h200, 0, 64, ar100_abusing_sram_swap_buffers),
      Soc(\h1633, "A31", 0, \h1000, \h22E00, \h200, 0, 32, a31_sram_swap_buffers),
      Soc(\h1667, "A33", 0, \h1000, \h46E00, \h200, 0, 32, ar100_abusing_sram_swap_buffers),
      Soc(\h1689, "A64", \h10000, \h11000, \h31200, \h200, 0, 140, a64_sram_swap_buffers),
      Soc(\h1639, "A80", \h10000, \h11000, \h23400, \h200, 0, 40, a80_sram_swap_buffers),
      Soc(\h1663, "F1C100s", 0, \h1000, \hB400, \h200, 0, 32, f1c100s_sram_swap_buffers),
      Soc(\h1673, "A83T", 0, \h1000, \h46E00, \h200, \h44000, 32, ar100_abusing_sram_swap_buffers),
      Soc(\h1680, "H3", 0, \h1000, \hA200, \h200, \h8000, 108, a10_a13_a20_sram_swap_buffers),
      Soc(\h1681, "V3s", 0, \h1000, \hA200, \h200, \h8000, 60, a10_a13_a20_sram_swap_buffers),
      Soc(\h1708, "T7", \h20000, \h21000, \h4E200, \h200, 0, 184, t7_sram_swap_buffers)>>

\* soc_info_table, from H5 to A133.
soc_info_table_from_H5 ==
    <<Soc(\h1718, "H5", \h10000, \h11000, \h31200, \h200, 0, 140, a64_sram_swap_buffers),
      Soc(\h1701, "R40", 0, \h1000, \hA200, \h200, 0, 48, a10_a13_a20_sram_swap_buffers),
      Soc(\h1719, "A63", \h20000, \h21000, \h42200, \h200, 0, 144, h6_sram_swap_buffers),
      Soc(\h1728, "H6", \h20000, \h21000, \h42200, \h200, 0, 144, h6_sram_swap_buffers),
      Soc(\h1816, "V536", \h20000, \h21000, \h2A200, \h200, 0, 228, v831_sram_swap_buffers),
      Soc(\h1817, "V831", \h20000, \h21000, \h2A200, \h200, 0, 228, v831_sram_swap_buffers),
      Soc(\h1823, "H616", \h20000, \h21000, \h53A00, \h200, 0, 207, h616_sram_swap_buffers),
      Soc(\h1851, "R329", \h100000, \h101000, \h13BA00, \h200, \h130000, 1856, r329_sram_swap_buffers),
      Soc(\h1886, "V853", \h20000, \h21000, \h3A200, \h200, 0, 132, v831_sram_swap_buffers),
      Soc(\h1859, "R528", \h20000, \h21000, \h3A200, \h200, 0, 160, v831_sram_swap_buffers),
      Soc(\h1721, "V5", \h20000, \h21000, \h42200, \h200, 0, 136, h6_sram_swap_buffers),
      Soc(\h1890, "A523", \h44000, \h45000, \h40000, \h200, 0, 96, a523_sram_swap_buffers),
      Soc(\h1855, "A133", \h20000, \h21000, \h40400, \h200, 0, 148, a133_sram_swap_buffers)>>

soc_info_table == soc_info_table_to_T7 \o soc_info_table_from_H5

generic_soc_info ==
    Soc(0, "generic", 0, \h1000, \h5680, \h180, 0, 0, generic_sram_swap_buffers)

-----------------------------------------------------------------------------

VARIABLES
    op,       \* what the tool is doing
    soc_id,   \* the ID the boot ROM has reported
    soc,      \* loop variable: index into soc_info_table
    result,   \* entry found by the lookup; 0 is generic_soc_info
    named,    \* entry whose name is used; 0 is the hexadecimal ID
    prev,     \* argument of get_next_soc(); 0 is NULL
    listed    \* entries printed so far by --list-socs

vars == <<op, soc_id, soc, result, named, prev, listed>>

NumSocs == Len(soc_info_table)

Ids == {soc_info_table[n].soc_id : n \in 1..NumSocs} \cup UnknownIds

\* soc->swap_buffers is NULL only in the end mark.
AtEnd(n) == n > NumSocs

Info(n) == IF n = 0 THEN generic_soc_info ELSE soc_info_table[n]

Init ==
    /\ op = "start"
    /\ soc_id = 0
    /\ soc = 1
    /\ result = 0
    /\ named = 0
    /\ prev = 0
    /\ listed = <<>>

\* feldev_open() has read the version and asks for the name.
Open(id) ==
    /\ op = "start"
    /\ op' = "name"
    /\ soc_id' = id
    /\ soc' = 1
    /\ UNCHANGED <<result, named, prev, listed>>

get_soc_name_from_id ==
    /\ op = "name"
    /\ IF AtEnd(soc) \/ soc_info_table[soc].soc_id = soc_id
       THEN /\ named' = IF AtEnd(soc) THEN 0 ELSE soc
            /\ op' = "info"
            /\ soc' = 1
       ELSE /\ soc' = soc + 1
            /\ UNCHANGED <<op, named>>
    /\ UNCHANGED <<soc_id, result, prev, listed>>

\* Mutant: the loop gives up one entry early.
get_soc_info_from_id_short ==
    /\ op = "info"
    /\ IF soc = NumSocs \/ soc_info_table[soc].soc_id = soc_id
       THEN /\ result' = IF soc = NumSocs THEN 0 ELSE soc
            /\ op' = "open"
            /\ UNCHANGED soc
       ELSE /\ soc' = soc + 1
            /\ UNCHANGED <<op, result>>
    /\ UNCHANGED <<soc_id, named, prev, listed>>

get_soc_info_from_id ==
    /\ op = "info"
    /\ IF AtEnd(soc) \/ soc_info_table[soc].soc_id = soc_id
       THEN /\ result' = IF AtEnd(soc) THEN 0 ELSE soc
            /\ op' = "open"
            /\ UNCHANGED soc
       ELSE /\ soc' = soc + 1
            /\ UNCHANGED <<op, result>>
    /\ UNCHANGED <<soc_id, named, prev, listed>>

\* fel --list-socs: the first call of get_next_soc() has a NULL argument.
ListSocs ==
    /\ op = "start"
    /\ op' = "list"
    /\ prev' = 1
    /\ listed' = <<1>>
    /\ soc' = 1
    /\ UNCHANGED <<soc_id, result, named>>

\* Mutant: the last entry is taken for the end mark.
get_next_soc_last ==
    /\ op = "list"
    /\ IF AtEnd(soc) \/ (soc = prev /\ AtEnd(soc + 2))
       THEN op' = "listed" /\ UNCHANGED <<prev, listed, soc>>
       ELSE IF soc # prev
            THEN soc' = soc + 1 /\ UNCHANGED <<op, prev, listed>>
            ELSE /\ prev' = soc + 1
                 /\ listed' = Append(listed, prev')
                 /\ soc' = 1
                 /\ UNCHANGED op
    /\ UNCHANGED <<soc_id, result, named>>

\* One step of the loop of get_next_soc(); the caller prints what it returns
\* and calls it again.
get_next_soc ==
    /\ op = "list"
    /\ IF AtEnd(soc) \/ (soc = prev /\ AtEnd(soc + 1))
       THEN op' = "listed" /\ UNCHANGED <<prev, listed, soc>>
       ELSE IF soc # prev
            THEN soc' = soc + 1 /\ UNCHANGED <<op, prev, listed>>
            ELSE /\ prev' = soc + 1
                 /\ listed' = Append(listed, prev')
                 /\ soc' = 1
                 /\ UNCHANGED op
    /\ UNCHANGED <<soc_id, result, named>>

Next ==
    \/ \E id \in Ids : Open(id)
    \/ get_soc_name_from_id
    \/ get_soc_info_from_id
    \/ ListSocs
    \/ get_next_soc

Spec == Init /\ [][Next]_vars /\ WF_vars(Next)

-----------------------------------------------------------------------------
(* Properties.                                                             *)

\* The SPL size limit that aw_fel_write_and_execute_spl() arrives at.
SplLimit(s) ==
    Min({s.sram_size, Minus(s.thunk_addr, s.spl_addr)}
        \cup {s.swap_buffers[j].buf2 - s.spl_addr :
                 j \in {k \in Entries(s) : s.swap_buffers[k].buf2 >= s.spl_addr}})

\* The lookup ends with the entry of the reported ID, its name included, and
\* with the generic record only for an ID the table does not have
\* (get_soc_info_from_id(), get_soc_name_from_id()).
LookupExact ==
    op = "open" =>
        /\ named = result
        /\ IF result = 0 THEN \A n \in 1..NumSocs : soc_info_table[n].soc_id # soc_id
                         ELSE soc_info_table[result].soc_id = soc_id

\* Whatever SoC is connected, the layout the tool works with is one FelSpl is
\* proved safe for, the thunk with its appended table fits its place, and every
\* SoC of the table takes an SPL of "the whole 32 KiB" that the swap buffers
\* exist for.  The generic record, in use for an ID the table does not have,
\* takes none at all: it has no sram_size, although the comment above it speaks
\* of a limit of "~21 KiB" (soc_info_table, swap buffer tables,
\* generic_soc_info, fel-to-spl-thunk.h).
LayoutSafe ==
    op = "open" =>
        /\ IF result = 0 THEN SplLimit(Info(result)) = 0
           ELSE WellFormed(Info(result)) /\ SplLimit(Info(result)) >= 32 * 1024
        /\ ThunkLen(Info(result)) <= Info(result).thunk_size

\* fel --list-socs ends, and has then printed every entry once, in order
\* (get_next_soc()).
ListComplete ==
    op = "list" ~> op = "listed" /\ listed = [n \in 1..NumSocs |-> n]

=============================================================================
