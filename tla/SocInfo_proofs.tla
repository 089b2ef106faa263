--------------------------- MODULE SocInfo_proofs ---------------------------
(***************************************************************************)
(* The lookup of a SoC in the table of soc_info.c, for any reported ID,    *)
(* and the layouts it can yield.  For the lookup the table stays closed:   *)
(* only its length matters.                                                *)
(***************************************************************************)
EXTENDS SocInfo, SequenceTheorems, WellFoundedInduction, TLAPS

\* No entry before this one has the reported ID.
NoneBefore(k) == \A n \in 1..NumSocs : n < k => soc_info_table[n].soc_id # soc_id

\* Entry k is the first with the reported ID; 0 if there is none.
IsFirst(k) ==
    \/ k = 0 /\ \A n \in 1..NumSocs : soc_info_table[n].soc_id # soc_id
    \/ k \in 1..NumSocs /\ soc_info_table[k].soc_id = soc_id /\ NoneBefore(k)

\* What --list-socs has printed, and how far get_next_soc() has come.
Printed ==
    /\ op = "list" => /\ prev \in 1..NumSocs /\ soc \in 1..prev
                      /\ listed = [n \in 1..prev |-> n]
    /\ op = "listed" => listed = [n \in 1..NumSocs |-> n]

IInv ==
    /\ soc \in Nat \ {0}
    /\ op \in {"start", "name", "info", "open", "list", "listed"}
    /\ op \in {"name", "info"} => NoneBefore(soc)
    /\ op \in {"info", "open"} => IsFirst(named)
    /\ op = "open" => IsFirst(result)
    /\ Printed

-----------------------------------------------------------------------------
LEMMA TableLen == NumSocs \in Nat \ {0}
<1> DEFINE A == soc_info_table_to_T7
           B == soc_info_table_from_H5
<1>1. \E S : A \in Seq(S) /\ Len(A) = 13
  <2>1. A \in Seq({A[i] : i \in 1..13})
    BY DEF soc_info_table_to_T7
  <2>2. Len(A) = 13
    BY DEF soc_info_table_to_T7
  <2> QED BY <2>1, <2>2
<1>2. \E S : B \in Seq(S)
  <2>1. B \in Seq({B[i] : i \in 1..13})
    BY DEF soc_info_table_from_H5
  <2> QED BY <2>1
<1>3. PICK S, T : A \in Seq(S) /\ Len(A) = 13 /\ B \in Seq(T)
  BY <1>1, <1>2
<1> HIDE DEF A, B
<1>4. A \in Seq(S \cup T) /\ B \in Seq(S \cup T)
  BY <1>3
<1>5. Len(A \o B) = Len(A) + Len(B)
  BY <1>4, ConcatProperties
<1>6. Len(B) \in Nat
  BY <1>4
<1>7. Len(A \o B) \in Nat \ {0}
  BY <1>3, <1>5, <1>6
<1> QED BY <1>7 DEF NumSocs, soc_info_table, A, B

LEMMA FirstIsUnique ==
    ASSUME NEW j, NEW k, IsFirst(j), IsFirst(k)
    PROVE  j = k
<1> USE TableLen
<1>1. CASE j = 0 \/ k = 0
  BY <1>1 DEF IsFirst
<1>2. CASE j # 0 /\ k # 0
  <2>1. /\ j \in 1..NumSocs /\ soc_info_table[j].soc_id = soc_id /\ NoneBefore(j)
        /\ k \in 1..NumSocs /\ soc_info_table[k].soc_id = soc_id /\ NoneBefore(k)
    BY <1>2 DEF IsFirst
  <2>2. ~(j < k) /\ ~(k < j)
    BY <2>1 DEF NoneBefore
  <2> QED BY <2>1, <2>2
<1> QED BY <1>1, <1>2

\* One turn of a lookup loop.
LEMMA ScanStep ==
    ASSUME soc \in Nat \ {0}, NoneBefore(soc)
    PROVE  /\ AtEnd(soc) => IsFirst(0)
           /\ ~AtEnd(soc) /\ soc_info_table[soc].soc_id = soc_id => IsFirst(soc)
           /\ ~AtEnd(soc) /\ soc_info_table[soc].soc_id # soc_id => NoneBefore(soc + 1)
<1> USE TableLen
<1>1. ASSUME AtEnd(soc) PROVE IsFirst(0)
  BY <1>1 DEF AtEnd, IsFirst, NoneBefore
<1>2. ASSUME ~AtEnd(soc) PROVE soc \in 1..NumSocs
  BY <1>2 DEF AtEnd
<1>3. ASSUME ~AtEnd(soc), soc_info_table[soc].soc_id # soc_id PROVE NoneBefore(soc + 1)
  <2>1. \A n \in 1..NumSocs : n < soc + 1 => n = soc \/ n < soc
    OBVIOUS
  <2> QED BY <1>3, <2>1 DEF NoneBefore
<1> QED BY <1>1, <1>2, <1>3 DEF IsFirst

LEMMA Name_inv == ASSUME IInv, get_soc_name_from_id PROVE IInv'
<1>1. /\ op = "name" /\ soc_id' = soc_id /\ soc \in Nat \ {0} /\ NoneBefore(soc)
  BY DEF IInv, get_soc_name_from_id
<1>2. CASE AtEnd(soc) \/ soc_info_table[soc].soc_id = soc_id
  <2>1. op' = "info" /\ soc' = 1 /\ named' = IF AtEnd(soc) THEN 0 ELSE soc
    BY <1>2 DEF get_soc_name_from_id
  <2>2. IsFirst(named')
    BY <1>1, <1>2, <2>1, ScanStep
  <2>3. IsFirst(named)'
    BY <1>1, <2>2 DEF IsFirst, NoneBefore
  <2>4. NoneBefore(soc)'
    BY <2>1, TableLen DEF NoneBefore
  <2> QED BY <2>1, <2>3, <2>4 DEF IInv, Printed
<1>3. CASE ~(AtEnd(soc) \/ soc_info_table[soc].soc_id = soc_id)
  <2>1. op' = "name" /\ soc' = soc + 1
    BY <1>1, <1>3 DEF get_soc_name_from_id
  <2>2. NoneBefore(soc + 1)
    BY <1>1, <1>3, ScanStep
  <2>3. NoneBefore(soc)'
    BY <1>1, <2>1, <2>2 DEF NoneBefore
  <2> QED BY <1>1, <2>1, <2>3 DEF IInv, Printed
<1> QED BY <1>2, <1>3

LEMMA Info_inv == ASSUME IInv, get_soc_info_from_id PROVE IInv'
<1>1. /\ op = "info" /\ soc_id' = soc_id /\ named' = named
      /\ soc \in Nat \ {0} /\ NoneBefore(soc) /\ IsFirst(named)
  BY DEF IInv, get_soc_info_from_id
<1>2. IsFirst(named)'
  BY <1>1 DEF IsFirst, NoneBefore
<1>3. CASE AtEnd(soc) \/ soc_info_table[soc].soc_id = soc_id
  <2>1. op' = "open" /\ soc' = soc /\ result' = IF AtEnd(soc) THEN 0 ELSE soc
    BY <1>3 DEF get_soc_info_from_id
  <2>2. IsFirst(result')
    BY <1>1, <1>3, <2>1, ScanStep
  <2>3. IsFirst(result)'
    BY <1>1, <2>2 DEF IsFirst, NoneBefore
  <2> QED BY <1>1, <1>2, <2>1, <2>3 DEF IInv, Printed
<1>4. CASE ~(AtEnd(soc) \/ soc_info_table[soc].soc_id = soc_id)
  <2>1. op' = "info" /\ soc' = soc + 1
    BY <1>1, <1>4 DEF get_soc_info_from_id
  <2>2. NoneBefore(soc + 1)
    BY <1>1, <1>4, ScanStep
  <2>3. NoneBefore(soc)'
    BY <1>1, <2>1, <2>2 DEF NoneBefore
  <2> QED BY <1>1, <1>2, <2>1, <2>3 DEF IInv, Printed
<1> QED BY <1>3, <1>4

LEMMA Next_inv == ASSUME IInv, get_next_soc PROVE IInv'
<1>1. /\ op = "list" /\ prev \in 1..NumSocs /\ soc \in 1..prev
      /\ listed = [n \in 1..prev |-> n] /\ NumSocs \in Nat
  BY TableLen DEF IInv, Printed, get_next_soc
<1>2. CASE AtEnd(soc) \/ (soc = prev /\ AtEnd(soc + 1))
  <2>1. op' = "listed" /\ listed' = listed /\ soc' = soc
    BY <1>2 DEF get_next_soc
  <2>2. prev = NumSocs
    BY <1>1, <1>2 DEF AtEnd
  <2> QED BY <1>1, <2>1, <2>2 DEF IInv, Printed
<1>3. CASE ~(AtEnd(soc) \/ (soc = prev /\ AtEnd(soc + 1))) /\ soc # prev
  <2>1. op' = op /\ prev' = prev /\ listed' = listed /\ soc' = soc + 1
    BY <1>3 DEF get_next_soc
  <2>2. soc + 1 \in 1..prev
    BY <1>1, <1>3
  <2> QED BY <1>1, <2>1, <2>2 DEF IInv, Printed
<1>4. CASE ~(AtEnd(soc) \/ (soc = prev /\ AtEnd(soc + 1))) /\ soc = prev
  <2>1. op' = op /\ prev' = prev + 1 /\ listed' = Append(listed, prev + 1) /\ soc' = 1
    BY <1>4 DEF get_next_soc
  <2>2. prev + 1 \in 1..NumSocs /\ 1 \in 1..(prev + 1)
    BY <1>1, <1>4 DEF AtEnd
  <2>3. listed' = [n \in 1..(prev + 1) |-> n]
    <3>1. listed \in Seq(Nat) /\ Len(listed) = prev
      BY <1>1
    <3>2. Append(listed, prev + 1) = [n \in 1..(prev + 1) |->
                                        IF n <= prev THEN listed[n] ELSE prev + 1]
      BY <3>1
    <3> QED BY <1>1, <2>1, <3>2
  <2> QED BY <1>1, <2>1, <2>2, <2>3 DEF IInv, Printed
<1> QED BY <1>2, <1>3, <1>4

(***************************************************************************)
(* The invariant of the three loops.                                       *)
(***************************************************************************)
THEOREM Invariance == Spec => []IInv
<1>1. Init => IInv
  BY DEF Init, IInv, Printed
<1>2. IInv /\ [Next]_vars => IInv'
  <2> SUFFICES ASSUME IInv, [Next]_vars PROVE IInv'
    OBVIOUS
  <2>1. ASSUME NEW id \in Ids, Open(id) PROVE IInv'
    <3>1. op' = "name" /\ soc' = 1
      BY <2>1 DEF Open
    <3>2. NoneBefore(soc)'
      BY <3>1, TableLen DEF NoneBefore
    <3> QED BY <3>1, <3>2 DEF IInv, Printed
  <2>2. CASE ListSocs
    <3>1. op' = "list" /\ prev' = 1 /\ soc' = 1 /\ listed' = <<1>>
      BY <2>2 DEF ListSocs
    <3>2. <<1>> = [n \in 1..1 |-> n] /\ 1 \in 1..NumSocs
      BY TableLen
    <3> QED BY <3>1, <3>2 DEF IInv, Printed
  <2>3. CASE UNCHANGED vars
    BY <2>3 DEF vars, IInv, NoneBefore, IsFirst, Printed
  <2> QED BY <2>1, <2>2, <2>3, Name_inv, Info_inv, Next_inv DEF Next
<1> QED BY <1>1, <1>2, PTL DEF Spec

(***************************************************************************)
(* Whatever ID the boot ROM reports, get_soc_name_from_id() and            *)
(* get_soc_info_from_id() agree on the entry, it is the one of that ID,    *)
(* and the generic record is used only when the table has none.            *)
(***************************************************************************)
THEOREM LookupIsExact == Spec => []LookupExact
<1>1. IInv => LookupExact
  <2> SUFFICES ASSUME IInv, op = "open" PROVE LookupExact
    BY DEF LookupExact
  <2>1. IsFirst(named) /\ IsFirst(result)
    BY DEF IInv
  <2>2. named = result
    BY <2>1, FirstIsUnique
  <2>3. 0 \notin 1..NumSocs
    BY TableLen
  <2> QED BY <2>1, <2>2, <2>3 DEF IsFirst, LookupExact
<1> QED BY <1>1, Invariance, PTL

(***************************************************************************)
(* When "fel --list-socs" is done it has printed every SoC of the table    *)
(* exactly once and in order: get_next_soc() finds its way back to each    *)
(* entry and stops behind the last (that it gets there is ListComplete).   *)
(***************************************************************************)
THEOREM ListIsExact ==
    Spec => [](op = "listed" => listed = [n \in 1..NumSocs |-> n])
<1>1. IInv => (op = "listed" => listed = [n \in 1..NumSocs |-> n])
  BY DEF IInv, Printed
<1> QED BY <1>1, Invariance, PTL

-----------------------------------------------------------------------------
(* The layouts of the table, one lemma for each table of swap buffers. *)

\* The sizes of the code: eGON header, fel_to_spl_thunk, pointer, swap entry,
\* scratch area, translation table; of the 2^32 addresses 2^24 would do.
RealSizes ==
    /\ AddrMod \in Nat /\ AddrMod >= \h1000000
    /\ HeaderSize = 20 /\ ThunkCode = 276 /\ PointerSize = 4 /\ EntrySize = 12
    /\ ScratchSize = 1024 /\ TtSize = 16384

\* What LayoutSafe asks of a row.
Safe(s) ==
    /\ WellFormed(s)
    /\ SplLimit(s) >= 32 * 1024
    /\ ThunkLen(s) <= s.thunk_size

\* A row with these fields; of the SRAM's size only the 32 KiB matter.
Has(s, spl, scratch, thunks, tts, swap) ==
    /\ s.spl_addr = spl /\ s.scratch_addr = scratch
    /\ s.thunk_addr \in thunks /\ s.thunk_size = \h200 /\ s.mmu_tt_addr \in tts
    /\ s.sram_size \in Nat /\ s.sram_size >= 32768
    /\ s.swap_buffers = swap

LEMMA Mods ==
    ASSUME NEW x \in Nat, NEW N \in Nat, x < N
    PROVE  x % N = x
  OBVIOUS

LEMMA ModsBelow ==
    ASSUME NEW x \in Nat, NEW N \in Nat, NEW y \in Int, 0 < x, x < N, y = 0 - x
    PROVE  y % N = N - x
  OBVIOUS

\* What the uint32_t subtraction yields.
LEMMA MinusIs ==
    ASSUME RealSizes, NEW a \in Nat, NEW b \in Nat, a < \h1000000, b < \h1000000
    PROVE  Minus(a, b) = IF a >= b THEN a - b ELSE AddrMod - (b - a)
<1>1. AddrMod \in Nat /\ a - b < AddrMod /\ b - a < AddrMod
  BY SMT DEF RealSizes
<1>2. CASE a >= b
  <2>1. PICK x \in Nat : x = a - b
    BY <1>2, SMT
  <2>2. x \in Nat /\ AddrMod \in Nat /\ x < AddrMod
    BY <1>1, <2>1, SMT
  <2>3. x % AddrMod = x
    BY ONLY <2>2, Mods, SMT
  <2> QED BY <1>2, <2>1, <2>3, SMT DEF Minus
<1>3. CASE ~(a >= b)
  <2>1. PICK x \in Nat : x = b - a /\ x > 0 /\ a - b = 0 - x
    BY <1>3, SMT
  <2>2. PICK y \in Int : y = a - b
    BY SMT
  <2>3. x \in Nat /\ AddrMod \in Nat /\ x < AddrMod /\ x > 0 /\ y \in Int /\ y = 0 - x
    BY <1>1, <2>1, <2>2, SMT
  <2>4. y % AddrMod = AddrMod - x
    BY ONLY <2>3, ModsBelow, Zenon
  <2> QED BY <1>3, <2>1, <2>2, <2>4, SMT DEF Minus
<1> QED BY <1>2, <1>3, SMT

\* A set of numbers has a least element.
LEMMA Least ==
    ASSUME NEW S \in SUBSET Nat, S # {}
    PROVE  Min(S) \in S /\ \A y \in S : Min(S) <= y
<1> DEFINE Less == {ss \in Nat \X Nat : ss[1] < ss[2]}
<1>1. IsWellFoundedOn(Less, Nat)
  <2>1. OpToRel(<, Nat) = Less
    BY DEF OpToRel
  <2> QED BY <2>1, NatLessThanWellFounded
<1> HIDE DEF Less
<1>2. PICK x \in S : \A y \in S : <<y, x>> \notin Less
  BY <1>1, WFMin
<1>3. ASSUME NEW y \in S PROVE x <= y
  <2>1. x \in Nat /\ y \in Nat /\ <<y, x>> \notin Less
    BY <1>2, <1>3
  <2> QED BY <2>1 DEF Less
<1> QED BY <1>3 DEF Min

\* A thunk and backups that lie 32 KiB above the SPL, or below it.
LEMMA LimitLarge ==
    ASSUME RealSizes, NEW s, s.sram_size \in Nat, s.sram_size >= 32768,
           s.thunk_addr \in Nat, s.thunk_addr < \h1000000,
           s.spl_addr \in Nat, s.spl_addr < \h800000,
           s.thunk_addr >= s.spl_addr => s.thunk_addr - s.spl_addr >= 32768,
           \A j \in Entries(s) :
              /\ s.swap_buffers[j].buf2 \in Nat
              /\ s.swap_buffers[j].buf2 >= s.spl_addr =>
                    s.swap_buffers[j].buf2 - s.spl_addr >= 32768
    PROVE  SplLimit(s) >= 32768
<1> DEFINE S == {s.sram_size, Minus(s.thunk_addr, s.spl_addr)}
                  \cup {s.swap_buffers[j].buf2 - s.spl_addr :
                           j \in {k \in Entries(s) :
                                     s.swap_buffers[k].buf2 >= s.spl_addr}}
<1>1. Minus(s.thunk_addr, s.spl_addr) \in Nat
        /\ Minus(s.thunk_addr, s.spl_addr) >= 32768
  <2>1. s.spl_addr < \h1000000
    BY SMT
  <2>2. Minus(s.thunk_addr, s.spl_addr)
          = IF s.thunk_addr >= s.spl_addr THEN s.thunk_addr - s.spl_addr
            ELSE AddrMod - (s.spl_addr - s.thunk_addr)
    BY <2>1, MinusIs, SMT
  <2> QED BY <2>2, SMT DEF RealSizes
<1>2. \A x \in S : x \in Nat /\ x >= 32768
  BY <1>1, SMT
<1>3. S # {}
  OBVIOUS
<1> HIDE DEF S
<1>4. Min(S) \in S
  BY <1>2, <1>3, Least
<1>5. Min(S) >= 32768
  BY <1>2, <1>4, SMT
<1> QED BY <1>5, SMT DEF SplLimit, S

LEMMA a10_a13_a20_layout ==
    ASSUME RealSizes, NEW s,
           Has(s, 0, \h1000, {\hA200}, {0, \h8000},
               a10_a13_a20_sram_swap_buffers)
    PROVE  Safe(s)
<1> USE DEF Has
<1>1. /\ Len(s.swap_buffers) = 3 /\ Entries(s) = {1, 2, 3}
      /\ s.swap_buffers # <<>>
      /\ s.swap_buffers[1].buf1 = \h1C00 /\ s.swap_buffers[1].buf2 = \hA400
      /\ s.swap_buffers[1].size = \h400
      /\ s.swap_buffers[2].buf1 = \h5C00 /\ s.swap_buffers[2].buf2 = \hA800
      /\ s.swap_buffers[2].size = \h1400
      /\ s.swap_buffers[3].buf1 = \h7C00 /\ s.swap_buffers[3].buf2 = \hBC00
      /\ s.swap_buffers[3].size = \h400
  BY SMT DEF Entries, Swap, a10_a13_a20_sram_swap_buffers
<1>2. Sorted(s)
  <2>1. Buf1End(s) = 32768
    BY <1>1, SMT DEF Buf1End
  <2>2. \A j, k \in {1, 2, 3} : j < k =>
          s.swap_buffers[j].buf1 + s.swap_buffers[j].size <= s.swap_buffers[k].buf1
    BY <1>1, SMT
  <2>3. \A j \in {1, 2, 3} :
          /\ s.swap_buffers[j].size > 0
          /\ s.spl_addr + 20 <= s.swap_buffers[j].buf1
          /\ s.swap_buffers[j].buf1 + s.swap_buffers[j].size <= Buf1End(s)
    BY <1>1, <2>1, SMT
  <2>4. Buf1End(s) <= s.spl_addr + s.sram_size
    BY <2>1, SMT
  <2> QED BY <1>1, <2>2, <2>3, <2>4, SMT DEF Sorted, RealSizes
<1>3. BackupsApart(s)
  BY <1>1, SMT DEF BackupsApart, Buf1End, OutOfTheWay, Apart
<1>4. ThunkApart(s)
  BY <1>1, SMT DEF ThunkApart, Buf1End, OutOfTheWay, Apart
<1>5. MmuTableApart(s)
  BY <1>1, SMT DEF MmuTableApart, TableApart, Apart, RealSizes
<1>6. ThunkLen(s) <= s.thunk_size
  BY <1>1, SMT DEF ThunkLen, RealSizes
<1>7. SplLimit(s) >= 32768
  <2>1. \A j \in Entries(s) :
          /\ s.swap_buffers[j].buf2 \in Nat
          /\ s.swap_buffers[j].buf2 >= s.spl_addr =>
                s.swap_buffers[j].buf2 - s.spl_addr >= 32768
    BY <1>1, SMT
  <2>2. /\ s.thunk_addr \in Nat /\ s.thunk_addr < \h1000000
        /\ s.spl_addr \in Nat /\ s.spl_addr < \h800000
        /\ s.thunk_addr >= s.spl_addr => s.thunk_addr - s.spl_addr >= 32768
        /\ s.sram_size \in Nat /\ s.sram_size >= 32768 /\ RealSizes
    BY SMT
  <2> QED BY ONLY <2>1, <2>2, LimitLarge, SMT
<1> QED BY <1>2, <1>3, <1>4, <1>5, <1>6, <1>7, SMT DEF Safe, WellFormed

LEMMA a31_layout ==
    ASSUME RealSizes, NEW s,
           Has(s, 0, \h1000, {\h22E00}, {0},
               a31_sram_swap_buffers)
    PROVE  Safe(s)
<1> USE DEF Has
<1>1. /\ Len(s.swap_buffers) = 2 /\ Entries(s) = {1, 2}
      /\ s.swap_buffers # <<>>
      /\ s.swap_buffers[1].buf1 = \h1800 /\ s.swap_buffers[1].buf2 = \h20000
      /\ s.swap_buffers[1].size = \h800
      /\ s.swap_buffers[2].buf1 = \h5C00 /\ s.swap_buffers[2].buf2 = \h20800
      /\ s.swap_buffers[2].size = \h2400
  BY SMT DEF Entries, Swap, a31_sram_swap_buffers
<1>2. Sorted(s)
  <2>1. Buf1End(s) = 32768
    BY <1>1, SMT DEF Buf1End
  <2>2. \A j, k \in {1, 2} : j < k =>
          s.swap_buffers[j].buf1 + s.swap_buffers[j].size <= s.swap_buffers[k].buf1
    BY <1>1, SMT
  <2>3. \A j \in {1, 2} :
          /\ s.swap_buffers[j].size > 0
          /\ s.spl_addr + 20 <= s.swap_buffers[j].buf1
          /\ s.swap_buffers[j].buf1 + s.swap_buffers[j].size <= Buf1End(s)
    BY <1>1, <2>1, SMT
  <2>4. Buf1End(s) <= s.spl_addr + s.sram_size
    BY <2>1, SMT
  <2> QED BY <1>1, <2>2, <2>3, <2>4, SMT DEF Sorted, RealSizes
<1>3. BackupsApart(s)
  BY <1>1, SMT DEF BackupsApart, Buf1End, OutOfTheWay, Apart
<1>4. ThunkApart(s)
  BY <1>1, SMT DEF ThunkApart, Buf1End, OutOfTheWay, Apart
<1>5. MmuTableApart(s)
  BY <1>1, SMT DEF MmuTableApart, TableApart, Apart, RealSizes
<1>6. ThunkLen(s) <= s.thunk_size
  BY <1>1, SMT DEF ThunkLen, RealSizes
<1>7. SplLimit(s) >= 32768
  <2>1. \A j \in Entries(s) :
          /\ s.swap_buffers[j].buf2 \in Nat
          /\ s.swap_buffers[j].buf2 >= s.spl_addr =>
                s.swap_buffers[j].buf2 - s.spl_addr >= 32768
    BY <1>1, SMT
  <2>2. /\ s.thunk_addr \in Nat /\ s.thunk_addr < \h1000000
        /\ s.spl_addr \in Nat /\ s.spl_addr < \h800000
        /\ s.thunk_addr >= s.spl_addr => s.thunk_addr - s.spl_addr >= 32768
        /\ s.sram_size \in Nat /\ s.sram_size >= 32768 /\ RealSizes
    BY SMT
  <2> QED BY ONLY <2>1, <2>2, LimitLarge, SMT
<1> QED BY <1>2, <1>3, <1>4, <1>5, <1>6, <1>7, SMT DEF Safe, WellFormed

LEMMA a64_layout ==
    ASSUME RealSizes, NEW s,
           Has(s, \h10000, \h11000, {\h31200}, {0},
               a64_sram_swap_buffers)
    PROVE  Safe(s)
<1> USE DEF Has
<1>1. /\ Len(s.swap_buffers) = 3 /\ Entries(s) = {1, 2, 3}
      /\ s.swap_buffers # <<>>
      /\ s.swap_buffers[1].buf1 = \h11C00 /\ s.swap_buffers[1].buf2 = \h31400
      /\ s.swap_buffers[1].size = \h400
      /\ s.swap_buffers[2].buf1 = \h15C00 /\ s.swap_buffers[2].buf2 = \h31800
      /\ s.swap_buffers[2].size = \h1400
      /\ s.swap_buffers[3].buf1 = \h17C00 /\ s.swap_buffers[3].buf2 = \h32C00
      /\ s.swap_buffers[3].size = \h400
  BY SMT DEF Entries, Swap, a64_sram_swap_buffers
<1>2. Sorted(s)
  <2>1. Buf1End(s) = 98304
    BY <1>1, SMT DEF Buf1End
  <2>2. \A j, k \in {1, 2, 3} : j < k =>
          s.swap_buffers[j].buf1 + s.swap_buffers[j].size <= s.swap_buffers[k].buf1
    BY <1>1, SMT
  <2>3. \A j \in {1, 2, 3} :
          /\ s.swap_buffers[j].size > 0
          /\ s.spl_addr + 20 <= s.swap_buffers[j].buf1
          /\ s.swap_buffers[j].buf1 + s.swap_buffers[j].size <= Buf1End(s)
    BY <1>1, <2>1, SMT
  <2>4. Buf1End(s) <= s.spl_addr + s.sram_size
    BY <2>1, SMT
  <2> QED BY <1>1, <2>2, <2>3, <2>4, SMT DEF Sorted, RealSizes
<1>3. BackupsApart(s)
  BY <1>1, SMT DEF BackupsApart, Buf1End, OutOfTheWay, Apart
<1>4. ThunkApart(s)
  BY <1>1, SMT DEF ThunkApart, Buf1End, OutOfTheWay, Apart
<1>5. MmuTableApart(s)
  BY <1>1, SMT DEF MmuTableApart, TableApart, Apart, RealSizes
<1>6. ThunkLen(s) <= s.thunk_size
  BY <1>1, SMT DEF ThunkLen, RealSizes
<1>7. SplLimit(s) >= 32768
  <2>1. \A j \in Entries(s) :
          /\ s.swap_buffers[j].buf2 \in Nat
          /\ s.swap_buffers[j].buf2 >= s.spl_addr =>
                s.swap_buffers[j].buf2 - s.spl_addr >= 32768
    BY <1>1, SMT
  <2>2. /\ s.thunk_addr \in Nat /\ s.thunk_addr < \h1000000
        /\ s.spl_addr \in Nat /\ s.spl_addr < \h800000
        /\ s.thunk_addr >= s.spl_addr => s.thunk_addr - s.spl_addr >= 32768
        /\ s.sram_size \in Nat /\ s.sram_size >= 32768 /\ RealSizes
    BY SMT
  <2> QED BY ONLY <2>1, <2>2, LimitLarge, SMT
<1> QED BY <1>2, <1>3, <1>4, <1>5, <1>6, <1>7, SMT DEF Safe, WellFormed

LEMMA ar100_abusing_layout ==
    ASSUME RealSizes, NEW s,
           Has(s, 0, \h1000, {\h46E00}, {0, \h44000},
               ar100_abusing_sram_swap_buffers)
    PROVE  Safe(s)
<1> USE DEF Has
<1>1. /\ Len(s.swap_buffers) = 2 /\ Entries(s) = {1, 2}
      /\ s.swap_buffers # <<>>
      /\ s.swap_buffers[1].buf1 = \h1800 /\ s.swap_buffers[1].buf2 = \h44000
      /\ s.swap_buffers[1].size = \h800
      /\ s.swap_buffers[2].buf1 = \h5C00 /\ s.swap_buffers[2].buf2 = \h44800
      /\ s.swap_buffers[2].size = \h2400
  BY SMT DEF Entries, Swap, ar100_abusing_sram_swap_buffers
<1>2. Sorted(s)
  <2>1. Buf1End(s) = 32768
    BY <1>1, SMT DEF Buf1End
  <2>2. \A j, k \in {1, 2} : j < k =>
          s.swap_buffers[j].buf1 + s.swap_buffers[j].size <= s.swap_buffers[k].buf1
    BY <1>1, SMT
  <2>3. \A j \in {1, 2} :
          /\ s.swap_buffers[j].size > 0
          /\ s.spl_addr + 20 <= s.swap_buffers[j].buf1
          /\ s.swap_buffers[j].buf1 + s.swap_buffers[j].size <= Buf1End(s)
    BY <1>1, <2>1, SMT
  <2>4. Buf1End(s) <= s.spl_addr + s.sram_size
    BY <2>1, SMT
  <2> QED BY <1>1, <2>2, <2>3, <2>4, SMT DEF Sorted, RealSizes
<1>3. BackupsApart(s)
  BY <1>1, SMT DEF BackupsApart, Buf1End, OutOfTheWay, Apart
<1>4. ThunkApart(s)
  BY <1>1, SMT DEF ThunkApart, Buf1End, OutOfTheWay, Apart
<1>5. MmuTableApart(s)
  BY <1>1, SMT DEF MmuTableApart, TableApart, Apart, RealSizes
<1>6. ThunkLen(s) <= s.thunk_size
  BY <1>1, SMT DEF ThunkLen, RealSizes
<1>7. SplLimit(s) >= 32768
  <2>1. \A j \in Entries(s) :
          /\ s.swap_buffers[j].buf2 \in Nat
          /\ s.swap_buffers[j].buf2 >= s.spl_addr =>
                s.swap_buffers[j].buf2 - s.spl_addr >= 32768
    BY <1>1, SMT
  <2>2. /\ s.thunk_addr \in Nat /\ s.thunk_addr < \h1000000
        /\ s.spl_addr \in Nat /\ s.spl_addr < \h800000
        /\ s.thunk_addr >= s.spl_addr => s.thunk_addr - s.spl_addr >= 32768
        /\ s.sram_size \in Nat /\ s.sram_size >= 32768 /\ RealSizes
    BY SMT
  <2> QED BY ONLY <2>1, <2>2, LimitLarge, SMT
<1> QED BY <1>2, <1>3, <1>4, <1>5, <1>6, <1>7, SMT DEF Safe, WellFormed

LEMMA a80_layout ==
    ASSUME RealSizes, NEW s,
           Has(s, \h10000, \h11000, {\h23400}, {0},
               a80_sram_swap_buffers)
    PROVE  Safe(s)
<1> USE DEF Has
<1>1. /\ Len(s.swap_buffers) = 2 /\ Entries(s) = {1, 2}
      /\ s.swap_buffers # <<>>
      /\ s.swap_buffers[1].buf1 = \h11800 /\ s.swap_buffers[1].buf2 = \h20000
      /\ s.swap_buffers[1].size = \h800
      /\ s.swap_buffers[2].buf1 = \h15400 /\ s.swap_buffers[2].buf2 = \h20800
      /\ s.swap_buffers[2].size = \h2C00
  BY SMT DEF Entries, Swap, a80_sram_swap_buffers
<1>2. Sorted(s)
  <2>1. Buf1End(s) = 98304
    BY <1>1, SMT DEF Buf1End
  <2>2. \A j, k \in {1, 2} : j < k =>
          s.swap_buffers[j].buf1 + s.swap_buffers[j].size <= s.swap_buffers[k].buf1
    BY <1>1, SMT
  <2>3. \A j \in {1, 2} :
          /\ s.swap_buffers[j].size > 0
          /\ s.spl_addr + 20 <= s.swap_buffers[j].buf1
          /\ s.swap_buffers[j].buf1 + s.swap_buffers[j].size <= Buf1End(s)
    BY <1>1, <2>1, SMT
  <2>4. Buf1End(s) <= s.spl_addr + s.sram_size
    BY <2>1, SMT
  <2> QED BY <1>1, <2>2, <2>3, <2>4, SMT DEF Sorted, RealSizes
<1>3. BackupsApart(s)
  BY <1>1, SMT DEF BackupsApart, Buf1End, OutOfTheWay, Apart
<1>4. ThunkApart(s)
  BY <1>1, SMT DEF ThunkApart, Buf1End, OutOfTheWay, Apart
<1>5. MmuTableApart(s)
  BY <1>1, SMT DEF MmuTableApart, TableApart, Apart, RealSizes
<1>6. ThunkLen(s) <= s.thunk_size
  BY <1>1, SMT DEF ThunkLen, RealSizes
<1>7. SplLimit(s) >= 32768
  <2>1. \A j \in Entries(s) :
          /\ s.swap_buffers[j].buf2 \in Nat
          /\ s.swap_buffers[j].buf2 >= s.spl_addr =>
                s.swap_buffers[j].buf2 - s.spl_addr >= 32768
    BY <1>1, SMT
  <2>2. /\ s.thunk_addr \in Nat /\ s.thunk_addr < \h1000000
        /\ s.spl_addr \in Nat /\ s.spl_addr < \h800000
        /\ s.thunk_addr >= s.spl_addr => s.thunk_addr - s.spl_addr >= 32768
        /\ s.sram_size \in Nat /\ s.sram_size >= 32768 /\ RealSizes
    BY SMT
  <2> QED BY ONLY <2>1, <2>2, LimitLarge, SMT
<1> QED BY <1>2, <1>3, <1>4, <1>5, <1>6, <1>7, SMT DEF Safe, WellFormed

LEMMA h6_layout ==
    ASSUME RealSizes, NEW s,
           Has(s, \h20000, \h21000, {\h42200}, {0},
               h6_sram_swap_buffers)
    PROVE  Safe(s)
<1> USE DEF Has
<1>1. /\ Len(s.swap_buffers) = 3 /\ Entries(s) = {1, 2, 3}
      /\ s.swap_buffers # <<>>
      /\ s.swap_buffers[1].buf1 = \h21C00 /\ s.swap_buffers[1].buf2 = \h42400
      /\ s.swap_buffers[1].size = \h400
      /\ s.swap_buffers[2].buf1 = \h25C00 /\ s.swap_buffers[2].buf2 = \h42800
      /\ s.swap_buffers[2].size = \h1400
      /\ s.swap_buffers[3].buf1 = \h27C00 /\ s.swap_buffers[3].buf2 = \h43C00
      /\ s.swap_buffers[3].size = \h400
  BY SMT DEF Entries, Swap, h6_sram_swap_buffers
<1>2. Sorted(s)
  <2>1. Buf1End(s) = 163840
    BY <1>1, SMT DEF Buf1End
  <2>2. \A j, k \in {1, 2, 3} : j < k =>
          s.swap_buffers[j].buf1 + s.swap_buffers[j].size <= s.swap_buffers[k].buf1
    BY <1>1, SMT
  <2>3. \A j \in {1, 2, 3} :
          /\ s.swap_buffers[j].size > 0
          /\ s.spl_addr + 20 <= s.swap_buffers[j].buf1
          /\ s.swap_buffers[j].buf1 + s.swap_buffers[j].size <= Buf1End(s)
    BY <1>1, <2>1, SMT
  <2>4. Buf1End(s) <= s.spl_addr + s.sram_size
    BY <2>1, SMT
  <2> QED BY <1>1, <2>2, <2>3, <2>4, SMT DEF Sorted, RealSizes
<1>3. BackupsApart(s)
  BY <1>1, SMT DEF BackupsApart, Buf1End, OutOfTheWay, Apart
<1>4. ThunkApart(s)
  BY <1>1, SMT DEF ThunkApart, Buf1End, OutOfTheWay, Apart
<1>5. MmuTableApart(s)
  BY <1>1, SMT DEF MmuTableApart, TableApart, Apart, RealSizes
<1>6. ThunkLen(s) <= s.thunk_size
  BY <1>1, SMT DEF ThunkLen, RealSizes
<1>7. SplLimit(s) >= 32768
  <2>1. \A j \in Entries(s) :
          /\ s.swap_buffers[j].buf2 \in Nat
          /\ s.swap_buffers[j].buf2 >= s.spl_addr =>
                s.swap_buffers[j].buf2 - s.spl_addr >= 32768
    BY <1>1, SMT
  <2>2. /\ s.thunk_addr \in Nat /\ s.thunk_addr < \h1000000
        /\ s.spl_addr \in Nat /\ s.spl_addr < \h800000
        /\ s.thunk_addr >= s.spl_addr => s.thunk_addr - s.spl_addr >= 32768
        /\ s.sram_size \in Nat /\ s.sram_size >= 32768 /\ RealSizes
    BY SMT
  <2> QED BY ONLY <2>1, <2>2, LimitLarge, SMT
<1> QED BY <1>2, <1>3, <1>4, <1>5, <1>6, <1>7, SMT DEF Safe, WellFormed

LEMMA t7_layout ==
    ASSUME RealSizes, NEW s,
           Has(s, \h20000, \h21000, {\h4E200}, {0},
               t7_sram_swap_buffers)
    PROVE  Safe(s)
<1> USE DEF Has
<1>1. /\ Len(s.swap_buffers) = 3 /\ Entries(s) = {1, 2, 3}
      /\ s.swap_buffers # <<>>
      /\ s.swap_buffers[1].buf1 = \h21C00 /\ s.swap_buffers[1].buf2 = \h4E400
      /\ s.swap_buffers[1].size = \h400
      /\ s.swap_buffers[2].buf1 = \h25C00 /\ s.swap_buffers[2].buf2 = \h4E800
      /\ s.swap_buffers[2].size = \h1400
      /\ s.swap_buffers[3].buf1 = \h27C00 /\ s.swap_buffers[3].buf2 = \h4FC00
      /\ s.swap_buffers[3].size = \h400
  BY SMT DEF Entries, Swap, t7_sram_swap_buffers
<1>2. Sorted(s)
  <2>1. Buf1End(s) = 163840
    BY <1>1, SMT DEF Buf1End
  <2>2. \A j, k \in {1, 2, 3} : j < k =>
          s.swap_buffers[j].buf1 + s.swap_buffers[j].size <= s.swap_buffers[k].buf1
    BY <1>1, SMT
  <2>3. \A j \in {1, 2, 3} :
          /\ s.swap_buffers[j].size > 0
          /\ s.spl_addr + 20 <= s.swap_buffers[j].buf1
          /\ s.swap_buffers[j].buf1 + s.swap_buffers[j].size <= Buf1End(s)
    BY <1>1, <2>1, SMT
  <2>4. Buf1End(s) <= s.spl_addr + s.sram_size
    BY <2>1, SMT
  <2> QED BY <1>1, <2>2, <2>3, <2>4, SMT DEF Sorted, RealSizes
<1>3. BackupsApart(s)
  BY <1>1, SMT DEF BackupsApart, Buf1End, OutOfTheWay, Apart
<1>4. ThunkApart(s)
  BY <1>1, SMT DEF ThunkApart, Buf1End, OutOfTheWay, Apart
<1>5. MmuTableApart(s)
  BY <1>1, SMT DEF MmuTableApart, TableApart, Apart, RealSizes
<1>6. ThunkLen(s) <= s.thunk_size
  BY <1>1, SMT DEF ThunkLen, RealSizes
<1>7. SplLimit(s) >= 32768
  <2>1. \A j \in Entries(s) :
          /\ s.swap_buffers[j].buf2 \in Nat
          /\ s.swap_buffers[j].buf2 >= s.spl_addr =>
                s.swap_buffers[j].buf2 - s.spl_addr >= 32768
    BY <1>1, SMT
  <2>2. /\ s.thunk_addr \in Nat /\ s.thunk_addr < \h1000000
        /\ s.spl_addr \in Nat /\ s.spl_addr < \h800000
        /\ s.thunk_addr >= s.spl_addr => s.thunk_addr - s.spl_addr >= 32768
        /\ s.sram_size \in Nat /\ s.sram_size >= 32768 /\ RealSizes
    BY SMT
  <2> QED BY ONLY <2>1, <2>2, LimitLarge, SMT
<1> QED BY <1>2, <1>3, <1>4, <1>5, <1>6, <1>7, SMT DEF Safe, WellFormed

LEMMA v831_layout ==
    ASSUME RealSizes, NEW s,
           Has(s, \h20000, \h21000, {\h2A200, \h3A200}, {0},
               v831_sram_swap_buffers)
    PROVE  Safe(s)
<1> USE DEF Has
<1>1. /\ Len(s.swap_buffers) = 1 /\ Entries(s) = {1}
      /\ s.swap_buffers # <<>>
      /\ s.swap_buffers[1].buf1 = \h21000 /\ s.swap_buffers[1].buf2 = \h38000
      /\ s.swap_buffers[1].size = \h1000
  BY SMT DEF Entries, Swap, v831_sram_swap_buffers
<1>2. Sorted(s)
  <2>1. Buf1End(s) = 139264
    BY <1>1, SMT DEF Buf1End
  <2>2. \A j, k \in {1} : j < k =>
          s.swap_buffers[j].buf1 + s.swap_buffers[j].size <= s.swap_buffers[k].buf1
    BY <1>1, SMT
  <2>3. \A j \in {1} :
          /\ s.swap_buffers[j].size > 0
          /\ s.spl_addr + 20 <= s.swap_buffers[j].buf1
          /\ s.swap_buffers[j].buf1 + s.swap_buffers[j].size <= Buf1End(s)
    BY <1>1, <2>1, SMT
  <2>4. Buf1End(s) <= s.spl_addr + s.sram_size
    BY <2>1, SMT
  <2> QED BY <1>1, <2>2, <2>3, <2>4, SMT DEF Sorted, RealSizes
<1>3. BackupsApart(s)
  BY <1>1, SMT DEF BackupsApart, Buf1End, OutOfTheWay, Apart
<1>4. ThunkApart(s)
  BY <1>1, SMT DEF ThunkApart, Buf1End, OutOfTheWay, Apart
<1>5. MmuTableApart(s)
  BY <1>1, SMT DEF MmuTableApart, TableApart, Apart, RealSizes
<1>6. ThunkLen(s) <= s.thunk_size
  BY <1>1, SMT DEF ThunkLen, RealSizes
<1>7. SplLimit(s) >= 32768
  <2>1. \A j \in Entries(s) :
          /\ s.swap_buffers[j].buf2 \in Nat
          /\ s.swap_buffers[j].buf2 >= s.spl_addr =>
                s.swap_buffers[j].buf2 - s.spl_addr >= 32768
    BY <1>1, SMT
  <2>2. /\ s.thunk_addr \in Nat /\ s.thunk_addr < \h1000000
        /\ s.spl_addr \in Nat /\ s.spl_addr < \h800000
        /\ s.thunk_addr >= s.spl_addr => s.thunk_addr - s.spl_addr >= 32768
        /\ s.sram_size \in Nat /\ s.sram_size >= 32768 /\ RealSizes
    BY SMT
  <2> QED BY ONLY <2>1, <2>2, LimitLarge, SMT
<1> QED BY <1>2, <1>3, <1>4, <1>5, <1>6, <1>7, SMT DEF Safe, WellFormed

LEMMA h616_layout ==
    ASSUME RealSizes, NEW s,
           Has(s, \h20000, \h21000, {\h53A00}, {0},
               h616_sram_swap_buffers)
    PROVE  Safe(s)
<1> USE DEF Has
<1>1. /\ Len(s.swap_buffers) = 1 /\ Entries(s) = {1}
      /\ s.swap_buffers # <<>>
      /\ s.swap_buffers[1].buf1 = \h21000 /\ s.swap_buffers[1].buf2 = \h52A00
      /\ s.swap_buffers[1].size = \h1000
  BY SMT DEF Entries, Swap, h616_sram_swap_buffers
<1>2. Sorted(s)
  <2>1. Buf1End(s) = 139264
    BY <1>1, SMT DEF Buf1End
  <2>2. \A j, k \in {1} : j < k =>
          s.swap_buffers[j].buf1 + s.swap_buffers[j].size <= s.swap_buffers[k].buf1
    BY <1>1, SMT
  <2>3. \A j \in {1} :
          /\ s.swap_buffers[j].size > 0
          /\ s.spl_addr + 20 <= s.swap_buffers[j].buf1
          /\ s.swap_buffers[j].buf1 + s.swap_buffers[j].size <= Buf1End(s)
    BY <1>1, <2>1, SMT
  <2>4. Buf1End(s) <= s.spl_addr + s.sram_size
    BY <2>1, SMT
  <2> QED BY <1>1, <2>2, <2>3, <2>4, SMT DEF Sorted, RealSizes
<1>3. BackupsApart(s)
  BY <1>1, SMT DEF BackupsApart, Buf1End, OutOfTheWay, Apart
<1>4. ThunkApart(s)
  BY <1>1, SMT DEF ThunkApart, Buf1End, OutOfTheWay, Apart
<1>5. MmuTableApart(s)
  BY <1>1, SMT DEF MmuTableApart, TableApart, Apart, RealSizes
<1>6. ThunkLen(s) <= s.thunk_size
  BY <1>1, SMT DEF ThunkLen, RealSizes
<1>7. SplLimit(s) >= 32768
  <2>1. \A j \in Entries(s) :
          /\ s.swap_buffers[j].buf2 \in Nat
          /\ s.swap_buffers[j].buf2 >= s.spl_addr =>
                s.swap_buffers[j].buf2 - s.spl_addr >= 32768
    BY <1>1, SMT
  <2>2. /\ s.thunk_addr \in Nat /\ s.thunk_addr < \h1000000
        /\ s.spl_addr \in Nat /\ s.spl_addr < \h800000
        /\ s.thunk_addr >= s.spl_addr => s.thunk_addr - s.spl_addr >= 32768
        /\ s.sram_size \in Nat /\ s.sram_size >= 32768 /\ RealSizes
    BY SMT
  <2> QED BY ONLY <2>1, <2>2, LimitLarge, SMT
<1> QED BY <1>2, <1>3, <1>4, <1>5, <1>6, <1>7, SMT DEF Safe, WellFormed

LEMMA a133_layout ==
    ASSUME RealSizes, NEW s,
           Has(s, \h20000, \h21000, {\h40400}, {0},
               a133_sram_swap_buffers)
    PROVE  Safe(s)
<1> USE DEF Has
<1>1. /\ Len(s.swap_buffers) = 1 /\ Entries(s) = {1}
      /\ s.swap_buffers # <<>>
      /\ s.swap_buffers[1].buf1 = \h21000 /\ s.swap_buffers[1].buf2 = \h40000
      /\ s.swap_buffers[1].size = \h400
  BY SMT DEF Entries, Swap, a133_sram_swap_buffers
<1>2. Sorted(s)
  <2>1. Buf1End(s) = 136192
    BY <1>1, SMT DEF Buf1End
  <2>2. \A j, k \in {1} : j < k =>
          s.swap_buffers[j].buf1 + s.swap_buffers[j].size <= s.swap_buffers[k].buf1
    BY <1>1, SMT
  <2>3. \A j \in {1} :
          /\ s.swap_buffers[j].size > 0
          /\ s.spl_addr + 20 <= s.swap_buffers[j].buf1
          /\ s.swap_buffers[j].buf1 + s.swap_buffers[j].size <= Buf1End(s)
    BY <1>1, <2>1, SMT
  <2>4. Buf1End(s) <= s.spl_addr + s.sram_size
    BY <2>1, SMT
  <2> QED BY <1>1, <2>2, <2>3, <2>4, SMT DEF Sorted, RealSizes
<1>3. BackupsApart(s)
  BY <1>1, SMT DEF BackupsApart, Buf1End, OutOfTheWay, Apart
<1>4. ThunkApart(s)
  BY <1>1, SMT DEF ThunkApart, Buf1End, OutOfTheWay, Apart
<1>5. MmuTableApart(s)
  BY <1>1, SMT DEF MmuTableApart, TableApart, Apart, RealSizes
<1>6. ThunkLen(s) <= s.thunk_size
  BY <1>1, SMT DEF ThunkLen, RealSizes
<1>7. SplLimit(s) >= 32768
  <2>1. \A j \in Entries(s) :
          /\ s.swap_buffers[j].buf2 \in Nat
          /\ s.swap_buffers[j].buf2 >= s.spl_addr =>
                s.swap_buffers[j].buf2 - s.spl_addr >= 32768
    BY <1>1, SMT
  <2>2. /\ s.thunk_addr \in Nat /\ s.thunk_addr < \h1000000
        /\ s.spl_addr \in Nat /\ s.spl_addr < \h800000
        /\ s.thunk_addr >= s.spl_addr => s.thunk_addr - s.spl_addr >= 32768
        /\ s.sram_size \in Nat /\ s.sram_size >= 32768 /\ RealSizes
    BY SMT
  <2> QED BY ONLY <2>1, <2>2, LimitLarge, SMT
<1> QED BY <1>2, <1>3, <1>4, <1>5, <1>6, <1>7, SMT DEF Safe, WellFormed

LEMMA r329_layout ==
    ASSUME RealSizes, NEW s,
           Has(s, \h100000, \h101000, {\h13BA00}, {\h130000},
               r329_sram_swap_buffers)
    PROVE  Safe(s)
<1> USE DEF Has
<1>1. /\ Len(s.swap_buffers) = 1 /\ Entries(s) = {1}
      /\ s.swap_buffers # <<>>
      /\ s.swap_buffers[1].buf1 = \h101000 /\ s.swap_buffers[1].buf2 = \h13BC00
      /\ s.swap_buffers[1].size = \h400
  BY SMT DEF Entries, Swap, r329_sram_swap_buffers
<1>2. Sorted(s)
  <2>1. Buf1End(s) = 1053696
    BY <1>1, SMT DEF Buf1End
  <2>2. \A j, k \in {1} : j < k =>
          s.swap_buffers[j].buf1 + s.swap_buffers[j].size <= s.swap_buffers[k].buf1
    BY <1>1, SMT
  <2>3. \A j \in {1} :
          /\ s.swap_buffers[j].size > 0
          /\ s.spl_addr + 20 <= s.swap_buffers[j].buf1
          /\ s.swap_buffers[j].buf1 + s.swap_buffers[j].size <= Buf1End(s)
    BY <1>1, <2>1, SMT
  <2>4. Buf1End(s) <= s.spl_addr + s.sram_size
    BY <2>1, SMT
  <2> QED BY <1>1, <2>2, <2>3, <2>4, SMT DEF Sorted, RealSizes
<1>3. BackupsApart(s)
  BY <1>1, SMT DEF BackupsApart, Buf1End, OutOfTheWay, Apart
<1>4. ThunkApart(s)
  BY <1>1, SMT DEF ThunkApart, Buf1End, OutOfTheWay, Apart
<1>5. MmuTableApart(s)
  BY <1>1, SMT DEF MmuTableApart, TableApart, Apart, RealSizes
<1>6. ThunkLen(s) <= s.thunk_size
  BY <1>1, SMT DEF ThunkLen, RealSizes
<1>7. SplLimit(s) >= 32768
  <2>1. \A j \in Entries(s) :
          /\ s.swap_buffers[j].buf2 \in Nat
          /\ s.swap_buffers[j].buf2 >= s.spl_addr =>
                s.swap_buffers[j].buf2 - s.spl_addr >= 32768
    BY <1>1, SMT
  <2>2. /\ s.thunk_addr \in Nat /\ s.thunk_addr < \h1000000
        /\ s.spl_addr \in Nat /\ s.spl_addr < \h800000
        /\ s.thunk_addr >= s.spl_addr => s.thunk_addr - s.spl_addr >= 32768
        /\ s.sram_size \in Nat /\ s.sram_size >= 32768 /\ RealSizes
    BY SMT
  <2> QED BY ONLY <2>1, <2>2, LimitLarge, SMT
<1> QED BY <1>2, <1>3, <1>4, <1>5, <1>6, <1>7, SMT DEF Safe, WellFormed

LEMMA f1c100s_layout ==
    ASSUME RealSizes, NEW s,
           Has(s, 0, \h1000, {\hB400}, {0},
               f1c100s_sram_swap_buffers)
    PROVE  Safe(s)
<1> USE DEF Has
<1>1. /\ Len(s.swap_buffers) = 3 /\ Entries(s) = {1, 2, 3}
      /\ s.swap_buffers # <<>>
      /\ s.swap_buffers[1].buf1 = \h1C00 /\ s.swap_buffers[1].buf2 = \h9000
      /\ s.swap_buffers[1].size = \h400
      /\ s.swap_buffers[2].buf1 = \h5C00 /\ s.swap_buffers[2].buf2 = \h9400
      /\ s.swap_buffers[2].size = \h1400
      /\ s.swap_buffers[3].buf1 = \h7C00 /\ s.swap_buffers[3].buf2 = \hA800
      /\ s.swap_buffers[3].size = \h400
  BY SMT DEF Entries, Swap, f1c100s_sram_swap_buffers
<1>2. Sorted(s)
  <2>1. Buf1End(s) = 32768
    BY <1>1, SMT DEF Buf1End
  <2>2. \A j, k \in {1, 2, 3} : j < k =>
          s.swap_buffers[j].buf1 + s.swap_buffers[j].size <= s.swap_buffers[k].buf1
    BY <1>1, SMT
  <2>3. \A j \in {1, 2, 3} :
          /\ s.swap_buffers[j].size > 0
          /\ s.spl_addr + 20 <= s.swap_buffers[j].buf1
          /\ s.swap_buffers[j].buf1 + s.swap_buffers[j].size <= Buf1End(s)
    BY <1>1, <2>1, SMT
  <2>4. Buf1End(s) <= s.spl_addr + s.sram_size
    BY <2>1, SMT
  <2> QED BY <1>1, <2>2, <2>3, <2>4, SMT DEF Sorted, RealSizes
<1>3. BackupsApart(s)
  BY <1>1, SMT DEF BackupsApart, Buf1End, OutOfTheWay, Apart
<1>4. ThunkApart(s)
  BY <1>1, SMT DEF ThunkApart, Buf1End, OutOfTheWay, Apart
<1>5. MmuTableApart(s)
  BY <1>1, SMT DEF MmuTableApart, TableApart, Apart, RealSizes
<1>6. ThunkLen(s) <= s.thunk_size
  BY <1>1, SMT DEF ThunkLen, RealSizes
<1>7. SplLimit(s) >= 32768
  <2>1. \A j \in Entries(s) :
          /\ s.swap_buffers[j].buf2 \in Nat
          /\ s.swap_buffers[j].buf2 >= s.spl_addr =>
                s.swap_buffers[j].buf2 - s.spl_addr >= 32768
    BY <1>1, SMT
  <2>2. /\ s.thunk_addr \in Nat /\ s.thunk_addr < \h1000000
        /\ s.spl_addr \in Nat /\ s.spl_addr < \h800000
        /\ s.thunk_addr >= s.spl_addr => s.thunk_addr - s.spl_addr >= 32768
        /\ s.sram_size \in Nat /\ s.sram_size >= 32768 /\ RealSizes
    BY SMT
  <2> QED BY ONLY <2>1, <2>2, LimitLarge, SMT
<1> QED BY <1>2, <1>3, <1>4, <1>5, <1>6, <1>7, SMT DEF Safe, WellFormed

LEMMA a523_layout ==
    ASSUME RealSizes, NEW s,
           Has(s, \h44000, \h45000, {\h40000}, {0},
               a523_sram_swap_buffers)
    PROVE  Safe(s)
<1> USE DEF Has
<1>1. /\ Len(s.swap_buffers) = 1 /\ Entries(s) = {1}
      /\ s.swap_buffers # <<>>
      /\ s.swap_buffers[1].buf1 = \h45000 /\ s.swap_buffers[1].buf2 = \h40200
      /\ s.swap_buffers[1].size = \h400
  BY SMT DEF Entries, Swap, a523_sram_swap_buffers
<1>2. Sorted(s)
  <2>1. Buf1End(s) = 283648
    BY <1>1, SMT DEF Buf1End
  <2>2. \A j, k \in {1} : j < k =>
          s.swap_buffers[j].buf1 + s.swap_buffers[j].size <= s.swap_buffers[k].buf1
    BY <1>1, SMT
  <2>3. \A j \in {1} :
          /\ s.swap_buffers[j].size > 0
          /\ s.spl_addr + 20 <= s.swap_buffers[j].buf1
          /\ s.swap_buffers[j].buf1 + s.swap_buffers[j].size <= Buf1End(s)
    BY <1>1, <2>1, SMT
  <2>4. Buf1End(s) <= s.spl_addr + s.sram_size
    BY <2>1, SMT
  <2> QED BY <1>1, <2>2, <2>3, <2>4, SMT DEF Sorted, RealSizes
<1>3. BackupsApart(s)
  BY <1>1, SMT DEF BackupsApart, Buf1End, OutOfTheWay, Apart
<1>4. ThunkApart(s)
  BY <1>1, SMT DEF ThunkApart, Buf1End, OutOfTheWay, Apart
<1>5. MmuTableApart(s)
  BY <1>1, SMT DEF MmuTableApart, TableApart, Apart, RealSizes
<1>6. ThunkLen(s) <= s.thunk_size
  BY <1>1, SMT DEF ThunkLen, RealSizes
<1>7. SplLimit(s) >= 32768
  <2>1. \A j \in Entries(s) :
          /\ s.swap_buffers[j].buf2 \in Nat
          /\ s.swap_buffers[j].buf2 >= s.spl_addr =>
                s.swap_buffers[j].buf2 - s.spl_addr >= 32768
    BY <1>1, SMT
  <2>2. /\ s.thunk_addr \in Nat /\ s.thunk_addr < \h1000000
        /\ s.spl_addr \in Nat /\ s.spl_addr < \h800000
        /\ s.thunk_addr >= s.spl_addr => s.thunk_addr - s.spl_addr >= 32768
        /\ s.sram_size \in Nat /\ s.sram_size >= 32768 /\ RealSizes
    BY SMT
  <2> QED BY ONLY <2>1, <2>2, LimitLarge, SMT
<1> QED BY <1>2, <1>3, <1>4, <1>5, <1>6, <1>7, SMT DEF Safe, WellFormed

(***************************************************************************)
(* Every row of soc_info_table is a safe layout.                           *)
(***************************************************************************)
LEMMA TableSafe ==
    ASSUME RealSizes, NEW n \in 1..NumSocs
    PROVE  Safe(soc_info_table[n])
<1> DEFINE A == soc_info_table_to_T7
           B == soc_info_table_from_H5
<1>1. ASSUME NEW i \in 1..13 PROVE Safe(A[i])
  <2>1. CASE i \in {1, 2, 3, 11, 12}
    <3>1. Has(A[i], 0, \h1000, {\hA200}, {0, \h8000},
              a10_a13_a20_sram_swap_buffers)
      BY <2>1, SMT DEF Has, Soc, soc_info_table_to_T7
    <3> QED BY <3>1, a10_a13_a20_layout, SMT
  <2>2. CASE i \in {4, 6, 10}
    <3>1. Has(A[i], 0, \h1000, {\h46E00}, {0, \h44000},
              ar100_abusing_sram_swap_buffers)
      BY <2>2, SMT DEF Has, Soc, soc_info_table_to_T7
    <3> QED BY <3>1, ar100_abusing_layout, SMT
  <2>3. CASE i = 5
    <3>1. Has(A[i], 0, \h1000, {\h22E00}, {0},
              a31_sram_swap_buffers)
      BY <2>3, SMT DEF Has, Soc, soc_info_table_to_T7
    <3> QED BY <3>1, a31_layout, SMT
  <2>4. CASE i = 7
    <3>1. Has(A[i], \h10000, \h11000, {\h31200}, {0},
              a64_sram_swap_buffers)
      BY <2>4, SMT DEF Has, Soc, soc_info_table_to_T7
    <3> QED BY <3>1, a64_layout, SMT
  <2>5. CASE i = 8
    <3>1. Has(A[i], \h10000, \h11000, {\h23400}, {0},
              a80_sram_swap_buffers)
      BY <2>5, SMT DEF Has, Soc, soc_info_table_to_T7
    <3> QED BY <3>1, a80_layout, SMT
  <2>6. CASE i = 9
    <3>1. Has(A[i], 0, \h1000, {\hB400}, {0},
              f1c100s_sram_swap_buffers)
      BY <2>6, SMT DEF Has, Soc, soc_info_table_to_T7
    <3> QED BY <3>1, f1c100s_layout, SMT
  <2>7. CASE i = 13
    <3>1. Has(A[i], \h20000, \h21000, {\h4E200}, {0},
              t7_sram_swap_buffers)
      BY <2>7, SMT DEF Has, Soc, soc_info_table_to_T7
    <3> QED BY <3>1, t7_layout, SMT
  <2> QED BY <2>1, <2>2, <2>3, <2>4, <2>5, <2>6, <2>7, SMT
<1>2. ASSUME NEW i \in 1..13 PROVE Safe(B[i])
  <2>1. CASE i = 1
    <3>1. Has(B[i], \h10000, \h11000, {\h31200}, {0},
              a64_sram_swap_buffers)
      BY <2>1, SMT DEF Has, Soc, soc_info_table_from_H5
    <3> QED BY <3>1, a64_layout, SMT
  <2>2. CASE i = 2
    <3>1. Has(B[i], 0, \h1000, {\hA200}, {0, \h8000},
              a10_a13_a20_sram_swap_buffers)
      BY <2>2, SMT DEF Has, Soc, soc_info_table_from_H5
    <3> QED BY <3>1, a10_a13_a20_layout, SMT
  <2>3. CASE i \in {3, 4, 11}
    <3>1. Has(B[i], \h20000, \h21000, {\h42200}, {0},
              h6_sram_swap_buffers)
      BY <2>3, SMT DEF Has, Soc, soc_info_table_from_H5
    <3> QED BY <3>1, h6_layout, SMT
  <2>4. CASE i \in {5, 6, 9, 10}
    <3>1. Has(B[i], \h20000, \h21000, {\h2A200, \h3A200}, {0},
              v831_sram_swap_buffers)
      BY <2>4, SMT DEF Has, Soc, soc_info_table_from_H5
    <3> QED BY <3>1, v831_layout, SMT
  <2>5. CASE i = 7
    <3>1. Has(B[i], \h20000, \h21000, {\h53A00}, {0},
              h616_sram_swap_buffers)
      BY <2>5, SMT DEF Has, Soc, soc_info_table_from_H5
    <3> QED BY <3>1, h616_layout, SMT
  <2>6. CASE i = 8
    <3>1. Has(B[i], \h100000, \h101000, {\h13BA00}, {\h130000},
              r329_sram_swap_buffers)
      BY <2>6, SMT DEF Has, Soc, soc_info_table_from_H5
    <3> QED BY <3>1, r329_layout, SMT
  <2>7. CASE i = 12
    <3>1. Has(B[i], \h44000, \h45000, {\h40000}, {0},
              a523_sram_swap_buffers)
      BY <2>7, SMT DEF Has, Soc, soc_info_table_from_H5
    <3> QED BY <3>1, a523_layout, SMT
  <2>8. CASE i = 13
    <3>1. Has(B[i], \h20000, \h21000, {\h40400}, {0},
              a133_sram_swap_buffers)
      BY <2>8, SMT DEF Has, Soc, soc_info_table_from_H5
    <3> QED BY <3>1, a133_layout, SMT
  <2> QED BY <2>1, <2>2, <2>3, <2>4, <2>5, <2>6, <2>7, <2>8, SMT
<1>3. A \in Seq({A[i] : i \in 1..13}) /\ Len(A) = 13
  BY SMT DEF soc_info_table_to_T7
<1>4. B \in Seq({B[i] : i \in 1..13}) /\ Len(B) = 13
  BY SMT DEF soc_info_table_from_H5
<1> DEFINE S == {A[i] : i \in 1..13} \cup {B[i] : i \in 1..13}
<1>5. A \in Seq(S) /\ B \in Seq(S)
  BY <1>3, <1>4
<1> HIDE DEF A, B, S
<1>6. /\ Len(A \o B) = Len(A) + Len(B)
      /\ \A k \in 1..(Len(A) + Len(B)) :
            (A \o B)[k] = IF k <= Len(A) THEN A[k] ELSE B[k - Len(A)]
  BY <1>5, ConcatProperties
<1>7. \A k \in 1..Len(A \o B) : Safe((A \o B)[k])
  <2> SUFFICES ASSUME NEW k \in 1..Len(A \o B) PROVE Safe((A \o B)[k])
    OBVIOUS
  <2>1. k \in 1..(Len(A) + Len(B)) /\ k \in 1..26
    BY <1>3, <1>4, <1>6
  <2>2. CASE k <= Len(A)
    <3>1. k \in 1..13 /\ (A \o B)[k] = A[k]
      BY <1>3, <1>6, <2>1, <2>2
    <3> QED BY <1>1, <3>1
  <2>3. CASE ~(k <= Len(A))
    <3>1. k - Len(A) \in 1..13 /\ (A \o B)[k] = B[k - Len(A)]
      BY <1>3, <1>6, <2>1, <2>3
    <3> QED BY <1>2, <3>1
  <2> QED BY <2>2, <2>3
<1> QED BY <1>7 DEF NumSocs, soc_info_table, A, B

LEMMA GenericThunkFits ==
    ASSUME RealSizes
    PROVE  ThunkLen(generic_soc_info) <= generic_soc_info.thunk_size
<1>1. Len(generic_sram_swap_buffers) = 1
  BY DEF generic_sram_swap_buffers
<1>2. /\ generic_soc_info.swap_buffers = generic_sram_swap_buffers
      /\ generic_soc_info.thunk_size = \h180
  BY DEF generic_soc_info, Soc
<1> DEFINE s == generic_soc_info
<1>3. Len(s.swap_buffers) = 1 /\ s.thunk_size = \h180
  BY <1>1, <1>2
<1> HIDE DEF s
<1>4. ThunkLen(s) <= s.thunk_size
  BY <1>3, SMT DEF ThunkLen, RealSizes
<1> QED BY <1>4 DEF s

LEMMA GenericTakesNone ==
    ASSUME RealSizes
    PROVE  SplLimit(generic_soc_info) = 0
<1> DEFINE s == generic_soc_info
           S == {s.sram_size, Minus(s.thunk_addr, s.spl_addr)}
                  \cup {s.swap_buffers[j].buf2 - s.spl_addr :
                           j \in {k \in Entries(s) :
                                     s.swap_buffers[k].buf2 >= s.spl_addr}}
<1>1. /\ s.sram_size = 0 /\ s.thunk_addr = \h5680 /\ s.spl_addr = 0
      /\ s.swap_buffers = generic_sram_swap_buffers
  BY DEF generic_soc_info, Soc
<1>2. \A j \in Entries(s) : s.swap_buffers[j].buf2 \in Nat
  BY <1>1 DEF Entries, generic_sram_swap_buffers, Swap
<1> HIDE DEF s
<1>3. Minus(s.thunk_addr, s.spl_addr) \in Nat
  <2>1. /\ s.thunk_addr \in Nat /\ s.spl_addr \in Nat
        /\ s.thunk_addr < \h1000000 /\ s.spl_addr < \h1000000
        /\ s.thunk_addr >= s.spl_addr
    BY <1>1, SMT
  <2> QED BY <2>1, MinusIs, SMT
<1>4. \A x \in S : x \in Nat
  BY <1>1, <1>2, <1>3, SMT
<1>5. 0 \in S
  BY <1>1
<1> HIDE DEF S
<1>6. Min(S) \in S /\ \A x \in S : Min(S) <= x
  BY <1>4, <1>5, Least
<1>7. Min(S) = 0
  BY <1>4, <1>5, <1>6, SMT
<1> QED BY <1>7, SMT DEF SplLimit, S, s

(***************************************************************************)
(* With the sizes of the code, whatever ID the boot ROM reports: the       *)
(* layout that get_soc_info_from_id() returns is well-formed, so that the  *)
(* theorems of FelSpl_proofs apply to it, it takes an SPL of 32 KiB, and   *)
(* the thunk fits its place.  For a SoC that is not in the table the thunk *)
(* fits as well, but no SPL does.                                          *)
(***************************************************************************)
THEOREM LayoutsAreSafe ==
    ASSUME RealSizes
    PROVE  Spec => []LayoutSafe
<1>1. IInv => LayoutSafe
  <2> SUFFICES ASSUME IInv, op = "open" PROVE LayoutSafe
    BY DEF LayoutSafe
  <2>1. result = 0 \/ result \in 1..NumSocs
    BY DEF IInv, IsFirst
  <2>2. CASE result = 0
    BY <2>2, GenericThunkFits, GenericTakesNone DEF LayoutSafe, Info
  <2>3. CASE result \in 1..NumSocs
    <3>1. result # 0
      BY <2>3, TableLen
    <3>2. Safe(soc_info_table[result])
      BY <2>3, TableSafe
    <3> QED BY <3>1, <3>2 DEF LayoutSafe, Info, Safe
  <2> QED BY <2>1, <2>2, <2>3
<1> QED BY <1>1, Invariance, PTL
=============================================================================
