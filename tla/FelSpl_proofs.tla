--------------------------- MODULE FelSpl_proofs ---------------------------
(***************************************************************************)
(* Proofs for FelSpl: its invariants hold for every set of well-formed     *)
(* layouts, images of any size and any sequence of calls.                  *)
(***************************************************************************)
EXTENDS FelSpl, TLAPS

-----------------------------------------------------------------------------
(* The inductive invariant.                                                *)

\* BROM buffer j and its backup have changed places.
Swapped(j) ==
    CASE pc = "swapin" -> j < i
      [] pc \in {"checksum", "spl"} -> TRUE
      [] pc = "swapout" -> j >= i
      [] OTHER -> FALSE

\* The boot ROM's data is in the BROM buffer or in its backup.
BromKept ==
    \A j \in 1..N : \A x \in Buf1(soc, j) :
        x \notin Scratch(soc) =>
            sram[IF Swapped(j) THEN Swap[j].buf2 + (x - Swap[j].buf1) ELSE x] = Old(x)

Uploading == {"gap", "swapped", "rest", "fit", "thunk"}
Uploaded == {"fit", "thunk", "caches", "swapin", "checksum"}
Accepted == {"rest", "fit", "thunk", "caches", "swapin", "checksum", "spl", "swapout"}

\* How far the upload has come.
Position ==
    /\ pc \in {"idle", "done", "fatal", "setup", "sctlr", "mmuregs", "disable", "newtable"} =>
          off = 0 /\ i = 1
    /\ pc = "gap" /\ off < spl_len =>
          /\ i = 1 => off = 0
          /\ i > 1 => CurAddr = Swap[i - 1].buf1 + Swap[i - 1].size
    /\ pc = "swapped" => i <= N /\ (off < spl_len => CurAddr = Swap[i].buf1)
    /\ pc = "rest" =>
          /\ i = N + 1
          /\ off < spl_len => /\ i = 1 => off = 0
                              /\ i > 1 => CurAddr = Swap[i - 1].buf1 + Swap[i - 1].size
    /\ pc \in Uploaded => off = spl_len
    /\ pc = "spl" => i = 1

\* The words uploaded so far are in place, or where the swap will bring them
\* from.
WordsKept ==
    pc \in Uploading \cup Uploaded =>
        /\ SplAddr + off <= MaxAddr + 1
        /\ \A k \in 0..(off - 1) :
              /\ (\A j \in 1..N : SplAddr + k \notin Buf1(soc, j)) => sram[SplAddr + k] = SplWord(k)
              /\ \A j \in 1..N : SplAddr + k \in Buf1(soc, j) =>
                    sram[IF Swapped(j) THEN SplAddr + k
                         ELSE Swap[j].buf2 + ((SplAddr + k) - Swap[j].buf1)] = SplWord(k)

\* The limit takes account of all backups met so far; an SPL that is loaded
\* to the end has room.
LimitKept ==
    /\ pc \in {"gap", "swapped"} =>
          /\ limit <= soc.sram_size
          /\ \A j \in 1..N :
                (j < i \/ (j = i /\ pc = "swapped")) /\ Swap[j].buf2 >= SplAddr =>
                    limit <= Swap[j].buf2 - SplAddr
    /\ pc \in Accepted =>
          /\ spl_len <= soc.sram_size
          /\ \A j \in 1..N : Swap[j].buf2 >= SplAddr => spl_len <= Swap[j].buf2 - SplAddr
          /\ soc.thunk_addr >= SplAddr => spl_len <= soc.thunk_addr - SplAddr

ThunkKept ==
    /\ pc \in {"thunk"} \cup ThunkSteps => ThunkLen(soc) <= soc.thunk_size
    /\ ThunkIntact

\* The signature in the header agrees with what has happened.
SigKept ==
    /\ pc = "spl" \/ (pc = "swapout" /\ ran) => sram[SplAddr + SigWord] = Sig("FEL")
    /\ pc = "swapout" /\ ~ran => sram[SplAddr + SigWord] = Sig("BAD") /\ spl_len <= LenWord
    /\ pc = "result" /\ sram[SplAddr + SigWord] = Sig("FEL") => ran
    /\ pc \in Uploading \cup {"setup", "sctlr", "mmuregs", "disable", "newtable",
                              "caches", "swapin", "checksum", "spl"} => ~ran

\* The I-cache is only on with the MMU, unless the boot ROM left it on and
\* nothing has turned it off.
CacheKept ==
    /\ icache /\ mmu = "off" => booted
    /\ soc.icache_fix /\ pc \notin {"idle", "done", "fatal", "setup"} => hacked
    /\ soc.icache_fix /\ hacked /\ mmu = "off" => ~icache

\* The MMU is off from the upload on.
MmuKept ==
    /\ pc \in Uploading \cup ThunkSteps \cup {"newtable", "result", "table", "enable"} => mmu = "off"
    /\ pc \in {"mmuregs", "disable"} => mmu # "off"
    /\ TableApart(soc, ttbr0)
    /\ pc = "enable" => \A k \in 0..(TtSize - 1) : sram[ttbr0 + k] = TtWord(k)
    /\ tt \/ pc \in {"table", "enable"} => odd \in {"none", "sctlr"}
    /\ pc \in {"table", "enable"} => tt

Inv ==
    /\ TypeOK
    /\ BromKept
    /\ Position
    /\ WordsKept
    /\ LimitKept
    /\ ThunkKept
    /\ SigKept
    /\ CacheKept
    /\ MmuKept
    /\ SplComplete
    /\ MmuSafe
    /\ NoFalseSuccess
    /\ VerdictJustified

-----------------------------------------------------------------------------
(* What the proofs use of a well-formed layout.                            *)

Facts ==
    /\ N \in Nat /\ Entries(soc) = 1..N
    /\ MaxAddr \in Nat /\ TtSize \in Nat \ {0}
    /\ HeaderSize \in Nat /\ SigWord \in Nat /\ LenWord \in Nat
    /\ SigWord < LenWord /\ LenWord < HeaderSize
    /\ SplAddr \in Nat /\ soc.sram_size \in Nat
    /\ soc.scratch_addr \in Nat /\ ScratchSize \in Nat
    /\ soc.thunk_addr \in Nat /\ soc.thunk_size \in Nat /\ ThunkLen(soc) \in Nat
    /\ soc.thunk_addr + soc.thunk_size <= MaxAddr + 1
    /\ soc.thunk_addr >= SplAddr =>
          Minus(soc.thunk_addr, SplAddr) = soc.thunk_addr - SplAddr
    /\ Buf1End(soc) \in Nat
    /\ SplAddr + HeaderSize <= MaxAddr
    /\ SplAddr + HeaderSize <= Buf1End(soc)
    /\ N > 0 => Buf1End(soc) = Swap[N].buf1 + Swap[N].size
    /\ Buf1End(soc) <= SplAddr + soc.sram_size
    /\ SplAddr + soc.sram_size <= MaxAddr + 1
    /\ soc.thunk_addr + soc.thunk_size <= SplAddr \/ Buf1End(soc) <= soc.thunk_addr
    /\ \A j \in 1..N :
          /\ Swap[j].buf1 \in Nat /\ Swap[j].buf2 \in Nat
          /\ Swap[j].size \in Nat /\ Swap[j].size > 0
          /\ SplAddr + HeaderSize <= Swap[j].buf1
          /\ Swap[j].buf1 + Swap[j].size <= Buf1End(soc)
          /\ Swap[j].buf2 + Swap[j].size <= MaxAddr + 1
          /\ Swap[j].buf2 + Swap[j].size <= SplAddr \/ Buf1End(soc) <= Swap[j].buf2
          /\ \/ soc.thunk_addr + soc.thunk_size <= Swap[j].buf2
             \/ Swap[j].buf2 + Swap[j].size <= soc.thunk_addr
    /\ \A j, k \in 1..N : j < k => Swap[j].buf1 + Swap[j].size <= Swap[k].buf1
    /\ \A j, k \in 1..N : j # k =>
          \/ Swap[j].buf2 + Swap[j].size <= Swap[k].buf2
          \/ Swap[k].buf2 + Swap[k].size <= Swap[j].buf2

LEMMA ModSmall == \A x, m \in Nat : x < m => x % m = x
  BY Z3

LEMMA ElementOf == ASSUME NEW S, NEW q \in Seq(S), NEW j \in 1..Len(q) PROVE q[j] \in S
  OBVIOUS

LEMMA SumNat == \A x, y, z \in Nat : x + y + z \in Nat
  OBVIOUS

LEMMA LayoutFacts == soc \in Socs => Facts
<1> SUFFICES ASSUME soc \in Socs PROVE Facts
  OBVIOUS
<1>1. WellFormed(soc) /\ InMemory(soc)
  BY SocsAssumption
<1>2. /\ N \in Nat /\ Entries(soc) = 1..N
      /\ \A j \in 1..N : Swap[j] \in [buf1 : Addr, buf2 : Addr, size : Nat]
  <2>1. soc.swap_buffers \in Seq([buf1 : Addr, buf2 : Addr, size : Nat])
    BY <1>1 DEF InMemory
  <2>2. N \in Nat /\ Entries(soc) = 1..N
    BY <2>1 DEF N, Entries
  <2>3. \A j \in 1..N : Swap[j] \in [buf1 : Addr, buf2 : Addr, size : Nat]
    BY <2>1, ElementOf DEF N, Swap
  <2> QED
    BY <2>2, <2>3
<1>3. /\ MaxAddr \in Nat /\ TtSize \in Nat \ {0}
      /\ HeaderSize \in Nat /\ SigWord \in Nat /\ LenWord \in Nat
      /\ SigWord < LenWord /\ LenWord < HeaderSize
      /\ ScratchSize \in Nat
  BY HeaderAssumption, LayoutSizes
<1>4. /\ SplAddr \in Nat /\ soc.sram_size \in Nat
      /\ soc.scratch_addr \in Nat
      /\ soc.thunk_addr \in Nat /\ soc.thunk_size \in Nat
      /\ soc.thunk_addr + soc.thunk_size <= MaxAddr + 1
      /\ SplAddr + HeaderSize <= MaxAddr
      /\ SplAddr + soc.sram_size <= MaxAddr + 1
  <2>1. /\ SplAddr \in Addr /\ soc.scratch_addr \in Addr /\ soc.thunk_addr \in Addr
        /\ soc.sram_size \in Nat /\ soc.thunk_size \in Nat
        /\ soc.thunk_addr + soc.thunk_size <= MaxAddr + 1
        /\ SplAddr + HeaderSize <= MaxAddr
        /\ SplAddr + soc.sram_size <= MaxAddr + 1
    BY <1>1, Zenon DEF InMemory, SplAddr
  <2>2. Addr \subseteq Nat
    BY <1>3 DEF Addr
  <2> QED
    BY <2>1, <2>2, Zenon
<1>4a. \A j \in 1..N : Swap[j].buf2 + Swap[j].size <= MaxAddr + 1
  BY <1>1, <1>2 DEF InMemory, Swap
<1>5. ThunkLen(soc) \in Nat
  <2>1. N + 1 \in Nat /\ EntrySize \in Nat /\ ThunkCode \in Nat /\ PointerSize \in Nat
    BY <1>2, LayoutSizes
  <2>2. \A x, y \in Nat : x * y \in Nat
    OBVIOUS
  <2>3. (N + 1) * EntrySize \in Nat
    BY <2>1, <2>2
  <2> QED
    BY <2>1, <2>3, SumNat, Zenon DEF ThunkLen, N
<1>6. soc.thunk_addr >= SplAddr => Minus(soc.thunk_addr, SplAddr) = soc.thunk_addr - SplAddr
  <2>1. soc.thunk_addr >= SplAddr =>
           soc.thunk_addr - SplAddr \in Nat /\ soc.thunk_addr - SplAddr < AddrMod
    BY <1>1, <1>4 DEF InMemory, SplAddr
  <2> QED
    BY <2>1, ModSmall, LayoutSizes, Zenon DEF Minus
<1>7. \A j \in 1..N : /\ Swap[j].buf1 \in Nat /\ Swap[j].buf2 \in Nat
                      /\ Swap[j].size \in Nat /\ Swap[j].size > 0
                      /\ SplAddr + HeaderSize <= Swap[j].buf1
                      /\ Swap[j].buf1 + Swap[j].size <= Buf1End(soc)
  <2>1. \A j \in 1..N : Swap[j].buf1 \in Nat /\ Swap[j].buf2 \in Nat /\ Swap[j].size \in Nat
    BY <1>2, <1>3 DEF Addr
  <2>2. \A j \in 1..N : /\ Swap[j].size > 0
                        /\ SplAddr + HeaderSize <= Swap[j].buf1
                        /\ Swap[j].buf1 + Swap[j].size <= Buf1End(soc)
    BY <1>1, <1>2 DEF WellFormed, Sorted, Swap, SplAddr
  <2> QED
    BY <2>1, <2>2
<1>8. /\ Buf1End(soc) \in Nat
      /\ SplAddr + HeaderSize <= Buf1End(soc)
      /\ N > 0 => Buf1End(soc) = Swap[N].buf1 + Swap[N].size
  <2>1. CASE soc.swap_buffers = <<>>
    BY <2>1, <1>2, <1>3, <1>4 DEF Buf1End, N, SplAddr
  <2>2. CASE soc.swap_buffers # <<>>
    <3>1. N > 0
      BY <2>2, <1>1, <1>2 DEF N, InMemory
    <3>2. Buf1End(soc) = Swap[N].buf1 + Swap[N].size
      BY <2>2 DEF Buf1End, N, Swap
    <3>3. /\ Swap[N].buf1 \in Nat /\ Swap[N].size \in Nat
          /\ SplAddr + HeaderSize <= Swap[N].buf1
      BY <3>1, <1>2, <1>7
    <3> QED
      BY <3>2, <3>3, <1>3, <1>4
  <2> QED
    BY <2>1, <2>2
<1>9. Buf1End(soc) <= SplAddr + soc.sram_size
  BY <1>1 DEF WellFormed, Sorted, SplAddr
<1>10. soc.thunk_addr + soc.thunk_size <= SplAddr \/ Buf1End(soc) <= soc.thunk_addr
  BY <1>1 DEF WellFormed, ThunkApart, OutOfTheWay, SplAddr
<1>11. \A j \in 1..N :
          /\ Swap[j].buf2 + Swap[j].size <= SplAddr \/ Buf1End(soc) <= Swap[j].buf2
          /\ \/ soc.thunk_addr + soc.thunk_size <= Swap[j].buf2
             \/ Swap[j].buf2 + Swap[j].size <= soc.thunk_addr
  BY <1>1, <1>2 DEF WellFormed, ThunkApart, BackupsApart, OutOfTheWay, Apart, SplAddr, Swap
<1>12. \A j, k \in 1..N : j < k => Swap[j].buf1 + Swap[j].size <= Swap[k].buf1
  BY <1>1, <1>2 DEF WellFormed, Sorted, Swap
<1>13. \A j, k \in 1..N : j # k =>
          \/ Swap[j].buf2 + Swap[j].size <= Swap[k].buf2
          \/ Swap[k].buf2 + Swap[k].size <= Swap[j].buf2
  BY <1>1, <1>2 DEF WellFormed, BackupsApart, Apart, Swap
<1> QED
  BY <1>2, <1>3, <1>4, <1>4a, <1>5, <1>6, <1>7, <1>8, <1>9, <1>10, <1>11, <1>12, <1>13 DEF Facts

-----------------------------------------------------------------------------
(* Type correctness.                                                       *)

LEMMA SmallFacts ==
  ASSUME soc \in Socs
  PROVE  /\ N \in Nat /\ SplAddr \in Nat /\ CurAddr = SplAddr + off
         /\ soc' = soc => N' = N /\ Swap' = Swap /\ SplAddr' = SplAddr
         /\ \A j \in 1..N : Swap[j].buf1 \in Nat /\ Swap[j].buf2 \in Nat /\ Swap[j].size \in Nat
         /\ soc.sram_size \in Nat
         /\ MaxAddr \in Nat /\ MaxFile \in Nat
<1>1. /\ N \in Nat /\ SplAddr \in Nat /\ soc.sram_size \in Nat
      /\ \A j \in 1..N : Swap[j].buf1 \in Nat /\ Swap[j].buf2 \in Nat /\ Swap[j].size \in Nat
  BY LayoutFacts, Zenon DEF Facts
<1>2. CurAddr = SplAddr + off
  BY DEF CurAddr, SplAddr
<1>3. soc' = soc => N' = N /\ Swap' = Swap /\ SplAddr' = SplAddr
  BY DEF N, Swap, SplAddr
<1> QED
  BY <1>1, <1>2, <1>3, HeaderAssumption, Zenon

LEMMA TypeInit == Init => TypeOK
<1> SUFFICES ASSUME Init PROVE TypeOK
  OBVIOUS
<1>1. Facts
  BY LayoutFacts DEF Init
<1>2. sram \in [Addr -> Words]
  <2>1. \A a \in Addr : Old(a) \in Words
    BY <1>1 DEF Facts, Addr, Old, Words
  <2>2. \A a \in Table : ToTable(a) \in Words
    <3>1. ttbr0 \in Nat /\ TtSize \in Nat
      BY <1>1 DEF Init, Facts, Addr
    <3>2. \A a \in Table : a - ttbr0 \in Nat
      BY <3>1 DEF Table, Region
    <3> QED
      BY <3>2 DEF ToTable, TtWord, Words
  <2>3. sram = [a \in Addr |-> IF mmu = "brom" /\ a \in Table THEN ToTable(a) ELSE Old(a)]
    BY DEF Init
  <2> QED
    BY <2>1, <2>2, <2>3
<1>3. i \in 1..(N + 1)
  BY SmallFacts DEF Init
<1>4. booted \in BOOLEAN /\ icache \in BOOLEAN /\ hacked \in BOOLEAN /\ alive \in BOOLEAN
      /\ tt \in BOOLEAN /\ ran \in BOOLEAN
  BY Zenon DEF Init
<1>5. spl_len \in 0..MaxFile /\ off \in 0..spl_len /\ limit \in Nat
  BY SmallFacts DEF Init
<1> QED
  BY <1>2, <1>3, <1>4, <1>5 DEF Init, TypeOK, HostSteps

LEMMA RunScratchType ==
  ASSUME TypeOK, RunScratch PROVE sram' \in [Addr -> Words] /\ hacked' \in BOOLEAN
  BY DEF TypeOK, RunScratch, Write, ToJunk, Junk, Words, ICacheFix

LEMMA SendType ==
  ASSUME TypeOK, NEW to \in Int, NEW n \in Nat, n <= spl_len - off, Send(to, n)
  PROVE  sram' \in [Addr -> Words] /\ hacked' \in BOOLEAN /\ off' \in 0..spl_len
<1>0. off \in Nat /\ spl_len \in Nat
  BY HeaderAssumption DEF TypeOK
<1>1. \A a \in Region(to, n) : SplWord(off + (a - to)) \in Words
  BY <1>0 DEF Region, SplWord, Words
<1>2. sram' \in [Addr -> Words]
  BY <1>1 DEF TypeOK, Send
<1>3. hacked' \in BOOLEAN
  BY DEF TypeOK, Send, ICacheFix
<1>4. off' \in 0..spl_len
  BY <1>0 DEF TypeOK, Send
<1> QED
  BY <1>2, <1>3, <1>4

\* The tool's local variables when a call has ended.
LEMMA ResetType ==
  ASSUME TypeOK, Reset, soc' = soc
  PROVE  /\ spl_len' \in 0..MaxFile /\ off' \in 0..spl_len' /\ limit' \in Nat
         /\ tt' \in BOOLEAN /\ i' \in 1..(N' + 1)
<1>1. tt' \in BOOLEAN
  BY DEF Reset
<1> QED
  BY <1>1, SmallFacts DEF TypeOK, Reset

LEMMA MinusNat == \A x, y \in Nat : Minus(x, y) \in Nat
<1> TAKE x, y \in Nat
<1>1. AddrMod \in Nat \ {0} => (x - y) % AddrMod \in Nat
  BY Z3
<1> QED
  BY <1>1, LayoutSizes DEF Minus

LEMMA SwapType ==
  ASSUME TypeOK, i <= N, SwapBuffer PROVE sram' \in [Addr -> Words]
<1>a. i \in 1..N
  BY SmallFacts DEF TypeOK
<1>b. Facts
  BY LayoutFacts DEF TypeOK
<1>c. /\ MaxAddr \in Nat /\ SplAddr \in Nat /\ soc.sram_size \in Nat /\ Buf1End(soc) \in Nat
      /\ Buf1End(soc) <= SplAddr + soc.sram_size
      /\ SplAddr + soc.sram_size <= MaxAddr + 1
  BY <1>b DEF Facts
<1>d. /\ Swap[i].buf1 \in Nat /\ Swap[i].buf2 \in Nat /\ Swap[i].size \in Nat
      /\ Swap[i].buf1 + Swap[i].size <= Buf1End(soc)
      /\ Swap[i].buf2 + Swap[i].size <= MaxAddr + 1
  BY <1>a, <1>b, Zenon DEF Facts
<1>0. /\ Swap[i].buf1 \in Nat /\ Swap[i].buf2 \in Nat /\ Swap[i].size \in Nat
      /\ Swap[i].buf1 + Swap[i].size <= MaxAddr + 1
      /\ Swap[i].buf2 + Swap[i].size <= MaxAddr + 1
      /\ MaxAddr \in Nat
  BY <1>c, <1>d
<1>1. \A a \in Buf1(soc, i) : Swap[i].buf2 + (a - Swap[i].buf1) \in Addr
  BY <1>0 DEF Buf1, Region, Swap, Addr
<1>2. \A a \in Buf2(soc, i) : Swap[i].buf1 + (a - Swap[i].buf2) \in Addr
  BY <1>0 DEF Buf2, Region, Swap, Addr
<1> QED
  BY <1>1, <1>2 DEF TypeOK, SwapBuffer

LEMMA TypeNext == TypeOK /\ Position /\ Next => TypeOK'
<1> SUFFICES ASSUME TypeOK, Position, Next PROVE TypeOK'
  OBVIOUS
<1>0. /\ N \in Nat /\ SplAddr \in Nat /\ CurAddr = SplAddr + off
      /\ soc' = soc => N' = N /\ Swap' = Swap /\ SplAddr' = SplAddr
      /\ \A j \in 1..N : Swap[j].buf1 \in Nat /\ Swap[j].buf2 \in Nat /\ Swap[j].size \in Nat
      /\ soc.sram_size \in Nat
      /\ MaxAddr \in Nat /\ MaxFile \in Nat
  BY SmallFacts DEF TypeOK
<1>1. ASSUME NEW file \in 0..MaxFile, NEW len \in 0..MaxFile, NEW magic, NEW aligned, NEW sum,
             CheckImage(file, len, magic, aligned, sum)
      PROVE  TypeOK'
  <2>1. /\ spl_len' \in 0..MaxFile /\ off' \in 0..spl_len' /\ limit' \in Nat
        /\ tt' \in BOOLEAN /\ i' \in 1..(N' + 1)
    <3>1. CASE Reset
      BY <1>1, <3>1, ResetType DEF CheckImage
    <3>2. CASE spl_len' = len /\ UNCHANGED <<off, limit, tt, i>>
      BY <1>0, <1>1, <3>2 DEF TypeOK, CheckImage, Position
    <3> QED
      BY <1>1, <3>1, <3>2 DEF CheckImage, Fatal
  <2> QED
    BY <1>1, <2>1 DEF TypeOK, CheckImage, Fatal, HostSteps
<1>2. CASE Setup
  BY <1>0, <1>2, RunScratchType DEF TypeOK, Setup, HostSteps, ICacheNow
<1>3. CASE CheckSctlr
  <2>1. /\ spl_len' \in 0..MaxFile /\ off' \in 0..spl_len' /\ limit' \in Nat
        /\ tt' \in BOOLEAN /\ i' \in 1..(N' + 1)
    <3>1. CASE Reset
      BY <1>3, <3>1, ResetType DEF CheckSctlr
    <3>2. CASE UNCHANGED <<spl_len, off, limit, i>> /\ tt' \in BOOLEAN
      BY <1>0, <1>3, <3>2 DEF TypeOK, CheckSctlr
    <3> QED
      BY <1>3, <3>1, <3>2 DEF TypeOK, CheckSctlr, Fatal
  <2> QED
    BY <1>3, <2>1, RunScratchType DEF TypeOK, CheckSctlr, Fatal, HostSteps
<1>4. CASE CheckMmu
  <2>1. /\ spl_len' \in 0..MaxFile /\ off' \in 0..spl_len' /\ limit' \in Nat
        /\ tt' \in BOOLEAN /\ i' \in 1..(N' + 1)
    <3>1. CASE Reset
      BY <1>4, <3>1, ResetType DEF CheckMmu
    <3>2. CASE UNCHANGED <<spl_len, off, limit, i>> /\ tt' \in BOOLEAN
      BY <1>0, <1>4, <3>2 DEF TypeOK, CheckMmu
    <3> QED
      BY <1>4, <3>1, <3>2 DEF TypeOK, CheckMmu, Fatal
  <2> QED
    BY <1>4, <2>1, RunScratchType DEF TypeOK, CheckMmu, Fatal, HostSteps
<1>5. CASE DisableMmu
  BY <1>0, <1>5, RunScratchType DEF TypeOK, DisableMmu, HostSteps
<1>6. CASE NewTable
  <2>1. sram' \in [Addr -> Words] /\ hacked' \in BOOLEAN
    BY <1>6, RunScratchType DEF TypeOK, NewTable
  <2>2. soc.mmu_tt_addr \in Addr /\ soc.mmu_tt_addr + TtSize <= MaxAddr + 1
    BY SocsAssumption DEF TypeOK, InMemory
  <2> QED
    BY <1>0, <1>6, <2>1, <2>2 DEF TypeOK, NewTable, HostSteps
<1>7. CASE WriteGap
  <2>1. i \in 1..N /\ off \in Nat /\ spl_len \in Nat
    BY <1>0, <1>7 DEF TypeOK, WriteGap
  <2>2. limit' \in Nat
    BY <1>0, <1>7, <2>1 DEF TypeOK, WriteGap, LimitAt
  <2>3. sram' \in [Addr -> Words] /\ hacked' \in BOOLEAN /\ off' \in 0..spl_len
    <3>1. CASE off < spl_len /\ CurAddr < Swap[i].buf1
      <4>1. /\ Smaller(Swap[i].buf1 - CurAddr, spl_len - off) \in Nat
            /\ Smaller(Swap[i].buf1 - CurAddr, spl_len - off) <= spl_len - off
            /\ CurAddr \in Int
        BY <1>0, <2>1, <3>1 DEF Smaller
      <4> QED
        BY <1>7, <3>1, <4>1, SendType DEF WriteGap
    <3>2. CASE ~(off < spl_len /\ CurAddr < Swap[i].buf1)
      BY <1>7, <3>2 DEF TypeOK, WriteGap
    <3> QED
      BY <3>1, <3>2
  <2> QED
    BY <1>0, <1>7, <2>2, <2>3 DEF TypeOK, WriteGap, HostSteps
<1>8. CASE WriteSwapped
  <2>1. i \in 1..N /\ off \in Nat /\ spl_len \in Nat
    BY <1>0, <1>8 DEF TypeOK, Position, WriteSwapped
  <2>2. sram' \in [Addr -> Words] /\ hacked' \in BOOLEAN /\ off' \in 0..spl_len
    <3>1. CASE off < spl_len /\ CurAddr = Swap[i].buf1
      <4>1. /\ Smaller(Swap[i].size, spl_len - off) \in Nat
            /\ Smaller(Swap[i].size, spl_len - off) <= spl_len - off
            /\ Backup(i) \in Int
        BY <1>0, <2>1, <3>1 DEF Smaller, Backup
      <4> QED
        BY <1>8, <3>1, <4>1, SendType DEF WriteSwapped
    <3>2. CASE ~(off < spl_len /\ CurAddr = Swap[i].buf1)
      BY <1>8, <3>2 DEF TypeOK, WriteSwapped
    <3> QED
      BY <3>1, <3>2
  <2> QED
    BY <1>0, <1>8, <2>1, <2>2 DEF TypeOK, WriteSwapped, HostSteps
<1>9. CASE CheckLimit
  <2>1. /\ spl_len' \in 0..MaxFile /\ off' \in 0..spl_len' /\ limit' \in Nat
        /\ tt' \in BOOLEAN /\ i' \in 1..(N' + 1)
    <3>1. CASE Reset
      BY <1>9, <3>1, ResetType DEF CheckLimit
    <3>2. CASE /\ UNCHANGED <<spl_len, off, i, tt>>
               /\ limit' = Smaller(Minus(soc.thunk_addr, SplAddr), limit)
      <4>1. Minus(soc.thunk_addr, SplAddr) \in Nat
        BY LayoutFacts, MinusNat DEF TypeOK, Facts
      <4> QED
        BY <1>0, <1>9, <3>2, <4>1 DEF TypeOK, CheckLimit, Smaller
    <3> QED
      BY <1>9, <3>1, <3>2 DEF CheckLimit, Fatal
  <2> QED
    BY <1>9, <2>1 DEF TypeOK, CheckLimit, Fatal, HostSteps
<1>10. CASE WriteRest
  <2>1. off \in Nat /\ spl_len \in Nat
    BY <1>0 DEF TypeOK
  <2>2. sram' \in [Addr -> Words] /\ hacked' \in BOOLEAN /\ off' \in 0..spl_len
    <3>1. CASE off < spl_len
      BY <1>0, <1>10, <2>1, <3>1, SendType DEF WriteRest
    <3>2. CASE ~(off < spl_len)
      BY <1>10, <3>2 DEF TypeOK, WriteRest
    <3> QED
      BY <3>1, <3>2
  <2> QED
    BY <1>0, <1>10, <2>2 DEF TypeOK, WriteRest, HostSteps
<1>11. CASE CheckThunkSize
  <2>1. /\ spl_len' \in 0..MaxFile /\ off' \in 0..spl_len' /\ limit' \in Nat
        /\ tt' \in BOOLEAN /\ i' \in 1..(N' + 1)
    <3>1. CASE Reset
      BY <1>11, <3>1, ResetType DEF CheckThunkSize
    <3>2. CASE UNCHANGED <<spl_len, off, i, limit, tt>>
      BY <1>0, <1>11, <3>2 DEF TypeOK, CheckThunkSize
    <3> QED
      BY <1>11, <3>1, <3>2 DEF CheckThunkSize, Fatal
  <2> QED
    BY <1>11, <2>1 DEF TypeOK, CheckThunkSize, Fatal, HostSteps
<1>12. CASE ExecThunk
  <2>1. \A a \in Region(soc.thunk_addr, ThunkLen(soc)) : ToThunk(a) \in Words
    <3>1. soc.thunk_addr \in Nat /\ ThunkLen(soc) \in Nat
      BY LayoutFacts DEF TypeOK, Facts
    <3> QED
      BY <3>1 DEF Region, ToThunk, ThunkWord, Words
  <2>2. sram' \in [Addr -> Words]
    BY <1>12, <2>1 DEF TypeOK, ExecThunk, Write
  <2>3. hacked' \in BOOLEAN /\ icache' \in BOOLEAN
    BY <1>12 DEF TypeOK, ExecThunk, ICacheFix, ICacheNow
  <2> QED
    BY <1>0, <1>12, <2>2, <2>3 DEF TypeOK, ExecThunk, ThunkSteps
<1>13. CASE CheckCaches
  BY <1>0, <1>13 DEF TypeOK, CheckCaches, host, SetSig, Sig, Words, HostSteps, ThunkSteps
<1>14. CASE SwapIn
  <2>1. i <= N => sram' \in [Addr -> Words]
    BY <1>14, SwapType DEF TypeOK, SwapIn
  <2> QED
    BY <1>0, <1>14, <2>1 DEF TypeOK, SwapIn, host, ThunkSteps
<1>15. CASE VerifyChecksum
  BY <1>0, <1>15 DEF TypeOK, VerifyChecksum, host, SetSig, Sig, Words, ThunkSteps
<1>16. CASE RunSpl
  BY <1>0, <1>16 DEF TypeOK, RunSpl, host, Write, ToJunk, Junk, Words, ThunkSteps
<1>17. CASE SwapOut
  <2>1. i <= N => sram' \in [Addr -> Words]
    BY <1>17, SwapType DEF TypeOK, SwapOut
  <2> QED
    BY <1>0, <1>17, <2>1 DEF TypeOK, SwapOut, host, HostSteps, ThunkSteps
<1>18. CASE CheckSignature
  <2>1. /\ spl_len' \in 0..MaxFile /\ off' \in 0..spl_len' /\ limit' \in Nat
        /\ tt' \in BOOLEAN /\ i' \in 1..(N' + 1)
    <3>1. CASE Reset
      BY <1>18, <3>1, ResetType DEF CheckSignature
    <3>2. CASE UNCHANGED <<spl_len, off, i, limit, tt>>
      BY <1>0, <1>18, <3>2 DEF TypeOK, CheckSignature
    <3> QED
      BY <1>18, <3>1, <3>2 DEF CheckSignature, Fatal
  <2> QED
    BY <1>18, <2>1 DEF TypeOK, CheckSignature, Fatal, HostSteps
<1>19. CASE WriteTable
  <2>1. \A a \in Table : ToTable(a) \in Words
    <3>1. ttbr0 \in Nat /\ TtSize \in Nat
      BY <1>0, LayoutSizes DEF TypeOK, Addr
    <3> QED
      BY <3>1 DEF Table, Region, ToTable, TtWord, Words
  <2>2. sram' \in [Addr -> Words]
    BY <1>19, <2>1 DEF TypeOK, WriteTable, Junk, Words
  <2>3. hacked' \in BOOLEAN
    BY <1>19 DEF TypeOK, WriteTable, ICacheFix
  <2> QED
    BY <1>0, <1>19, <2>2, <2>3 DEF TypeOK, WriteTable, HostSteps
<1>20. CASE EnableMmu
  <2>1. icache' \in BOOLEAN
    BY <1>20 DEF EnableMmu
  <2> QED
    BY <1>20, <2>1, ResetType, RunScratchType DEF TypeOK, EnableMmu, HostSteps
<1>21. CASE UsbError
  <2>1. sram' \in [Addr -> Words]
    BY <1>21 DEF TypeOK, UsbError, Write, ToJunk, Junk, Words
  <2>2. alive' \in BOOLEAN
    BY <1>21 DEF UsbError
  <2> QED
    BY <1>0, <1>21, <2>1, <2>2 DEF TypeOK, UsbError
<1>22. CASE Restart
  <2>1. hacked' \in BOOLEAN
    BY <1>22 DEF Restart
  <2> QED
    BY <1>0, <1>22, <2>1 DEF TypeOK, Restart, HostSteps
<1> QED
  BY <1>1, <1>2, <1>3, <1>4, <1>5, <1>6, <1>7, <1>8, <1>9, <1>10, <1>11, <1>12, <1>13, <1>14,
     <1>15, <1>16, <1>17, <1>18, <1>19, <1>20, <1>21, <1>22
  DEF Next, aw_backup_and_disable_mmu, Upload, ThunkStep, aw_restore_and_enable_mmu

-----------------------------------------------------------------------------
(* Where the upload is, and how large the SPL may be.                      *)

LEMMA PositionNext == TypeOK /\ Position /\ Next => Position'
<1> SUFFICES ASSUME TypeOK, Position, Next PROVE Position'
  OBVIOUS
<1>0. /\ N \in Nat /\ SplAddr \in Nat /\ CurAddr = SplAddr + off /\ CurAddr' = SplAddr' + off'
      /\ soc' = soc => N' = N /\ Swap' = Swap /\ SplAddr' = SplAddr
      /\ \A j \in 1..N : Swap[j].buf1 \in Nat /\ Swap[j].buf2 \in Nat /\ Swap[j].size \in Nat
      /\ off \in Nat /\ spl_len \in Nat /\ off <= spl_len /\ i \in 1..(N + 1)
  BY SmallFacts DEF TypeOK, CurAddr, SplAddr
<1>f. /\ \A j \in 1..N : SplAddr <= Swap[j].buf1
      /\ \A j, k \in 1..N : j < k => Swap[j].buf1 + Swap[j].size <= Swap[k].buf1
  <2>1. Facts
    BY LayoutFacts DEF TypeOK
  <2>2. \A j \in 1..N : SplAddr + HeaderSize <= Swap[j].buf1
    BY <2>1 DEF Facts
  <2>3. \A j, k \in 1..N : j < k => Swap[j].buf1 + Swap[j].size <= Swap[k].buf1
    BY <2>1 DEF Facts
  <2>4. HeaderSize \in Nat
    BY <2>1 DEF Facts
  <2> QED
    BY <1>0, <2>2, <2>3, <2>4
<1>1. ASSUME NEW file, NEW len, NEW magic, NEW aligned, NEW sum,
             CheckImage(file, len, magic, aligned, sum)
      PROVE  Position'
  BY <1>1 DEF Position, CheckImage, Fatal, Reset, Uploaded
<1>2. CASE Setup
  BY <1>2 DEF Position, Setup, Uploaded
<1>3. CASE CheckSctlr
  BY <1>3 DEF Position, CheckSctlr, Fatal, Reset, Uploaded
<1>4. CASE CheckMmu
  BY <1>4 DEF Position, CheckMmu, Fatal, Reset, Uploaded
<1>5. CASE DisableMmu
  BY <1>5 DEF Position, DisableMmu, Uploaded
<1>6. CASE NewTable
  BY <1>6 DEF Position, NewTable, Uploaded
<1>7. CASE WriteGap
  <2>1. i \in 1..N /\ pc' = "swapped" /\ i' = i /\ soc' = soc /\ spl_len' = spl_len
    BY <1>0, <1>7 DEF WriteGap
  <2>2. off < spl_len => CurAddr <= Swap[i].buf1
    <3>1. ASSUME off < spl_len, i = 1 PROVE CurAddr <= Swap[i].buf1
      BY <1>0, <1>f, <1>7, <2>1, <3>1 DEF Position, WriteGap
    <3>2. ASSUME off < spl_len, i > 1 PROVE CurAddr <= Swap[i].buf1
      <4>1. CurAddr = Swap[i - 1].buf1 + Swap[i - 1].size
        BY <1>7, <3>2 DEF Position, WriteGap
      <4>2. i - 1 \in 1..N /\ i - 1 < i
        BY <1>0, <2>1, <3>2
      <4> QED
        BY <1>f, <2>1, <4>1, <4>2
    <3> QED
      BY <2>1, <3>1, <3>2
  <2>3. off' < spl_len => CurAddr' = Swap[i].buf1
    <3>1. CASE off < spl_len /\ CurAddr < Swap[i].buf1
      <4>1. off' = off + Smaller(Swap[i].buf1 - CurAddr, spl_len - off)
        BY <1>7, <3>1 DEF WriteGap, Send
      <4> QED
        BY <1>0, <2>1, <3>1, <4>1 DEF Smaller
    <3>2. CASE ~(off < spl_len /\ CurAddr < Swap[i].buf1)
      <4>1. off' = off
        BY <1>7, <3>2 DEF WriteGap
      <4> QED
        BY <1>0, <2>1, <2>2, <3>2, <4>1
    <3> QED
      BY <3>1, <3>2
  <2> QED
    BY <1>0, <2>1, <2>3 DEF Position, Uploaded
<1>8. CASE WriteSwapped
  <2>1. /\ i \in 1..N /\ pc' = "gap" /\ i' = i + 1 /\ soc' = soc /\ spl_len' = spl_len
        /\ off < spl_len => CurAddr = Swap[i].buf1
    BY <1>0, <1>8 DEF WriteSwapped, Position
  <2>2. off' < spl_len => CurAddr' = Swap[i].buf1 + Swap[i].size
    <3>1. CASE off < spl_len
      <4>1. off' = off + Smaller(Swap[i].size, spl_len - off)
        BY <1>8, <2>1, <3>1 DEF WriteSwapped, Send
      <4> QED
        BY <1>0, <2>1, <3>1, <4>1 DEF Smaller
    <3>2. CASE ~(off < spl_len)
      <4>1. off' = off
        BY <1>8, <3>2 DEF WriteSwapped
      <4> QED
        BY <3>2, <4>1
    <3> QED
      BY <3>1, <3>2
  <2>3. i' > 1 /\ i' - 1 = i
    BY <2>1
  <2> QED
    BY <1>0, <2>1, <2>2, <2>3 DEF Position, Uploaded
<1>9. CASE CheckLimit
  <2>1. i = N + 1
    BY <1>0, <1>9 DEF CheckLimit
  <2>2. CASE TooLarge
    BY <1>9, <2>2 DEF Position, CheckLimit, Fatal, Reset, Uploaded
  <2>3. CASE ~TooLarge
    <3>1. pc = "gap" /\ pc' = "rest" /\ UNCHANGED <<soc, spl_len, off, i>>
      BY <1>9, <2>3 DEF CheckLimit
    <3> QED
      BY <1>0, <2>1, <3>1 DEF Position, Uploaded
  <2> QED
    BY <2>2, <2>3
<1>10. CASE WriteRest
  <2>1. off' = spl_len /\ pc' = "fit" /\ spl_len' = spl_len
    BY <1>0, <1>10 DEF WriteRest, Send
  <2> QED
    BY <2>1 DEF Position, Uploaded
<1>11. CASE CheckThunkSize
  BY <1>11 DEF Position, CheckThunkSize, Fatal, Reset, Uploaded
<1>12. CASE ExecThunk
  BY <1>12 DEF Position, ExecThunk, Uploaded
<1>13. CASE CheckCaches
  BY <1>13 DEF Position, CheckCaches, host, Uploaded
<1>14. CASE SwapIn
  BY <1>14 DEF Position, SwapIn, host, Uploaded
<1>15. CASE VerifyChecksum
  BY <1>15 DEF Position, VerifyChecksum, host, Uploaded
<1>16. CASE RunSpl
  BY <1>16 DEF Position, RunSpl, host, Uploaded
<1>17. CASE SwapOut
  BY <1>17 DEF Position, SwapOut, host, Uploaded
<1>18. CASE CheckSignature
  BY <1>18 DEF Position, CheckSignature, Fatal, Reset, Uploaded
<1>19. CASE WriteTable
  BY <1>19 DEF Position, WriteTable, Uploaded
<1>20. CASE EnableMmu
  BY <1>20 DEF Position, EnableMmu, Reset, Uploaded
<1>21. CASE UsbError
  BY <1>0, <1>21 DEF Position, UsbError
<1>22. CASE Restart
  BY <1>22 DEF Position, Restart, Uploaded
<1> QED
  BY <1>1, <1>2, <1>3, <1>4, <1>5, <1>6, <1>7, <1>8, <1>9, <1>10, <1>11, <1>12, <1>13, <1>14,
     <1>15, <1>16, <1>17, <1>18, <1>19, <1>20, <1>21, <1>22
  DEF Next, aw_backup_and_disable_mmu, Upload, ThunkStep, aw_restore_and_enable_mmu


LEMMA LimitNext == TypeOK /\ Position /\ LimitKept /\ Next => LimitKept'
<1> SUFFICES ASSUME TypeOK, Position, LimitKept, Next PROVE LimitKept'
  OBVIOUS
<1>0. /\ N \in Nat /\ SplAddr \in Nat
      /\ soc' = soc => N' = N /\ Swap' = Swap /\ SplAddr' = SplAddr
      /\ \A j \in 1..N : Swap[j].buf1 \in Nat /\ Swap[j].buf2 \in Nat /\ Swap[j].size \in Nat
      /\ off \in Nat /\ spl_len \in Nat /\ i \in 1..(N + 1) /\ limit \in Nat
      /\ soc.sram_size \in Nat
  BY SmallFacts DEF TypeOK
<1>1. ASSUME NEW file, NEW len, NEW magic, NEW aligned, NEW sum,
             CheckImage(file, len, magic, aligned, sum)
      PROVE  LimitKept'
  BY <1>1 DEF LimitKept, CheckImage, Fatal, Accepted
<1>2. CASE Setup
  BY <1>2 DEF LimitKept, Setup, Accepted
<1>3. CASE CheckSctlr
  BY <1>3 DEF LimitKept, CheckSctlr, Fatal, Accepted
<1>4. CASE CheckMmu
  BY <1>4 DEF LimitKept, CheckMmu, Fatal, Accepted
<1>5. CASE DisableMmu
  <2>1. i = 1 /\ i' = i /\ pc' = "gap" /\ limit' = soc.sram_size /\ soc' = soc
    BY <1>5 DEF DisableMmu, Position
  <2> QED
    BY <1>0, <2>1 DEF LimitKept, Accepted
<1>6. CASE NewTable
  <2>1. i = 1 /\ i' = i /\ pc' = "gap" /\ limit' = soc.sram_size /\ soc' = soc
    BY <1>6 DEF NewTable, Position
  <2> QED
    BY <1>0, <2>1 DEF LimitKept, Accepted
<1>7. CASE WriteGap
  <2>1. i \in 1..N /\ pc = "gap" /\ pc' = "swapped" /\ i' = i /\ soc' = soc /\ limit' = LimitAt(i)
    BY <1>0, <1>7 DEF WriteGap
  <2>2. limit' <= limit /\ (Swap[i].buf2 >= SplAddr => limit' <= Swap[i].buf2 - SplAddr) /\ limit' \in Nat
    BY <1>0, <2>1 DEF LimitAt
  <2>3. ASSUME NEW j \in 1..N, j < i \/ j = i, Swap[j].buf2 >= SplAddr
        PROVE  limit' <= Swap[j].buf2 - SplAddr
    <3>1. CASE j < i
      <4>1. limit <= Swap[j].buf2 - SplAddr
        BY <2>1, <2>3, <3>1 DEF LimitKept
      <4> QED
        BY <1>0, <2>2, <2>3, <4>1
    <3>2. CASE j = i
      BY <2>2, <2>3, <3>2
    <3> QED
      BY <2>3, <3>1, <3>2
  <2>4. limit' <= soc.sram_size
    BY <1>0, <2>1, <2>2 DEF LimitKept
  <2> QED
    BY <1>0, <2>1, <2>3, <2>4 DEF LimitKept, Accepted
<1>8. CASE WriteSwapped
  <2>1. i \in 1..N /\ pc = "swapped" /\ pc' = "gap" /\ i' = i + 1 /\ soc' = soc /\ limit' = limit
    BY <1>0, <1>8 DEF WriteSwapped, Position
  <2>2. \A j \in 1..N : j < i' => j < i \/ j = i
    BY <2>1
  <2> QED
    BY <1>0, <2>1, <2>2 DEF LimitKept, Accepted
<1>9. CASE CheckLimit
  <2>1. CASE TooLarge
    BY <1>9, <2>1 DEF LimitKept, CheckLimit, Fatal, Accepted
  <2>2. CASE ~TooLarge
    <3>1. pc = "gap" /\ pc' = "rest" /\ soc' = soc /\ spl_len' = spl_len /\ i > N
      BY <1>9, <2>2 DEF CheckLimit
    <3>2. spl_len <= limit /\ limit <= soc.sram_size
      BY <1>0, <2>2, <3>1 DEF TooLarge, LimitKept
    <3>3. ASSUME NEW j \in 1..N, Swap[j].buf2 >= SplAddr PROVE spl_len <= Swap[j].buf2 - SplAddr
      <4>1. limit <= Swap[j].buf2 - SplAddr
        BY <1>0, <3>1, <3>3 DEF LimitKept
      <4> QED
        BY <1>0, <3>2, <4>1
    <3>4. soc.thunk_addr >= SplAddr => spl_len <= soc.thunk_addr - SplAddr
      <4>1. /\ soc.thunk_addr \in Nat
            /\ soc.thunk_addr >= SplAddr =>
                  Minus(soc.thunk_addr, SplAddr) = soc.thunk_addr - SplAddr
        BY LayoutFacts DEF TypeOK, Facts
      <4> QED
        BY <1>0, <2>2, <4>1 DEF TooLarge
    <3>5. spl_len <= soc.sram_size
      BY <1>0, <3>2
    <3> QED
      BY <1>0, <3>1, <3>3, <3>4, <3>5 DEF LimitKept, Accepted
  <2> QED
    BY <2>1, <2>2
<1>10. CASE WriteRest
  BY <1>0, <1>10 DEF LimitKept, WriteRest, Accepted
<1>11. CASE CheckThunkSize
  BY <1>0, <1>11 DEF LimitKept, CheckThunkSize, Fatal, Accepted
<1>12. CASE ExecThunk
  BY <1>0, <1>12 DEF LimitKept, ExecThunk, Accepted
<1>13. CASE CheckCaches
  BY <1>0, <1>13 DEF LimitKept, CheckCaches, host, Accepted
<1>14. CASE SwapIn
  BY <1>0, <1>14 DEF LimitKept, SwapIn, host, Accepted
<1>15. CASE VerifyChecksum
  BY <1>0, <1>15 DEF LimitKept, VerifyChecksum, host, Accepted
<1>16. CASE RunSpl
  BY <1>0, <1>16 DEF LimitKept, RunSpl, host, Accepted
<1>17. CASE SwapOut
  BY <1>0, <1>17 DEF LimitKept, SwapOut, host, Accepted
<1>18. CASE CheckSignature
  BY <1>18 DEF LimitKept, CheckSignature, Fatal, Accepted
<1>19. CASE WriteTable
  BY <1>19 DEF LimitKept, WriteTable, Accepted
<1>20. CASE EnableMmu
  BY <1>20 DEF LimitKept, EnableMmu, Accepted
<1>21. CASE UsbError
  BY <1>0, <1>21 DEF LimitKept, UsbError
<1>22. CASE Restart
  BY <1>22 DEF LimitKept, Restart, Accepted
<1> QED
  BY <1>1, <1>2, <1>3, <1>4, <1>5, <1>6, <1>7, <1>8, <1>9, <1>10, <1>11, <1>12, <1>13, <1>14,
     <1>15, <1>16, <1>17, <1>18, <1>19, <1>20, <1>21, <1>22
  DEF Next, aw_backup_and_disable_mmu, Upload, ThunkStep, aw_restore_and_enable_mmu

\* The I-cache.
LEMMA CacheNext == TypeOK /\ MmuKept /\ CacheKept /\ Next => CacheKept'
<1> SUFFICES ASSUME TypeOK, MmuKept, CacheKept, Next PROVE CacheKept'
  OBVIOUS
<1>1. ASSUME NEW file, NEW len, NEW magic, NEW aligned, NEW sum,
             CheckImage(file, len, magic, aligned, sum)
      PROVE  CacheKept'
  BY <1>1 DEF CacheKept, CheckImage, Fatal
<1>2. CASE Setup
  BY <1>2 DEF TypeOK, CacheKept, Setup, RunScratch, ICacheFix, ICacheNow
<1>3. CASE CheckSctlr
  BY <1>3 DEF CacheKept, CheckSctlr, RunScratch, ICacheFix, Fatal
<1>4. CASE CheckMmu
  BY <1>4 DEF CacheKept, CheckMmu, RunScratch, ICacheFix, Fatal
<1>5. CASE DisableMmu
  BY <1>5 DEF CacheKept, DisableMmu, RunScratch, ICacheFix
<1>6. CASE NewTable
  BY <1>6 DEF CacheKept, NewTable, RunScratch, ICacheFix
<1>7. CASE WriteGap
  BY <1>7 DEF CacheKept, WriteGap, Send, ICacheFix
<1>8. CASE WriteSwapped
  BY <1>8 DEF CacheKept, WriteSwapped, Send, ICacheFix
<1>9. CASE CheckLimit
  BY <1>9 DEF CacheKept, CheckLimit, Fatal
<1>10. CASE WriteRest
  BY <1>10 DEF CacheKept, WriteRest, Send, ICacheFix
<1>11. CASE CheckThunkSize
  BY <1>11 DEF CacheKept, CheckThunkSize, Fatal
<1>12. CASE ExecThunk
  BY <1>12 DEF TypeOK, CacheKept, ExecThunk, ICacheFix, ICacheNow
<1>13. CASE CheckCaches
  BY <1>13 DEF CacheKept, CheckCaches, host
<1>14. CASE SwapIn
  BY <1>14 DEF CacheKept, SwapIn, host
<1>15. CASE VerifyChecksum
  BY <1>15 DEF CacheKept, VerifyChecksum, host
<1>16. CASE RunSpl
  BY <1>16 DEF CacheKept, RunSpl, host
<1>17. CASE SwapOut
  BY <1>17 DEF CacheKept, SwapOut, host
<1>18. CASE CheckSignature
  BY <1>18 DEF CacheKept, CheckSignature, Fatal
<1>19. CASE WriteTable
  BY <1>19 DEF CacheKept, WriteTable, ICacheFix
<1>20. CASE EnableMmu
  BY <1>20 DEF CacheKept, EnableMmu, RunScratch, ICacheFix
<1>21. CASE UsbError
  BY <1>21 DEF CacheKept, UsbError
<1>22. CASE Restart
  BY <1>22 DEF CacheKept, Restart
<1> QED
  BY <1>1, <1>2, <1>3, <1>4, <1>5, <1>6, <1>7, <1>8, <1>9, <1>10, <1>11, <1>12, <1>13, <1>14,
     <1>15, <1>16, <1>17, <1>18, <1>19, <1>20, <1>21, <1>22
  DEF Next, aw_backup_and_disable_mmu, Upload, ThunkStep, aw_restore_and_enable_mmu


-----------------------------------------------------------------------------
(* Where things are: BROM buffers, backups, header and thunk do not meet.  *)

Places ==
    /\ \A j \in 1..N : \A a \in Buf1(soc, j) :
          /\ a \in Addr
          /\ Swap[j].buf2 + (a - Swap[j].buf1) \in Buf2(soc, j)
          /\ Swap[j].buf1 + ((Swap[j].buf2 + (a - Swap[j].buf1)) - Swap[j].buf2) = a
    /\ \A j \in 1..N : \A a \in Buf2(soc, j) : a \in Addr
    /\ \A j, k \in 1..N : \A a \in Buf1(soc, j) : a \notin Buf2(soc, k)
    /\ \A j, k \in 1..N : \A a \in Buf1(soc, j) : j # k => a \notin Buf1(soc, k)
    /\ \A j, k \in 1..N : \A a \in Buf2(soc, j) : j # k => a \notin Buf2(soc, k)
    /\ SplAddr + SigWord \in Addr
    /\ \A j \in 1..N : SplAddr + SigWord \notin Buf1(soc, j) /\ SplAddr + SigWord \notin Buf2(soc, j)
    /\ SplAddr + SigWord \notin Thunk(soc)
    /\ \A a \in Thunk(soc) : a \in Addr
    /\ \A j \in 1..N : \A a \in Thunk(soc) : a \notin Buf1(soc, j) /\ a \notin Buf2(soc, j)

LEMMA BufferIs ==
  ASSUME soc \in Socs
  PROVE  /\ \A j \in 1..N : \A a : a \in Buf1(soc, j) <=>
               a \in Int /\ Swap[j].buf1 <= a /\ a < Swap[j].buf1 + Swap[j].size
         /\ \A j \in 1..N : \A a : a \in Buf2(soc, j) <=>
               a \in Int /\ Swap[j].buf2 <= a /\ a < Swap[j].buf2 + Swap[j].size
         /\ \A a : a \in Thunk(soc) <=>
               a \in Int /\ soc.thunk_addr <= a /\ a < soc.thunk_addr + soc.thunk_size
<1>0. \A j \in 1..N : Swap[j].buf1 \in Nat /\ Swap[j].buf2 \in Nat /\ Swap[j].size \in Nat
  BY SmallFacts
<1>1. \A x, n \in Nat : \A a : a \in Region(x, n) <=> a \in Int /\ x <= a /\ a < x + n
  BY DEF Region
<1>2. soc.thunk_addr \in Nat /\ soc.thunk_size \in Nat
  BY LayoutFacts DEF Facts
<1>3. \A j : /\ Buf1(soc, j) = Region(Swap[j].buf1, Swap[j].size)
             /\ Buf2(soc, j) = Region(Swap[j].buf2, Swap[j].size)
  BY DEF Buf1, Buf2, Swap
<1>4. ASSUME NEW j \in 1..N, NEW a
      PROVE  /\ a \in Buf1(soc, j) <=>
                   a \in Int /\ Swap[j].buf1 <= a /\ a < Swap[j].buf1 + Swap[j].size
             /\ a \in Buf2(soc, j) <=>
                   a \in Int /\ Swap[j].buf2 <= a /\ a < Swap[j].buf2 + Swap[j].size
  <2>1. Swap[j].buf1 \in Nat /\ Swap[j].buf2 \in Nat /\ Swap[j].size \in Nat
    BY <1>0, Zenon
  <2>2. /\ a \in Region(Swap[j].buf1, Swap[j].size) <=>
              a \in Int /\ Swap[j].buf1 <= a /\ a < Swap[j].buf1 + Swap[j].size
        /\ a \in Region(Swap[j].buf2, Swap[j].size) <=>
              a \in Int /\ Swap[j].buf2 <= a /\ a < Swap[j].buf2 + Swap[j].size
    BY <2>1, <1>1
  <2> QED
    BY <2>2, <1>3, Zenon
<1>5. \A a : a \in Thunk(soc) <=>
          a \in Int /\ soc.thunk_addr <= a /\ a < soc.thunk_addr + soc.thunk_size
  BY <1>1, <1>2, Zenon DEF Thunk
<1> QED
  BY <1>4, <1>5, Zenon

LEMMA PlacesFacts == soc \in Socs => Places
<1> SUFFICES ASSUME soc \in Socs PROVE Places
  OBVIOUS
<1>0. Facts
  BY LayoutFacts
<1>1. /\ N \in Nat /\ MaxAddr \in Nat /\ SplAddr \in Nat /\ HeaderSize \in Nat /\ SigWord \in Nat
      /\ SigWord < HeaderSize /\ Buf1End(soc) \in Nat
      /\ soc.thunk_addr \in Nat /\ soc.thunk_size \in Nat
      /\ SplAddr + HeaderSize <= MaxAddr
      /\ SplAddr + HeaderSize <= Buf1End(soc)
      /\ Buf1End(soc) <= MaxAddr + 1
      /\ soc.thunk_addr + soc.thunk_size <= MaxAddr + 1
      /\ soc.thunk_addr + soc.thunk_size <= SplAddr \/ Buf1End(soc) <= soc.thunk_addr
  BY <1>0 DEF Facts
<1>2. \A j \in 1..N :
          /\ Swap[j].buf1 \in Nat /\ Swap[j].buf2 \in Nat
          /\ Swap[j].size \in Nat /\ Swap[j].size > 0
          /\ SplAddr + HeaderSize <= Swap[j].buf1
          /\ Swap[j].buf1 + Swap[j].size <= Buf1End(soc)
          /\ Swap[j].buf2 + Swap[j].size <= MaxAddr + 1
          /\ Swap[j].buf2 + Swap[j].size <= SplAddr \/ Buf1End(soc) <= Swap[j].buf2
          /\ \/ soc.thunk_addr + soc.thunk_size <= Swap[j].buf2
             \/ Swap[j].buf2 + Swap[j].size <= soc.thunk_addr
  BY <1>0, Zenon DEF Facts
<1>3. \A j, k \in 1..N : j < k => Swap[j].buf1 + Swap[j].size <= Swap[k].buf1
  BY <1>0, Zenon DEF Facts
<1>4. \A j, k \in 1..N : j # k =>
          \/ Swap[j].buf2 + Swap[j].size <= Swap[k].buf2
          \/ Swap[k].buf2 + Swap[k].size <= Swap[j].buf2
  BY <1>0, Zenon DEF Facts
<1>5. ASSUME NEW j \in 1..N, NEW a \in Buf1(soc, j)
      PROVE  /\ a \in Addr
             /\ Swap[j].buf2 + (a - Swap[j].buf1) \in Buf2(soc, j)
             /\ Swap[j].buf1 + ((Swap[j].buf2 + (a - Swap[j].buf1)) - Swap[j].buf2) = a
  <2>1. a \in Int /\ Swap[j].buf1 <= a /\ a < Swap[j].buf1 + Swap[j].size
    BY <1>5, BufferIs, Zenon
  <2>2. /\ Swap[j].buf1 \in Nat /\ Swap[j].buf2 \in Nat /\ Swap[j].size \in Nat
        /\ Swap[j].buf1 + Swap[j].size <= MaxAddr + 1
    BY <1>1, <1>2
  <2>3. Swap[j].buf2 + (a - Swap[j].buf1) \in Buf2(soc, j)
    <3>1. /\ Swap[j].buf2 + (a - Swap[j].buf1) \in Int
          /\ Swap[j].buf2 <= Swap[j].buf2 + (a - Swap[j].buf1)
          /\ Swap[j].buf2 + (a - Swap[j].buf1) < Swap[j].buf2 + Swap[j].size
      BY <2>1, <2>2
    <3> QED
      BY <3>1, BufferIs, Zenon
  <2> QED
    BY <1>1, <2>1, <2>2, <2>3 DEF Addr
<1>6. ASSUME NEW j \in 1..N, NEW a \in Buf2(soc, j) PROVE a \in Addr
  BY <1>1, <1>2, <1>6, BufferIs DEF Addr
<1>7. ASSUME NEW j \in 1..N, NEW k \in 1..N, NEW a \in Buf1(soc, j) PROVE a \notin Buf2(soc, k)
  <2>1. SplAddr <= a /\ a < Buf1End(soc) /\ a \in Nat
    BY <1>1, <1>2, <1>7, BufferIs
  <2> QED
    BY <1>1, <1>2, <2>1, BufferIs
<1>8. ASSUME NEW j \in 1..N, NEW k \in 1..N, NEW a \in Buf1(soc, j), j # k PROVE a \notin Buf1(soc, k)
  <2>1. j < k \/ k < j
    BY <1>1, <1>8
  <2>2. \/ Swap[j].buf1 + Swap[j].size <= Swap[k].buf1
        \/ Swap[k].buf1 + Swap[k].size <= Swap[j].buf1
    BY <1>3, <2>1
  <2> QED
    BY <1>2, <1>8, <2>2, BufferIs
<1>9. ASSUME NEW j \in 1..N, NEW k \in 1..N, NEW a \in Buf2(soc, j), j # k PROVE a \notin Buf2(soc, k)
  <2>1. \/ Swap[j].buf2 + Swap[j].size <= Swap[k].buf2
        \/ Swap[k].buf2 + Swap[k].size <= Swap[j].buf2
    BY <1>4, <1>9
  <2> QED
    BY <1>2, <1>9, <2>1, BufferIs
<1>10. SplAddr + SigWord \in Addr
  BY <1>1 DEF Addr
<1>11. ASSUME NEW j \in 1..N
       PROVE  SplAddr + SigWord \notin Buf1(soc, j) /\ SplAddr + SigWord \notin Buf2(soc, j)
  BY <1>1, <1>2, BufferIs
<1>12. SplAddr + SigWord \notin Thunk(soc)
  BY <1>1, BufferIs
<1>13. \A a \in Thunk(soc) : a \in Addr
  BY <1>1, BufferIs DEF Addr
<1>14. ASSUME NEW j \in 1..N, NEW a \in Thunk(soc)
       PROVE  a \notin Buf1(soc, j) /\ a \notin Buf2(soc, j)
  BY <1>1, <1>2, BufferIs
<1> QED
  BY <1>5, <1>6, <1>7, <1>8, <1>9, <1>10, <1>11, <1>12, <1>13, <1>14 DEF Places

\* What an exchange of buffer i with its backup does.
LEMMA SwapEffect ==
  ASSUME TypeOK, i \in 1..N, SwapBuffer
  PROVE  /\ \A x \in Buf1(soc, i) : sram'[x] = sram[Swap[i].buf2 + (x - Swap[i].buf1)]
         /\ \A x \in Buf1(soc, i) : sram'[Swap[i].buf2 + (x - Swap[i].buf1)] = sram[x]
         /\ \A a \in Addr : a \notin Buf1(soc, i) /\ a \notin Buf2(soc, i) => sram'[a] = sram[a]
<1>0. Places
  BY PlacesFacts DEF TypeOK
<1>1. ASSUME NEW x \in Buf1(soc, i) PROVE sram'[x] = sram[Swap[i].buf2 + (x - Swap[i].buf1)]
  <2>1. x \in Addr
    BY <1>0, <1>1 DEF Places
  <2>2. sram'[x] = CASE x \in Buf1(soc, i) -> sram[Swap[i].buf2 + (x - Swap[i].buf1)]
                     [] x \in Buf2(soc, i) -> sram[Swap[i].buf1 + (x - Swap[i].buf2)]
                     [] OTHER -> sram[x]
    BY <2>1 DEF SwapBuffer
  <2>3. x \notin Buf2(soc, i)
    BY <1>0, <1>1 DEF Places
  <2> QED
    BY <1>1, <2>2, <2>3
<1>2. ASSUME NEW x \in Buf1(soc, i) PROVE sram'[Swap[i].buf2 + (x - Swap[i].buf1)] = sram[x]
  <2> DEFINE y == Swap[i].buf2 + (x - Swap[i].buf1)
  <2>1. y \in Buf2(soc, i) /\ Swap[i].buf1 + (y - Swap[i].buf2) = x
    BY <1>0, Zenon DEF Places
  <2>2. y \in Addr /\ y \notin Buf1(soc, i)
    BY <1>0, <2>1 DEF Places
  <2> HIDE DEF y
  <2>3. sram'[y] = sram[Swap[i].buf1 + (y - Swap[i].buf2)]
    BY <2>1, <2>2 DEF SwapBuffer
  <2>4. sram'[y] = sram[x]
    BY <2>1, <2>3
  <2> QED
    BY <2>4 DEF y
<1>3. \A a \in Addr : a \notin Buf1(soc, i) /\ a \notin Buf2(soc, i) => sram'[a] = sram[a]
  BY DEF SwapBuffer
<1> QED
  BY <1>1, <1>2, <1>3


-----------------------------------------------------------------------------
(* What the tool's steps write.                                            *)

GapLength == Smaller(Swap[i].buf1 - CurAddr, spl_len - off)
BackupLength == Smaller(Swap[i].size, spl_len - off)

LEMMA TargetIs ==
  /\ pc \in {"setup", "sctlr", "mmuregs", "disable", "newtable", "enable"} => Target = Scratch(soc)
  /\ pc = "gap" /\ i <= N /\ off < spl_len /\ CurAddr < Swap[i].buf1 =>
        Target = Region(CurAddr, GapLength)
  /\ pc = "gap" /\ ~(i <= N /\ off < spl_len /\ CurAddr < Swap[i].buf1) => Target = {}
  /\ pc = "swapped" /\ off < spl_len /\ CurAddr = Swap[i].buf1 =>
        Target = Region(Swap[i].buf2, BackupLength)
  /\ pc = "swapped" /\ ~(off < spl_len /\ CurAddr = Swap[i].buf1) => Target = {}
  /\ pc = "rest" => Target = Region(CurAddr, spl_len - off)
  /\ pc = "thunk" => Target = Region(soc.thunk_addr, ThunkLen(soc))
  /\ pc = "table" => Target = Scratch(soc) \cup Table
  /\ pc \in {"idle", "done", "fatal", "fit", "result"} \cup ThunkSteps => Target = {}
<1>1. pc \in {"setup", "sctlr", "mmuregs", "disable", "newtable", "enable"} => Target = Scratch(soc)
  BY DEF Target
<1>2. pc = "gap" /\ i <= N /\ off < spl_len /\ CurAddr < Swap[i].buf1 =>
        Target = Region(CurAddr, GapLength)
  BY DEF Target, GapLength
<1>3. pc = "gap" /\ ~(i <= N /\ off < spl_len /\ CurAddr < Swap[i].buf1) => Target = {}
  <2>1. CASE i <= N
    BY <2>1 DEF Target
  <2>2. CASE ~(i <= N)
    BY <2>2 DEF Target
  <2> QED
    BY <2>1, <2>2
<1>4. pc = "swapped" /\ off < spl_len /\ CurAddr = Swap[i].buf1 =>
        Target = Region(Swap[i].buf2, BackupLength)
  BY DEF Target, BackupLength, Backup
<1>5. pc = "swapped" /\ ~(off < spl_len /\ CurAddr = Swap[i].buf1) => Target = {}
  BY DEF Target
<1>6. pc = "rest" => Target = Region(CurAddr, spl_len - off)
  BY DEF Target
<1>7. pc = "thunk" => Target = Region(soc.thunk_addr, ThunkLen(soc))
  BY DEF Target
<1>8. pc = "table" => Target = Scratch(soc) \cup Table
  BY DEF Target
<1>9. pc \in {"idle", "done", "fatal", "fit", "result"} \cup ThunkSteps => Target = {}
  BY DEF Target, ThunkSteps
<1> QED
  BY <1>1, <1>2, <1>3, <1>4, <1>5, <1>6, <1>7, <1>8, <1>9

\* A step of the tool leaves alone what is not its target.
LEMMA Frame ==
  ASSUME TypeOK, Next, pc \in HostSteps, NEW a \in Addr, a \notin Target
  PROVE  sram'[a] = sram[a]
<1>0. sram \in [Addr -> Words]
  BY DEF TypeOK
<1>1. ASSUME NEW file, NEW len, NEW magic, NEW aligned, NEW sum,
             CheckImage(file, len, magic, aligned, sum)
      PROVE  sram' = sram
  BY <1>1 DEF CheckImage
<1>2. CASE RunScratch /\ pc \in {"setup", "sctlr", "mmuregs", "disable", "newtable", "enable"}
  BY <1>2, TargetIs DEF RunScratch, Write
<1>3. CASE NewTable
  BY <1>2, <1>3 DEF NewTable
<1>4. CASE WriteGap
  <2>1. CASE off < spl_len /\ CurAddr < Swap[i].buf1
    <3>1. Target = Region(CurAddr, GapLength) /\ Send(CurAddr, GapLength)
      BY <1>4, <2>1, TargetIs DEF WriteGap, GapLength
    <3> QED
      BY <3>1 DEF Send
  <2>2. CASE ~(off < spl_len /\ CurAddr < Swap[i].buf1)
    BY <1>4, <2>2 DEF WriteGap
  <2> QED
    BY <2>1, <2>2
<1>5. CASE WriteSwapped
  <2>1. CASE off < spl_len /\ CurAddr = Swap[i].buf1
    <3>1. Target = Region(Swap[i].buf2, BackupLength) /\ Send(Swap[i].buf2, BackupLength)
      BY <1>5, <2>1, TargetIs DEF WriteSwapped, BackupLength, Backup
    <3> QED
      BY <3>1 DEF Send
  <2>2. CASE ~(off < spl_len /\ CurAddr = Swap[i].buf1)
    BY <1>5, <2>2 DEF WriteSwapped
  <2> QED
    BY <2>1, <2>2
<1>6. CASE WriteRest
  <2>1. Target = Region(CurAddr, spl_len - off)
    BY <1>6, TargetIs DEF WriteRest
  <2> QED
    BY <1>6, <2>1 DEF WriteRest, Send
<1>7. CASE ExecThunk
  <2>1. Target = Region(soc.thunk_addr, ThunkLen(soc))
    BY <1>7, TargetIs DEF ExecThunk
  <2> QED
    BY <1>7, <2>1 DEF ExecThunk, Write
<1>8. CASE WriteTable
  <2>1. Target = Scratch(soc) \cup Table
    BY <1>8, TargetIs DEF WriteTable
  <2> QED
    BY <1>8, <2>1 DEF WriteTable
<1>9. CASE UsbError
  BY <1>9 DEF UsbError, Write
<1>10. CASE Setup \/ CheckSctlr \/ CheckMmu \/ DisableMmu \/ EnableMmu
  <2>1. RunScratch /\ pc \in {"setup", "sctlr", "mmuregs", "disable", "newtable", "enable"}
    BY <1>10 DEF Setup, CheckSctlr, CheckMmu, DisableMmu, EnableMmu
  <2> QED
    BY <1>2, <2>1
<1>11. CASE CheckLimit \/ CheckThunkSize \/ CheckSignature \/ Restart
  BY <1>11 DEF CheckLimit, CheckThunkSize, CheckSignature, Restart
<1>12. ~(CheckCaches \/ SwapIn \/ VerifyChecksum \/ RunSpl \/ SwapOut)
  BY DEF HostSteps, CheckCaches, SwapIn, VerifyChecksum, RunSpl, SwapOut
<1> QED
  BY <1>1, <1>3, <1>4, <1>5, <1>6, <1>7, <1>8, <1>9, <1>10, <1>11, <1>12
  DEF Next, aw_backup_and_disable_mmu, Upload, ThunkStep, aw_restore_and_enable_mmu


LEMMA Geometry ==
  ASSUME TypeOK
  PROVE  /\ N \in Nat /\ SplAddr \in Nat /\ CurAddr = SplAddr + off /\ CurAddr \in Nat
         /\ off \in Nat /\ spl_len \in Nat /\ off <= spl_len /\ i \in 1..(N + 1)
         /\ soc.thunk_addr \in Nat /\ soc.thunk_size \in Nat /\ ThunkLen(soc) \in Nat
         /\ Buf1End(soc) \in Nat /\ SplAddr <= Buf1End(soc)
         /\ soc.thunk_addr + soc.thunk_size <= SplAddr \/ Buf1End(soc) <= soc.thunk_addr
         /\ \A j \in 1..N : /\ Swap[j].buf1 \in Nat /\ Swap[j].buf2 \in Nat /\ Swap[j].size \in Nat
                            /\ Swap[j].size > 0
                            /\ SplAddr <= Swap[j].buf1
                            /\ Swap[j].buf1 + Swap[j].size <= Buf1End(soc)
                            /\ Swap[j].buf2 + Swap[j].size <= SplAddr \/ Buf1End(soc) <= Swap[j].buf2
         /\ \A j, k \in 1..N : j < k => Swap[j].buf1 + Swap[j].size <= Swap[k].buf1
<1>1. Facts
  BY LayoutFacts DEF TypeOK
<1>2. /\ N \in Nat /\ SplAddr \in Nat /\ HeaderSize \in Nat
      /\ soc.thunk_addr \in Nat /\ soc.thunk_size \in Nat /\ ThunkLen(soc) \in Nat
      /\ Buf1End(soc) \in Nat /\ SplAddr + HeaderSize <= Buf1End(soc)
      /\ soc.thunk_addr + soc.thunk_size <= SplAddr \/ Buf1End(soc) <= soc.thunk_addr
  BY <1>1 DEF Facts
<1>3. \A j \in 1..N : /\ Swap[j].buf1 \in Nat /\ Swap[j].buf2 \in Nat /\ Swap[j].size \in Nat
                      /\ Swap[j].size > 0
                      /\ SplAddr + HeaderSize <= Swap[j].buf1
                      /\ Swap[j].buf1 + Swap[j].size <= Buf1End(soc)
                      /\ Swap[j].buf2 + Swap[j].size <= SplAddr \/ Buf1End(soc) <= Swap[j].buf2
  BY <1>1, Zenon DEF Facts
<1>4. \A j, k \in 1..N : j < k => Swap[j].buf1 + Swap[j].size <= Swap[k].buf1
  BY <1>1, Zenon DEF Facts
<1>5. off \in Nat /\ spl_len \in Nat /\ off <= spl_len /\ i \in 1..(N + 1) /\ CurAddr = SplAddr + off
  BY SmallFacts DEF TypeOK
<1>6. \A j \in 1..N : SplAddr <= Swap[j].buf1
  BY <1>2, <1>3
<1> QED
  BY <1>2, <1>3, <1>4, <1>5, <1>6

\* The gap below BROM buffer i does not reach into a BROM buffer.
LEMMA GapPlace ==
  ASSUME TypeOK, Position, pc = "gap", i <= N, off < spl_len, CurAddr < Swap[i].buf1
  PROVE  /\ i \in 1..N
         /\ GapLength \in Nat /\ GapLength <= spl_len - off
         /\ CurAddr + GapLength <= Swap[i].buf1
         /\ \A j \in 1..N : \/ Swap[j].buf1 + Swap[j].size <= CurAddr
                            \/ CurAddr + GapLength <= Swap[j].buf1
<1>0. i \in 1..N
  BY Geometry
<1>1. /\ GapLength \in Nat /\ GapLength <= spl_len - off
      /\ CurAddr + GapLength <= Swap[i].buf1
  BY <1>0, Geometry DEF GapLength, Smaller
<1>2. ASSUME NEW j \in 1..N, j < i PROVE Swap[j].buf1 + Swap[j].size <= CurAddr
  <2>1. i > 1 /\ i - 1 \in 1..N
    BY <1>0, <1>2, Geometry
  <2>2. CurAddr = Swap[i - 1].buf1 + Swap[i - 1].size
    BY <2>1 DEF Position
  <2>3. CASE j = i - 1
    BY <2>1, <2>2, <2>3, Geometry
  <2>4. CASE j < i - 1
    <3>1. Swap[j].buf1 + Swap[j].size <= Swap[i - 1].buf1
      BY <1>2, <2>1, <2>4, Geometry
    <3> QED
      BY <1>2, <2>1, <2>2, <3>1, Geometry
  <2> QED
    BY <1>0, <1>2, <2>3, <2>4
<1>3. ASSUME NEW j \in 1..N, ~(j < i) PROVE CurAddr + GapLength <= Swap[j].buf1
  <2>1. CASE j = i
    BY <1>1, <2>1
  <2>2. CASE i < j
    <3>1. Swap[i].buf1 + Swap[i].size <= Swap[j].buf1
      BY <1>0, <1>3, <2>2, Geometry
    <3> QED
      BY <1>0, <1>1, <1>3, <3>1, Geometry
  <2> QED
    BY <1>0, <1>3, <2>1, <2>2
<1> QED
  BY <1>0, <1>1, <1>2, <1>3

\* The rest of the SPL lies above all BROM buffers and below the backups.
LEMMA RestPlace ==
  ASSUME TypeOK, Position, LimitKept, pc = "rest", off < spl_len
  PROVE  \A j \in 1..N : /\ Swap[j].buf1 + Swap[j].size <= CurAddr
                         /\ \/ Swap[j].buf2 + Swap[j].size <= SplAddr
                            \/ SplAddr + spl_len <= Swap[j].buf2
<1> SUFFICES ASSUME NEW j \in 1..N
             PROVE  /\ Swap[j].buf1 + Swap[j].size <= CurAddr
                    /\ \/ Swap[j].buf2 + Swap[j].size <= SplAddr
                       \/ SplAddr + spl_len <= Swap[j].buf2
  OBVIOUS
<1>1. i = N + 1 /\ i > 1 /\ i - 1 = N /\ N \in 1..N
  BY Geometry DEF Position
<1>2. CurAddr = Swap[N].buf1 + Swap[N].size
  BY <1>1 DEF Position
<1>3. Swap[j].buf1 + Swap[j].size <= CurAddr
  <2>1. CASE j = N
    BY <1>2, <2>1, Geometry
  <2>2. CASE j < N
    <3>1. Swap[j].buf1 + Swap[j].size <= Swap[N].buf1
      BY <1>1, <2>2, Geometry
    <3> QED
      BY <1>1, <1>2, <3>1, Geometry
  <2> QED
    BY <2>1, <2>2, Geometry
<1>4. Swap[j].buf2 >= SplAddr => spl_len <= Swap[j].buf2 - SplAddr
  BY DEF LimitKept, Accepted
<1> QED
  BY <1>3, <1>4, Geometry

\* From the check of the limit on, the SPL keeps off the backups and the thunk.
LEMMA SplPlace ==
  ASSUME TypeOK, LimitKept, pc \in Accepted
  PROVE  /\ \A j \in 1..N : \/ Swap[j].buf2 + Swap[j].size <= SplAddr
                            \/ SplAddr + spl_len <= Swap[j].buf2
         /\ \/ soc.thunk_addr + soc.thunk_size <= SplAddr
            \/ SplAddr + spl_len <= soc.thunk_addr
<1>1. ASSUME NEW j \in 1..N
      PROVE  \/ Swap[j].buf2 + Swap[j].size <= SplAddr
             \/ SplAddr + spl_len <= Swap[j].buf2
  <2>1. Swap[j].buf2 >= SplAddr => spl_len <= Swap[j].buf2 - SplAddr
    BY DEF LimitKept
  <2> QED
    BY <2>1, Geometry
<1>2. \/ soc.thunk_addr + soc.thunk_size <= SplAddr
      \/ SplAddr + spl_len <= soc.thunk_addr
  <2>1. soc.thunk_addr >= SplAddr => spl_len <= soc.thunk_addr - SplAddr
    BY DEF LimitKept
  <2> QED
    BY <2>1, Geometry
<1> QED
  BY <1>1, <1>2

LEMMA RegionIs == \A x, n \in Nat : \A a : a \in Region(x, n) <=> a \in Int /\ x <= a /\ a < x + n
  BY DEF Region

LEMMA ThunkTarget ==
  ASSUME TypeOK, ThunkKept, pc = "thunk", NEW a \in Target PROVE a \in Thunk(soc)
<1>1. ThunkLen(soc) <= soc.thunk_size
  BY DEF ThunkKept
<1>2. a \in Region(soc.thunk_addr, ThunkLen(soc))
  BY TargetIs
<1> QED
  BY <1>1, <1>2, Geometry, RegionIs DEF Thunk

\* No step of the tool writes to BROM data.
LEMMA TargetBrom ==
  ASSUME TypeOK, Position, LimitKept, ThunkKept, MmuKept,
         NEW j \in 1..N, NEW x \in Buf1(soc, j), x \notin Scratch(soc)
  PROVE  x \notin Target
<1> SUFFICES ASSUME x \in Target PROVE FALSE
  OBVIOUS
<1>0. soc \in Socs /\ Places
  BY PlacesFacts DEF TypeOK
<1>x. x \in Nat /\ Swap[j].buf1 <= x /\ x < Swap[j].buf1 + Swap[j].size
  BY <1>0, BufferIs, Geometry
<1>1. pc \in {"gap", "swapped", "rest", "thunk", "table"}
  BY TargetIs DEF TypeOK, HostSteps, ThunkSteps
<1>2. CASE pc = "gap"
  <2>1. i <= N /\ off < spl_len /\ CurAddr < Swap[i].buf1 /\ x \in Region(CurAddr, GapLength)
    BY <1>2, TargetIs
  <2>2. GapLength \in Nat /\ (\/ Swap[j].buf1 + Swap[j].size <= CurAddr
                              \/ CurAddr + GapLength <= Swap[j].buf1)
    BY <1>2, <2>1, GapPlace
  <2>3. CurAddr \in Nat /\ CurAddr <= x /\ x < CurAddr + GapLength
    BY <2>1, <2>2, Geometry, RegionIs
  <2> QED
    BY <1>x, <2>2, <2>3, Geometry
<1>3. CASE pc = "swapped"
  <2>1. i \in 1..N /\ off < spl_len /\ x \in Region(Swap[i].buf2, BackupLength)
    BY <1>3, TargetIs, Geometry DEF Position
  <2>2. BackupLength \in Nat /\ BackupLength <= Swap[i].size
    BY <2>1, Geometry DEF BackupLength, Smaller
  <2>3. x \in Buf2(soc, i)
    BY <1>0, <2>1, <2>2, RegionIs, BufferIs, Geometry
  <2> QED
    BY <1>0, <2>1, <2>3 DEF Places
<1>4. CASE pc = "rest"
  <2>1. x \in Region(CurAddr, spl_len - off)
    BY <1>4, TargetIs
  <2>2. CurAddr <= x /\ x < CurAddr + (spl_len - off)
    BY <2>1, Geometry, RegionIs
  <2>3. off < spl_len
    BY <1>x, <2>2, Geometry
  <2> QED
    BY <1>4, <1>x, <2>2, <2>3, RestPlace, Geometry
<1>5. CASE pc = "thunk"
  BY <1>0, <1>5, ThunkTarget DEF Places
<1>6. CASE pc = "table"
  <2>1. x \in Table
    BY <1>6, TargetIs
  <2>2. ttbr0 \in Nat /\ TtSize \in Nat
    BY HeaderAssumption, LayoutSizes DEF TypeOK, Addr
  <2>3. ttbr0 <= x /\ x < ttbr0 + TtSize
    BY <2>1, <2>2, RegionIs DEF Table
  <2>4. \/ ttbr0 + TtSize <= Swap[j].buf1
        \/ Swap[j].buf1 + Swap[j].size <= ttbr0
    <3>1. Entries(soc) = 1..N
      BY <1>0, LayoutFacts DEF Facts
    <3> QED
      BY <3>1 DEF MmuKept, TableApart, Apart, Swap
  <2> QED
    BY <1>x, <2>2, <2>3, <2>4, Geometry
<1> QED
  BY <1>1, <1>2, <1>3, <1>4, <1>5, <1>6


\* No step of the tool writes over words of the SPL uploaded before.
LEMMA TargetWords ==
  ASSUME TypeOK, Position, LimitKept, ThunkKept, pc \in Uploading, NEW k \in 0..(off - 1)
  PROVE  /\ SplAddr + k \notin Target
         /\ \A j \in 1..N : SplAddr + k \in Buf1(soc, j) =>
               Swap[j].buf2 + ((SplAddr + k) - Swap[j].buf1) \notin Target
<1>0. soc \in Socs /\ Places
  BY PlacesFacts DEF TypeOK
<1>k. k \in Nat /\ k < off /\ SplAddr + k \in Nat /\ SplAddr + k < CurAddr /\ SplAddr + k < SplAddr + spl_len
  BY Geometry
<1>b. ASSUME NEW j \in 1..N, SplAddr + k \in Buf1(soc, j)
      PROVE  /\ Swap[j].buf2 + ((SplAddr + k) - Swap[j].buf1) \in Buf2(soc, j)
             /\ Swap[j].buf1 <= SplAddr + k /\ SplAddr + k < Swap[j].buf1 + Swap[j].size
  <2>1. Swap[j].buf2 + ((SplAddr + k) - Swap[j].buf1) \in Buf2(soc, j)
    <3>1. \A a \in Buf1(soc, j) : Swap[j].buf2 + (a - Swap[j].buf1) \in Buf2(soc, j)
      BY <1>0 DEF Places
    <3> QED
      BY <1>b, <3>1, Zenon
  <2> QED
    BY <1>0, <1>b, <2>1, BufferIs
<1>1. CASE Target = {}
  BY <1>1
<1>2. CASE pc = "gap" /\ Target # {}
  <2>1. i <= N /\ off < spl_len /\ CurAddr < Swap[i].buf1 /\ Target = Region(CurAddr, GapLength)
    BY <1>2, TargetIs
  <2>2. i \in 1..N /\ GapLength \in Nat /\ CurAddr + GapLength <= Swap[i].buf1
    BY <1>2, <2>1, GapPlace
  <2>3. \A a : a \in Target <=> a \in Int /\ CurAddr <= a /\ a < CurAddr + GapLength
    BY <2>1, <2>2, RegionIs, Geometry
  <2>4. SplAddr + k \notin Target
    BY <1>k, <2>3, Geometry
  <2>5. ASSUME NEW j \in 1..N, SplAddr + k \in Buf1(soc, j)
        PROVE  Swap[j].buf2 + ((SplAddr + k) - Swap[j].buf1) \notin Target
    <3> DEFINE y == Swap[j].buf2 + ((SplAddr + k) - Swap[j].buf1)
    <3>1. y \in Buf2(soc, j)
      BY <1>b, <2>5
    <3> HIDE DEF y
    <3>2. y \in Int /\ Swap[j].buf2 <= y /\ y < Swap[j].buf2 + Swap[j].size
      BY <1>0, <3>1, BufferIs
    <3>3. y \notin Target
      BY <2>2, <2>3, <3>2, Geometry
    <3> QED
      BY <3>3 DEF y
  <2> QED
    BY <2>4, <2>5
<1>3. CASE pc = "swapped" /\ Target # {}
  <2>1. /\ i \in 1..N /\ off < spl_len /\ CurAddr = Swap[i].buf1
        /\ Target = Region(Swap[i].buf2, BackupLength)
    BY <1>3, TargetIs, Geometry DEF Position
  <2>2. BackupLength \in Nat /\ BackupLength <= Swap[i].size
    BY <2>1, Geometry DEF BackupLength, Smaller
  <2>3. \A a : a \in Target => a \in Buf2(soc, i)
    BY <1>0, <2>1, <2>2, RegionIs, BufferIs, Geometry
  <2>4. SplAddr + k \notin Buf2(soc, i)
    BY <1>0, <1>k, <2>1, BufferIs, Geometry
  <2>5. ASSUME NEW j \in 1..N, SplAddr + k \in Buf1(soc, j)
        PROVE  Swap[j].buf2 + ((SplAddr + k) - Swap[j].buf1) \notin Target
    <3>1. j # i
      BY <1>b, <1>k, <2>1, <2>5, Geometry
    <3> QED
      BY <1>0, <1>b, <2>1, <2>3, <2>5, <3>1 DEF Places
  <2> QED
    BY <2>3, <2>4, <2>5
<1>4. CASE pc = "rest"
  <2>1. \A a : a \in Target <=> a \in Int /\ CurAddr <= a /\ a < SplAddr + spl_len
    BY <1>4, TargetIs, RegionIs, Geometry
  <2>2. SplAddr + k \notin Target
    BY <1>k, <2>1, Geometry
  <2>3. ASSUME NEW j \in 1..N, SplAddr + k \in Buf1(soc, j)
        PROVE  Swap[j].buf2 + ((SplAddr + k) - Swap[j].buf1) \notin Target
    <3> DEFINE y == Swap[j].buf2 + ((SplAddr + k) - Swap[j].buf1)
    <3>1. y \in Buf2(soc, j)
      BY <1>b, <2>3
    <3> HIDE DEF y
    <3>2. y \in Int /\ Swap[j].buf2 <= y /\ y < Swap[j].buf2 + Swap[j].size
      BY <1>0, <3>1, BufferIs
    <3>3. \/ Swap[j].buf2 + Swap[j].size <= SplAddr
          \/ SplAddr + spl_len <= Swap[j].buf2
      BY <1>4, SplPlace DEF Accepted
    <3>4. y \notin Target
      BY <2>1, <3>2, <3>3, Geometry
    <3> QED
      BY <3>4 DEF y
  <2> QED
    BY <2>2, <2>3
<1>5. CASE pc = "thunk"
  <2>1. \A a : a \in Target => a \in Thunk(soc)
    BY <1>5, ThunkTarget
  <2>2. SplAddr + k \notin Thunk(soc)
    <3>1. \/ soc.thunk_addr + soc.thunk_size <= SplAddr
          \/ SplAddr + spl_len <= soc.thunk_addr
      BY <1>5, SplPlace DEF Accepted
    <3> QED
      BY <1>0, <1>k, <3>1, BufferIs, Geometry
  <2>3. ASSUME NEW j \in 1..N, SplAddr + k \in Buf1(soc, j)
        PROVE  Swap[j].buf2 + ((SplAddr + k) - Swap[j].buf1) \notin Target
    BY <1>0, <1>b, <2>1, <2>3 DEF Places
  <2> QED
    BY <2>1, <2>2, <2>3
<1>6. CASE pc = "fit"
  BY <1>1, <1>6, TargetIs
<1> QED
  BY <1>1, <1>2, <1>3, <1>4, <1>5, <1>6 DEF Uploading


-----------------------------------------------------------------------------
(* Memory, step by step.                                                   *)

\* The tool's steps start the thunk at the end; the thunk's steps are its
\* own, whatever happens to the tool.
LEMMA StepKind ==
  ASSUME TypeOK, Next
  PROVE  /\ soc' = soc /\ N' = N /\ Swap' = Swap /\ SplAddr' = SplAddr
         /\ pc \in HostSteps \cup ThunkSteps
         /\ pc \in HostSteps => pc' \in HostSteps \cup {"caches"}
         /\ pc' = "caches" => ExecThunk \/ UsbError
         /\ pc \in ThunkSteps =>
               \/ CheckCaches \/ SwapIn \/ VerifyChecksum \/ RunSpl \/ SwapOut
               \/ /\ UsbError
                  /\ UNCHANGED <<sram, pc, i, off, spl_len, mmu, icache, ran, booted, hacked>>
<1>1. ASSUME NEW file, NEW len, NEW magic, NEW aligned, NEW sum,
             CheckImage(file, len, magic, aligned, sum)
      PROVE  pc \in {"idle", "done"} /\ soc' = soc /\ pc' \in {"setup", "fatal"}
  BY <1>1 DEF CheckImage, Fatal
<1>2. CASE Setup \/ CheckSctlr \/ CheckMmu \/ DisableMmu \/ NewTable
  <2>1. /\ soc' = soc /\ pc \in {"setup", "sctlr", "mmuregs", "disable", "newtable"}
        /\ pc' \in {"sctlr", "fatal", "newtable", "mmuregs", "disable", "gap"}
    BY <1>2 DEF Setup, CheckSctlr, CheckMmu, DisableMmu, NewTable, Fatal
  <2> QED
    BY <2>1, SmallFacts DEF TypeOK, HostSteps, ThunkSteps
<1>3. CASE WriteGap \/ WriteSwapped \/ CheckLimit \/ WriteRest \/ CheckThunkSize
  <2>1. /\ soc' = soc /\ pc \in {"gap", "swapped", "rest", "fit"}
        /\ pc' \in {"swapped", "gap", "fatal", "rest", "fit", "thunk"}
    BY <1>3 DEF WriteGap, WriteSwapped, CheckLimit, WriteRest, CheckThunkSize, Fatal
  <2> QED
    BY <2>1, SmallFacts DEF TypeOK, HostSteps, ThunkSteps
<1>4. CASE ExecThunk
  <2>1. soc' = soc /\ pc = "thunk" /\ pc' = "caches"
    BY <1>4 DEF ExecThunk
  <2> QED
    BY <1>4, <2>1, SmallFacts DEF TypeOK, HostSteps, ThunkSteps
<1>5. CASE CheckCaches \/ SwapIn \/ VerifyChecksum \/ RunSpl \/ SwapOut
  <2>1. /\ soc' = soc /\ pc \in ThunkSteps
        /\ pc' \in {"result", "swapin", "checksum", "spl", "swapout"}
    BY <1>5 DEF CheckCaches, SwapIn, VerifyChecksum, RunSpl, SwapOut, ThunkSteps
  <2> QED
    BY <1>5, <2>1, SmallFacts DEF TypeOK, HostSteps, ThunkSteps
<1>6. CASE CheckSignature \/ WriteTable \/ EnableMmu \/ Restart
  <2>1. /\ soc' = soc /\ pc \in {"result", "table", "enable", "idle", "done", "fatal"}
        /\ pc' \in {"fatal", "table", "done", "enable", "idle"}
    BY <1>6 DEF CheckSignature, WriteTable, EnableMmu, Restart, Fatal
  <2> QED
    BY <2>1, SmallFacts DEF TypeOK, HostSteps, ThunkSteps
<1>7. CASE UsbError
  <2>1. UNCHANGED <<soc, pc, hacked, spl_len, off, i, mmu, icache, booted, ran>>
    BY <1>7 DEF UsbError
  <2>2. pc \in ThunkSteps => sram' = sram
    BY <1>7, TargetIs DEF UsbError
  <2> QED
    BY <1>7, <2>1, <2>2, SmallFacts DEF TypeOK, HostSteps, ThunkSteps
<1>8. CASE \E file, len \in 0..MaxFile, magic, aligned, sum \in BOOLEAN :
              (sum => len # 0) /\ CheckImage(file, len, magic, aligned, sum)
  <2>1. pc \in {"idle", "done"} /\ soc' = soc /\ pc' \in {"setup", "fatal"}
    BY <1>1, <1>8
  <2> QED
    BY <2>1, SmallFacts DEF TypeOK, HostSteps, ThunkSteps
<1> QED
  BY <1>2, <1>3, <1>4, <1>5, <1>6, <1>7, <1>8
  DEF Next, aw_backup_and_disable_mmu, Upload, ThunkStep, aw_restore_and_enable_mmu

LEMMA SwappedIs ==
  ASSUME NEW j
  PROVE  /\ pc \in HostSteps \cup {"caches"} => ~Swapped(j)
         /\ pc = "swapin" => (Swapped(j) <=> j < i)
         /\ pc \in {"checksum", "spl"} => Swapped(j)
         /\ pc = "swapout" => (Swapped(j) <=> j >= i)
  BY DEF Swapped, HostSteps

LEMMA BromNext ==
  TypeOK /\ Position /\ LimitKept /\ ThunkKept /\ MmuKept /\ BromKept /\ Next => BromKept'
<1> SUFFICES ASSUME TypeOK, Position, LimitKept, ThunkKept, MmuKept, BromKept, Next PROVE BromKept'
  OBVIOUS
<1>0. soc \in Socs /\ Places /\ N \in Nat /\ i \in 1..(N + 1) /\ sram \in [Addr -> Words]
  BY PlacesFacts, Geometry DEF TypeOK
<1>1. ASSUME NEW j \in 1..N, NEW x \in Buf1(soc, j), x \notin Scratch(soc)
      PROVE  sram'[IF Swapped(j)' THEN Swap[j].buf2 + (x - Swap[j].buf1) ELSE x] = Old(x)
  <2> DEFINE y == Swap[j].buf2 + (x - Swap[j].buf1)
  <2>1. sram[IF Swapped(j) THEN y ELSE x] = Old(x)
    BY <1>1 DEF BromKept
  <2>2. /\ x \in Addr /\ y \in Buf2(soc, j) /\ y \in Addr
        /\ \A k \in 1..N : x \notin Buf2(soc, k) /\ y \notin Buf1(soc, k)
        /\ \A k \in 1..N : k # j => x \notin Buf1(soc, k) /\ y \notin Buf2(soc, k)
        /\ x # SplAddr + SigWord /\ y # SplAddr + SigWord
    <3>1. y \in Buf2(soc, j)
      BY <1>0, <1>1, Zenon DEF Places
    <3> HIDE DEF y
    <3>2. x \in Addr /\ y \in Addr
      BY <1>0, <1>1, <3>1 DEF Places
    <3>3. \A k \in 1..N : x \notin Buf2(soc, k) /\ y \notin Buf1(soc, k)
      BY <1>0, <1>1, <3>1 DEF Places
    <3>4. \A k \in 1..N : k # j => x \notin Buf1(soc, k) /\ y \notin Buf2(soc, k)
      BY <1>0, <1>1, <3>1 DEF Places
    <3>5. x # SplAddr + SigWord /\ y # SplAddr + SigWord
      BY <1>0, <1>1, <3>1 DEF Places
    <3> QED
      BY <3>1, <3>2, <3>3, <3>4, <3>5
  <2>3. CASE pc \in HostSteps
    <3>1. ~Swapped(j)
      BY <2>3, SwappedIs
    <3>2. ~Swapped(j)'
      BY <2>3, StepKind, SwappedIs DEF Swapped, HostSteps
    <3>3. sram'[x] = sram[x]
      BY <1>1, <2>2, <2>3, Frame, TargetBrom
    <3> QED
      BY <2>1, <3>1, <3>2, <3>3
  <2>4. CASE CheckCaches
    <3>1. ~Swapped(j)
      BY <2>4, SwappedIs DEF CheckCaches
    <3>2. ~Swapped(j)'
      BY <1>0, <2>4 DEF Swapped, CheckCaches
    <3>3. sram'[x] = sram[x]
      BY <1>0, <2>2, <2>4 DEF CheckCaches, SetSig
    <3> QED
      BY <2>1, <3>1, <3>2, <3>3
  <2>5. CASE SwapIn
    <3>1. CASE i <= N
      <4>1. SwapBuffer /\ i' = i + 1 /\ pc = "swapin" /\ pc' = "swapin" /\ i \in 1..N
        BY <1>0, <2>5, <3>1 DEF SwapIn
      <4>2. (Swapped(j) <=> j < i) /\ (Swapped(j)' <=> j < i + 1)
        BY <4>1 DEF Swapped
      <4>3. CASE j = i
        <5>1. sram'[y] = sram[x]
          BY <1>1, <4>1, <4>3, SwapEffect
        <5> QED
          BY <1>0, <2>1, <4>1, <4>2, <4>3, <5>1
      <4>4. CASE j # i
        <5>1. sram'[x] = sram[x] /\ sram'[y] = sram[y]
          BY <2>2, <4>1, <4>4, SwapEffect
        <5>2. Swapped(j) <=> Swapped(j)'
          BY <1>0, <4>1, <4>2, <4>4
        <5> QED
          BY <2>1, <5>1, <5>2
      <4> QED
        BY <4>3, <4>4
    <3>2. CASE ~(i <= N)
      <4>1. sram' = sram /\ pc = "swapin" /\ pc' = "checksum" /\ j < i
        BY <1>0, <2>5, <3>2 DEF SwapIn
      <4> QED
        BY <2>1, <4>1 DEF Swapped
    <3> QED
      BY <3>1, <3>2
  <2>6. CASE VerifyChecksum
    <3>1. Swapped(j)
      BY <2>6, SwappedIs DEF VerifyChecksum
    <3>2. Swapped(j)'
      BY <1>0, <2>6 DEF Swapped, VerifyChecksum
    <3>3. sram'[y] = sram[y]
      BY <1>0, <2>2, <2>6 DEF VerifyChecksum, SetSig
    <3> QED
      BY <2>1, <3>1, <3>2, <3>3
  <2>7. CASE RunSpl
    <3>1. Swapped(j)
      BY <2>7, SwappedIs DEF RunSpl
    <3>2. Swapped(j)'
      BY <1>0, <2>7 DEF Swapped, RunSpl, Position
    <3>3. y \notin SplMayWrite
      <4>1. Entries(soc) = 1..N
        BY <1>0, LayoutFacts DEF Facts
      <4> QED
        BY <2>2, <4>1 DEF SplMayWrite
    <3>4. sram'[y] = sram[y]
      BY <2>2, <2>7, <3>3 DEF RunSpl, Write
    <3> QED
      BY <2>1, <3>1, <3>2, <3>4
  <2>8. CASE SwapOut
    <3>1. CASE i <= N
      <4>1. SwapBuffer /\ i' = i + 1 /\ pc = "swapout" /\ pc' = "swapout" /\ i \in 1..N
        BY <1>0, <2>8, <3>1 DEF SwapOut
      <4>2. (Swapped(j) <=> j >= i) /\ (Swapped(j)' <=> j >= i + 1)
        BY <4>1 DEF Swapped
      <4>3. CASE j = i
        <5>1. sram'[x] = sram[y]
          BY <1>1, <4>1, <4>3, SwapEffect
        <5> QED
          BY <1>0, <2>1, <4>1, <4>2, <4>3, <5>1
      <4>4. CASE j # i
        <5>1. sram'[x] = sram[x] /\ sram'[y] = sram[y]
          BY <2>2, <4>1, <4>4, SwapEffect
        <5>2. Swapped(j) <=> Swapped(j)'
          BY <1>0, <4>1, <4>2, <4>4
        <5> QED
          BY <2>1, <5>1, <5>2
      <4> QED
        BY <4>3, <4>4
    <3>2. CASE ~(i <= N)
      <4>1. sram' = sram /\ pc = "swapout" /\ pc' = "result" /\ ~(j >= i)
        BY <1>0, <2>8, <3>2 DEF SwapOut
      <4> QED
        BY <2>1, <4>1 DEF Swapped
    <3> QED
      BY <3>1, <3>2
  <2>9. CASE UNCHANGED <<sram, pc, i>>
    BY <2>1, <2>9 DEF Swapped
  <2> QED
    BY <2>3, <2>4, <2>5, <2>6, <2>7, <2>8, <2>9, StepKind
<1> QED
  BY <1>1, StepKind DEF BromKept


LEMMA UploadKind ==
  ASSUME TypeOK, Position, Next, pc' \in Uploading \cup Uploaded
  PROVE  \/ off' = 0
         \/ pc \in Uploading /\ (WriteGap \/ WriteSwapped \/ WriteRest \/ off' = off)
         \/ pc \in ThunkSteps
<1>1. ASSUME NEW file, NEW len, NEW magic, NEW aligned, NEW sum,
             CheckImage(file, len, magic, aligned, sum)
      PROVE  FALSE
  BY <1>1 DEF CheckImage, Fatal, Uploading, Uploaded
<1>2. CASE Setup \/ CheckSctlr \/ CheckMmu \/ CheckSignature \/ WriteTable \/ EnableMmu \/ Restart
  BY <1>2 DEF Setup, CheckSctlr, CheckMmu, CheckSignature, WriteTable, EnableMmu, Restart, Fatal,
              Uploading, Uploaded
<1>3. CASE DisableMmu \/ NewTable
  BY <1>3 DEF DisableMmu, NewTable, Position
<1>4. CASE WriteGap \/ WriteSwapped \/ WriteRest
  BY <1>4 DEF WriteGap, WriteSwapped, WriteRest, Uploading
<1>5. CASE CheckLimit \/ CheckThunkSize \/ ExecThunk
  BY <1>5 DEF CheckLimit, CheckThunkSize, ExecThunk, Fatal, Uploading, Uploaded
<1>6. CASE CheckCaches \/ SwapIn \/ VerifyChecksum \/ RunSpl \/ SwapOut
  BY <1>6 DEF CheckCaches, SwapIn, VerifyChecksum, RunSpl, SwapOut, ThunkSteps
<1>7. CASE UsbError
  BY <1>7 DEF UsbError, Uploading, Uploaded, ThunkSteps
<1> QED
  BY <1>1, <1>2, <1>3, <1>4, <1>5, <1>6, <1>7
  DEF Next, aw_backup_and_disable_mmu, Upload, ThunkStep, aw_restore_and_enable_mmu

\* What a Send adds.
LEMMA SendEffect ==
  ASSUME TypeOK, NEW to \in Nat, NEW n \in Nat, Send(to, n), to + n <= MaxAddr + 1,
         NEW k \in off..(off + n - 1)
  PROVE  sram'[to + (k - off)] = SplWord(k)
<1>1. off \in Nat /\ MaxAddr \in Nat
  BY Geometry, HeaderAssumption
<1>2. to + (k - off) \in Region(to, n) /\ to + (k - off) \in Addr
  BY <1>1 DEF Region, Addr
<1>3. off + ((to + (k - off)) - to) = k
  BY <1>1
<1> QED
  BY <1>2, <1>3 DEF Send

LEMMA WordsNext ==
  TypeOK /\ Position /\ LimitKept /\ ThunkKept /\ WordsKept /\ Next => WordsKept'
<1> SUFFICES ASSUME TypeOK, Position, LimitKept, ThunkKept, WordsKept, Next,
                    pc' \in Uploading \cup Uploaded
             PROVE  /\ SplAddr + off' <= MaxAddr + 1
                    /\ \A k \in 0..(off' - 1) :
                          /\ (\A j \in 1..N : SplAddr + k \notin Buf1(soc, j)) =>
                                sram'[SplAddr + k] = SplWord(k)
                          /\ \A j \in 1..N : SplAddr + k \in Buf1(soc, j) =>
                                sram'[IF Swapped(j)' THEN SplAddr + k
                                      ELSE Swap[j].buf2 + ((SplAddr + k) - Swap[j].buf1)] = SplWord(k)
  BY StepKind DEF WordsKept
<1>0. /\ soc \in Socs /\ Places /\ N \in Nat /\ i \in 1..(N + 1) /\ sram \in [Addr -> Words]
      /\ SplAddr \in Nat /\ off \in Nat /\ spl_len \in Nat /\ off <= spl_len /\ CurAddr = SplAddr + off
      /\ MaxAddr \in Nat
  <2>1. soc \in Socs /\ i \in 1..(N + 1) /\ sram \in [Addr -> Words]
    BY DEF TypeOK
  <2>2. SplAddr \in Nat /\ off \in Nat /\ spl_len \in Nat /\ off <= spl_len /\ CurAddr = SplAddr + off
    BY Geometry
  <2> QED
    BY <2>1, <2>2, PlacesFacts, SmallFacts, Zenon
<1>m. /\ Buf1End(soc) <= MaxAddr + 1 /\ SplAddr + soc.sram_size <= MaxAddr + 1
      /\ soc.sram_size \in Nat /\ SplAddr <= MaxAddr + 1 /\ Buf1End(soc) \in Nat
  <2>1. /\ Buf1End(soc) <= SplAddr + soc.sram_size /\ SplAddr + soc.sram_size <= MaxAddr + 1
        /\ soc.sram_size \in Nat /\ Buf1End(soc) \in Nat
    <3>1. Facts
      BY <1>0, LayoutFacts, Zenon
    <3> QED
      BY <3>1, Zenon DEF Facts
  <2> QED
    BY <1>0, <2>1
<1>y. \A j \in 1..N : \A a \in Buf1(soc, j) :
         /\ Swap[j].buf2 + (a - Swap[j].buf1) \in Buf2(soc, j)
         /\ Swap[j].buf2 + (a - Swap[j].buf1) \in Addr
  <2>1. ASSUME NEW j \in 1..N, NEW a \in Buf1(soc, j)
        PROVE  Swap[j].buf2 + (a - Swap[j].buf1) \in Buf2(soc, j)
    BY <1>0 DEF Places
  <2>2. \A j \in 1..N : \A a \in Buf2(soc, j) : a \in Addr
    BY <1>0 DEF Places
  <2> QED
    BY <2>1, <2>2, Zenon
<1>1. CASE off' = 0
  BY <1>0, <1>1, <1>m
<1>2. CASE pc \in Uploading
  <2>0. pc \in HostSteps
    BY <1>2 DEF Uploading, HostSteps
  <2>1. \A j : ~Swapped(j) /\ ~Swapped(j)'
    <3>1. pc' \in HostSteps \cup {"caches"}
      BY <2>0, StepKind
    <3> QED
      BY <2>0, <3>1 DEF Swapped, HostSteps
  \* Words uploaded before.
  <2>2. ASSUME NEW k \in 0..(off - 1)
        PROVE  /\ (\A j \in 1..N : SplAddr + k \notin Buf1(soc, j)) => sram'[SplAddr + k] = SplWord(k)
               /\ \A j \in 1..N : SplAddr + k \in Buf1(soc, j) =>
                     sram'[Swap[j].buf2 + ((SplAddr + k) - Swap[j].buf1)] = SplWord(k)
    <3>1. ASSUME \A j \in 1..N : SplAddr + k \notin Buf1(soc, j)
          PROVE  sram'[SplAddr + k] = SplWord(k)
      <4>1. sram[SplAddr + k] = SplWord(k)
        BY <1>2, <2>2, <3>1 DEF WordsKept
      <4>2. SplAddr + off <= MaxAddr + 1
        BY <1>2 DEF WordsKept
      <4>3. SplAddr + k \in Addr
        BY <1>0, <4>2 DEF Addr
      <4>4. SplAddr + k \notin Target
        BY <1>2, <2>2, TargetWords
      <4> QED
        BY <2>0, <4>1, <4>3, <4>4, Frame
    <3>2. ASSUME NEW j \in 1..N, SplAddr + k \in Buf1(soc, j)
          PROVE  sram'[Swap[j].buf2 + ((SplAddr + k) - Swap[j].buf1)] = SplWord(k)
      <4> DEFINE y == Swap[j].buf2 + ((SplAddr + k) - Swap[j].buf1)
      <4>1. sram[y] = SplWord(k)
        BY <1>2, <2>1, <2>2, <3>2 DEF WordsKept
      <4>2. y \in Addr
        BY <1>y, <3>2, Zenon
      <4>3. y \notin Target
        BY <1>2, <2>2, <3>2, TargetWords
      <4> QED
        BY <2>0, <4>1, <4>2, <4>3, Frame
    <3> QED
      BY <3>1, <3>2
  \* Words uploaded by this step.
  <2>3. CASE off' = off
    BY <1>2, <2>1, <2>2, <2>3 DEF WordsKept
  <2>4. CASE WriteGap /\ off' # off
    <3>1. /\ pc = "gap" /\ i <= N /\ off < spl_len /\ CurAddr < Swap[i].buf1
          /\ Send(CurAddr, GapLength)
      BY <2>4 DEF WriteGap, GapLength
    <3>2. /\ i \in 1..N /\ GapLength \in Nat /\ CurAddr + GapLength <= Swap[i].buf1
          /\ \A j \in 1..N : \/ Swap[j].buf1 + Swap[j].size <= CurAddr
                             \/ CurAddr + GapLength <= Swap[j].buf1
      BY <3>1, GapPlace
    <3>3. CurAddr + GapLength <= MaxAddr + 1
      BY <1>0, <1>m, <3>2, Geometry
    <3>4. off' = off + GapLength
      BY <3>1 DEF Send
    <3>5. ASSUME NEW k \in off..(off + GapLength - 1) PROVE sram'[SplAddr + k] = SplWord(k)
      <4>1. sram'[CurAddr + (k - off)] = SplWord(k)
        BY <1>0, <3>1, <3>2, <3>3, SendEffect
      <4>2. CurAddr + (k - off) = SplAddr + k
        BY <1>0, <3>2
      <4> QED
        BY <4>1, <4>2
    <3>6. ASSUME NEW k \in off..(off + GapLength - 1), NEW j \in 1..N PROVE SplAddr + k \notin Buf1(soc, j)
      BY <1>0, <3>2, BufferIs, Geometry
    <3>7. \A k \in 0..(off' - 1) : k \in 0..(off - 1) \/ k \in off..(off + GapLength - 1)
      BY <1>0, <3>2, <3>4
    <3>8. SplAddr + off' <= MaxAddr + 1
      BY <1>0, <3>2, <3>3, <3>4
    <3> QED
      BY <2>1, <2>2, <3>5, <3>6, <3>7, <3>8
  <2>5. CASE WriteSwapped /\ off' # off
    <3>1. /\ i \in 1..N /\ off < spl_len /\ CurAddr = Swap[i].buf1
          /\ Send(Swap[i].buf2, BackupLength)
      BY <1>0, <2>5 DEF WriteSwapped, BackupLength, Backup, Position
    <3>2. BackupLength \in Nat /\ BackupLength <= Swap[i].size
      BY <3>1, Geometry DEF BackupLength, Smaller
    <3>3. Swap[i].buf2 + BackupLength <= MaxAddr + 1 /\ Swap[i].buf2 \in Nat
      <4>1. Swap[i].buf2 + Swap[i].size <= MaxAddr + 1
        BY <1>0, <3>1, LayoutFacts DEF Facts
      <4> QED
        BY <1>0, <3>1, <3>2, <4>1, Geometry
    <3>4. off' = off + BackupLength
      BY <3>1 DEF Send
    <3>5. ASSUME NEW k \in off..(off + BackupLength - 1)
          PROVE  /\ sram'[Swap[i].buf2 + ((SplAddr + k) - Swap[i].buf1)] = SplWord(k)
                 /\ SplAddr + k \in Buf1(soc, i)
                 /\ \A j \in 1..N : SplAddr + k \in Buf1(soc, j) => j = i
      <4>1. sram'[Swap[i].buf2 + (k - off)] = SplWord(k)
        BY <1>0, <3>1, <3>2, <3>3, SendEffect
      <4>2. (SplAddr + k) - Swap[i].buf1 = k - off
        BY <1>0, <3>1, <3>2
      <4>3. SplAddr + k \in Buf1(soc, i)
        <5>1. Swap[i].buf1 \in Nat /\ Swap[i].size \in Nat
          BY <3>1, Geometry
        <5>2. SplAddr + k \in Int /\ Swap[i].buf1 <= SplAddr + k /\ SplAddr + k < Swap[i].buf1 + Swap[i].size
          BY <1>0, <3>1, <3>2, <5>1
        <5> QED
          BY <1>0, <3>1, <5>2, BufferIs
      <4>4. \A j \in 1..N : SplAddr + k \in Buf1(soc, j) => j = i
        BY <1>0, <3>1, <4>3 DEF Places
      <4> QED
        BY <4>1, <4>2, <4>3, <4>4
    <3>6. \A k \in 0..(off' - 1) : k \in 0..(off - 1) \/ k \in off..(off + BackupLength - 1)
      BY <1>0, <3>2, <3>4
    <3>7. SplAddr + off' <= MaxAddr + 1
      BY <1>0, <1>m, <3>1, <3>2, <3>4, Geometry
    <3> QED
      BY <2>1, <2>2, <3>1, <3>5, <3>6, <3>7
  <2>6. CASE WriteRest /\ off' # off
    <3>1. pc = "rest" /\ off < spl_len /\ Send(CurAddr, spl_len - off)
      BY <1>0, <2>6 DEF WriteRest
    <3>2. \A j \in 1..N : Swap[j].buf1 + Swap[j].size <= CurAddr
      BY <3>1, RestPlace
    <3>3. SplAddr + spl_len <= MaxAddr + 1
      <4>1. spl_len <= soc.sram_size
        BY <3>1 DEF LimitKept, Accepted
      <4> QED
        BY <1>0, <1>m, <4>1
    <3>4. off' = spl_len
      BY <1>0, <3>1 DEF Send
    <3>5. ASSUME NEW k \in off..(spl_len - 1) PROVE sram'[SplAddr + k] = SplWord(k)
      <4>1. sram'[CurAddr + (k - off)] = SplWord(k)
        <5>1. /\ CurAddr \in Nat /\ spl_len - off \in Nat /\ CurAddr + (spl_len - off) <= MaxAddr + 1
              /\ k \in off..(off + (spl_len - off) - 1)
          BY <1>0, <3>1, <3>3
        <5> QED
          BY <3>1, <5>1, SendEffect
      <4>2. CurAddr + (k - off) = SplAddr + k
        BY <1>0
      <4> QED
        BY <4>1, <4>2
    <3>6. ASSUME NEW k \in off..(spl_len - 1), NEW j \in 1..N PROVE SplAddr + k \notin Buf1(soc, j)
      BY <1>0, <3>2, BufferIs, Geometry
    <3>7. \A k \in 0..(off' - 1) : k \in 0..(off - 1) \/ k \in off..(spl_len - 1)
      BY <1>0, <3>4
    <3>8. SplAddr + off' <= MaxAddr + 1
      BY <3>3, <3>4
    <3> QED
      BY <2>1, <2>2, <3>5, <3>6, <3>7, <3>8
  <2> QED
    BY <1>1, <1>2, <2>3, <2>4, <2>5, <2>6, UploadKind DEF Uploading, ThunkSteps
<1>3. CASE pc \in ThunkSteps
  <2>1. CASE UNCHANGED <<sram, pc, i, off>>
    <3>1. \A j : Swapped(j)' <=> Swapped(j)
      BY <2>1 DEF Swapped
    <3> QED
      BY <2>1, <3>1 DEF WordsKept
  <2>2. CASE CheckCaches
    <3>1. UNCHANGED <<sram, off>> /\ pc = "caches" /\ pc' = "swapin" /\ i' = 1
      BY <2>2 DEF CheckCaches, host, Uploading, Uploaded
    <3>2. \A j \in 1..N : ~Swapped(j) /\ ~Swapped(j)'
      BY <1>0, <3>1 DEF Swapped
    <3> QED
      BY <3>1, <3>2 DEF WordsKept, Uploaded
  <2>3. CASE SwapIn /\ ~(i <= N)
    <3>1. UNCHANGED <<sram, off>> /\ pc = "swapin" /\ pc' = "checksum" /\ i = N + 1
      BY <1>0, <2>3 DEF SwapIn, host
    <3>2. \A j \in 1..N : Swapped(j) /\ Swapped(j)'
      BY <1>0, <3>1 DEF Swapped
    <3> QED
      BY <3>1, <3>2 DEF WordsKept, Uploaded
  <2>4. CASE SwapIn /\ i <= N
    <3>1. SwapBuffer /\ i' = i + 1 /\ pc = "swapin" /\ pc' = "swapin" /\ i \in 1..N /\ off' = off
      BY <1>0, <2>4 DEF SwapIn, host
    <3>2. \A j : (Swapped(j) <=> j < i) /\ (Swapped(j)' <=> j < i + 1)
      BY <3>1 DEF Swapped
    <3>3. off = spl_len /\ SplAddr + off <= MaxAddr + 1
      BY <3>1 DEF Position, WordsKept, Uploaded
    <3>4. ASSUME NEW k \in 0..(off - 1), \A j \in 1..N : SplAddr + k \notin Buf1(soc, j)
          PROVE  sram'[SplAddr + k] = SplWord(k)
      <4>1. sram[SplAddr + k] = SplWord(k)
        BY <3>1, <3>4 DEF WordsKept, Uploaded
      <4>2. SplAddr + k \in Addr
        BY <1>0, <3>3 DEF Addr
      <4>3. SplAddr + k \notin Buf2(soc, i)
        <5>1. \/ Swap[i].buf2 + Swap[i].size <= SplAddr
              \/ SplAddr + spl_len <= Swap[i].buf2
          BY <3>1, SplPlace DEF Accepted
        <5> QED
          BY <1>0, <3>1, <3>3, <5>1, BufferIs, Geometry
      <4> QED
        BY <3>1, <3>4, <4>1, <4>2, <4>3, SwapEffect
    <3>5. ASSUME NEW k \in 0..(off - 1), NEW j \in 1..N, SplAddr + k \in Buf1(soc, j)
          PROVE  sram'[IF Swapped(j)' THEN SplAddr + k
                       ELSE Swap[j].buf2 + ((SplAddr + k) - Swap[j].buf1)] = SplWord(k)
      <4> DEFINE x == SplAddr + k
                 y == Swap[j].buf2 + (x - Swap[j].buf1)
      <4>1. sram[IF Swapped(j) THEN x ELSE y] = SplWord(k)
        BY <3>1, <3>5 DEF WordsKept, Uploaded
      <4>2. x \in Buf1(soc, j)
        BY <3>5
      <4>3. y \in Buf2(soc, j) /\ y \in Addr
        BY <1>y, <4>2, Zenon
      <4> HIDE DEF x
      <4>4. CASE j = i
        <5>1. sram'[x] = sram[Swap[i].buf2 + (x - Swap[i].buf1)]
          BY <3>1, <4>2, <4>4, SwapEffect
        <5>2. ~Swapped(j) /\ Swapped(j)'
          BY <1>0, <3>1, <3>2, <4>4
        <5> QED
          BY <4>1, <4>4, <5>1, <5>2 DEF x
      <4> HIDE DEF y
      <4>5. CASE j # i
        <5>1. x \in Addr /\ x \notin Buf1(soc, i) /\ x \notin Buf2(soc, i)
          BY <1>0, <3>1, <4>2, <4>5 DEF Places
        <5>2. y \notin Buf1(soc, i) /\ y \notin Buf2(soc, i)
          BY <1>0, <3>1, <4>3, <4>5 DEF Places
        <5>3. sram'[x] = sram[x] /\ sram'[y] = sram[y]
          BY <3>1, <4>3, <5>1, <5>2, SwapEffect
        <5>4. Swapped(j) <=> Swapped(j)'
          BY <1>0, <3>1, <3>2, <4>5
        <5> QED
          BY <4>1, <5>3, <5>4 DEF x, y
      <4> QED
        BY <4>4, <4>5
    <3> QED
      BY <3>1, <3>3, <3>4, <3>5
  <2>5. ~(VerifyChecksum \/ RunSpl \/ SwapOut)
    BY DEF VerifyChecksum, RunSpl, SwapOut, Uploading, Uploaded
  <2> QED
    BY <1>3, <2>1, <2>2, <2>3, <2>4, <2>5, StepKind
<1> QED
  BY <1>1, <1>2, <1>3, UploadKind


\* The words of the thunk lie in its place.
LEMMA ThunkWords ==
  ASSUME TypeOK, ThunkLen(soc) <= soc.thunk_size, NEW k \in 0..(ThunkLen(soc) - 1)
  PROVE  soc.thunk_addr + k \in Thunk(soc) /\ soc.thunk_addr + k \in Region(soc.thunk_addr, ThunkLen(soc))
<1>1. soc.thunk_addr + k \in Int /\ soc.thunk_addr <= soc.thunk_addr + k
      /\ soc.thunk_addr + k < soc.thunk_addr + soc.thunk_size
      /\ soc.thunk_addr + k < soc.thunk_addr + ThunkLen(soc)
  BY Geometry
<1> QED
  BY <1>1, RegionIs, Geometry DEF Thunk

LEMMA ThunkNext == TypeOK /\ Position /\ ThunkKept /\ Next => ThunkKept'
<1> SUFFICES ASSUME TypeOK, Position, ThunkKept, Next PROVE ThunkKept'
  OBVIOUS
<1>0. /\ soc \in Socs /\ Places /\ N \in Nat /\ i \in 1..(N + 1) /\ sram \in [Addr -> Words]
      /\ soc' = soc
  BY PlacesFacts, Geometry, StepKind DEF TypeOK
<1>1. ASSUME pc' \in {"thunk"} \cup ThunkSteps PROVE ThunkLen(soc) <= soc.thunk_size
  <2>1. CASE pc \in {"thunk"} \cup ThunkSteps
    BY <2>1 DEF ThunkKept
  <2>2. CASE CheckThunkSize
    BY <1>1, <2>2, Geometry DEF CheckThunkSize, Fatal, ThunkSteps
  <2>3. CASE pc \notin {"thunk"} \cup ThunkSteps /\ ~CheckThunkSize
    <3>1. pc' # "caches"
      <4>1. ~ExecThunk
        BY <2>3 DEF ExecThunk
      <4>2. UsbError => pc' = pc
        BY DEF UsbError
      <4> QED
        BY <2>3, <4>1, <4>2, StepKind DEF ThunkSteps
    <3>2. pc \in HostSteps /\ pc' = "thunk"
      BY <1>1, <2>3, <3>1, StepKind DEF HostSteps, ThunkSteps
    <3>3. \A file, len, magic, aligned, sum : ~CheckImage(file, len, magic, aligned, sum)
      BY <3>2 DEF CheckImage, Fatal
    <3>4. ~(Setup \/ CheckSctlr \/ CheckMmu \/ DisableMmu \/ NewTable)
      BY <3>2 DEF Setup, CheckSctlr, CheckMmu, DisableMmu, NewTable, Fatal
    <3>5. ~(WriteGap \/ WriteSwapped \/ CheckLimit \/ WriteRest \/ ExecThunk)
      BY <3>2 DEF WriteGap, WriteSwapped, CheckLimit, WriteRest, ExecThunk, Fatal
    <3>6. ~(CheckCaches \/ SwapIn \/ VerifyChecksum \/ RunSpl \/ SwapOut)
      BY <3>2 DEF HostSteps, CheckCaches, SwapIn, VerifyChecksum, RunSpl, SwapOut
    <3>7. ~(CheckSignature \/ WriteTable \/ EnableMmu \/ Restart)
      BY <3>2 DEF CheckSignature, WriteTable, EnableMmu, Restart, Fatal
    <3>8. ~UsbError
      BY <2>3, <3>2 DEF UsbError
    <3> QED
      BY <2>3, <3>3, <3>4, <3>5, <3>6, <3>7, <3>8
      DEF Next, aw_backup_and_disable_mmu, Upload, ThunkStep, aw_restore_and_enable_mmu
  <2> QED
    BY <2>1, <2>2, <2>3
<1>2. ASSUME pc' \in ThunkSteps, NEW k \in 0..(ThunkLen(soc) - 1)
      PROVE  sram'[soc.thunk_addr + k] = ThunkWord(k)
  <2> DEFINE t == soc.thunk_addr + k
  <2>1. t \in Thunk(soc) /\ t \in Region(soc.thunk_addr, ThunkLen(soc))
    BY <1>1, <1>2, ThunkWords
  <2> HIDE DEF t
  <2>2. /\ t \in Addr /\ t # SplAddr + SigWord
        /\ \A j \in 1..N : t \notin Buf1(soc, j) /\ t \notin Buf2(soc, j)
    BY <1>0, <2>1 DEF Places
  <2>3. pc \in ThunkSteps => sram[t] = ThunkWord(k)
    BY <1>2 DEF ThunkKept, ThunkIntact, t
  <2>4. CASE pc \in HostSteps
    <3>1. pc' = "caches"
      BY <1>2, <2>4, StepKind DEF HostSteps, ThunkSteps
    <3>2. ExecThunk
      BY <2>4, <3>1, StepKind DEF UsbError, HostSteps
    <3>3. sram'[t] = ToThunk(t)
      BY <2>1, <2>2, <3>2 DEF ExecThunk, Write
    <3>4. t - soc.thunk_addr = k
      BY Geometry DEF t
    <3> QED
      BY <3>3, <3>4 DEF ToThunk, t
  <2>5. CASE pc \in ThunkSteps /\ sram'[t] = sram[t]
    BY <2>3, <2>5 DEF t
  <2>6. CASE CheckCaches
    <3>1. sram'[t] = sram[t]
      BY <1>0, <2>2, <2>6 DEF CheckCaches, SetSig
    <3> QED
      BY <2>5, <2>6, <3>1 DEF CheckCaches, ThunkSteps
  <2>7. CASE SwapIn \/ SwapOut
    <3>1. sram'[t] = sram[t]
      <4>1. CASE i <= N
        <5>1. SwapBuffer /\ i \in 1..N
          BY <1>0, <2>7, <4>1 DEF SwapIn, SwapOut
        <5> QED
          BY <2>2, <5>1, SwapEffect
      <4>2. CASE ~(i <= N)
        BY <2>7, <4>2 DEF SwapIn, SwapOut
      <4> QED
        BY <4>1, <4>2
    <3> QED
      BY <2>5, <2>7, <3>1 DEF SwapIn, SwapOut, ThunkSteps
  <2>8. CASE VerifyChecksum
    <3>1. sram'[t] = sram[t]
      BY <1>0, <2>2, <2>8 DEF VerifyChecksum, SetSig
    <3> QED
      BY <2>5, <2>8, <3>1 DEF VerifyChecksum, ThunkSteps
  <2>9. CASE RunSpl
    <3>1. t \notin SplMayWrite
      BY <2>1 DEF SplMayWrite
    <3>2. sram'[t] = sram[t]
      BY <2>2, <2>9, <3>1 DEF RunSpl, Write
    <3> QED
      BY <2>5, <2>9, <3>2 DEF RunSpl, ThunkSteps
  <2> QED
    BY <2>4, <2>5, <2>6, <2>7, <2>8, <2>9, StepKind
<1> QED
  BY <1>0, <1>1, <1>2 DEF ThunkKept, ThunkIntact

\* What WordsKept says once all buffers are swapped.
LEMMA AllInPlace ==
  ASSUME TypeOK, Position, WordsKept, pc = "checksum"
  PROVE  InPlace
<1> SUFFICES ASSUME NEW k \in 0..(spl_len - 1) PROVE sram[SplAddr + k] = SplWord(k)
  BY DEF InPlace
<1>1. off = spl_len
  BY DEF Position, Uploaded
<1>2. CASE \A j \in 1..N : SplAddr + k \notin Buf1(soc, j)
  BY <1>1, <1>2 DEF WordsKept, Uploaded
<1>3. ASSUME NEW j \in 1..N, SplAddr + k \in Buf1(soc, j) PROVE sram[SplAddr + k] = SplWord(k)
  <2>1. Swapped(j)
    BY SwappedIs
  <2> QED
    BY <1>1, <1>3, <2>1 DEF WordsKept, Uploaded
<1> QED
  BY <1>2, <1>3

LEMMA SplNext == TypeOK /\ Position /\ WordsKept /\ SplComplete /\ Next => SplComplete'
<1> SUFFICES ASSUME TypeOK, Position, WordsKept, SplComplete, Next, pc' = "spl"
             PROVE  \A k \in 0..(spl_len' - 1) :
                       sram'[SplAddr + k] = IF k = SigWord THEN Sig("FEL") ELSE SplWord(k)
  BY StepKind DEF SplComplete
<1>0. /\ sram \in [Addr -> Words] /\ SplAddr + SigWord \in Addr /\ SplAddr \in Nat
      /\ SigWord \in Nat /\ spl_len \in Nat
  BY PlacesFacts, Geometry, LayoutFacts DEF TypeOK, Places, Facts
<1>1. pc \in ThunkSteps
  BY StepKind DEF HostSteps, ThunkSteps
<1>2. CASE UNCHANGED <<sram, pc, spl_len>>
  BY <1>2 DEF SplComplete
<1>3. CASE VerifyChecksum
  <2>1. spl_len' = spl_len /\ pc = "checksum" /\ SetSig("FEL")
    BY <1>3 DEF VerifyChecksum, host
  <2>2. InPlace
    BY <2>1, AllInPlace
  <2>3. ASSUME NEW k \in 0..(spl_len - 1)
        PROVE  sram'[SplAddr + k] = IF k = SigWord THEN Sig("FEL") ELSE SplWord(k)
    <3>1. CASE k = SigWord
      BY <1>0, <2>1, <3>1 DEF SetSig
    <3>2. CASE k # SigWord
      <4>1. SplAddr + k # SplAddr + SigWord
        BY <1>0, <3>2
      <4>2. SplAddr + k \in Addr
        <5>1. off = spl_len /\ SplAddr + off <= MaxAddr + 1 /\ MaxAddr \in Nat
          BY <2>1, HeaderAssumption DEF Position, WordsKept, Uploaded
        <5> QED
          BY <1>0, <5>1 DEF Addr
      <4>3. sram'[SplAddr + k] = sram[SplAddr + k]
        BY <1>0, <2>1, <4>1, <4>2 DEF SetSig
      <4> QED
        BY <2>2, <3>2, <4>3 DEF InPlace
    <3> QED
      BY <3>1, <3>2
  <2> QED
    BY <2>1, <2>3
<1>4. ~(CheckCaches \/ SwapIn \/ RunSpl \/ SwapOut)
  BY DEF CheckCaches, SwapIn, RunSpl, SwapOut
<1> QED
  BY <1>1, <1>2, <1>3, <1>4, StepKind


-----------------------------------------------------------------------------
(* The thunk's verdict.                                                    *)

LEMMA RanKept ==
  ASSUME TypeOK, Next
  PROVE  /\ ran' = ran \/ ran' = FALSE \/ RunSpl
         /\ ran' # ran => pc' \in {"setup", "fatal"} \/ RunSpl
<1>1. ASSUME NEW file, NEW len, NEW magic, NEW aligned, NEW sum,
             CheckImage(file, len, magic, aligned, sum)
      PROVE  ran' = FALSE /\ pc' \in {"setup", "fatal"}
  BY <1>1 DEF CheckImage, Fatal
<1>2. CASE Setup \/ CheckSctlr \/ CheckMmu \/ DisableMmu \/ NewTable
  BY <1>2 DEF Setup, CheckSctlr, CheckMmu, DisableMmu, NewTable
<1>3. CASE WriteGap \/ WriteSwapped \/ CheckLimit \/ WriteRest \/ CheckThunkSize \/ ExecThunk
  BY <1>3 DEF WriteGap, WriteSwapped, CheckLimit, WriteRest, CheckThunkSize, ExecThunk
<1>4. CASE CheckCaches \/ SwapIn \/ VerifyChecksum \/ SwapOut
  BY <1>4 DEF CheckCaches, SwapIn, VerifyChecksum, SwapOut
<1>5. CASE CheckSignature \/ WriteTable \/ EnableMmu \/ Restart \/ UsbError
  BY <1>5 DEF CheckSignature, WriteTable, EnableMmu, Restart, UsbError
<1> QED
  BY <1>1, <1>2, <1>3, <1>4, <1>5
  DEF Next, aw_backup_and_disable_mmu, Upload, ThunkStep, aw_restore_and_enable_mmu

\* The steps that follow a start of the upload, in terms of pc.
Before == Uploading \cup {"setup", "sctlr", "mmuregs", "disable", "newtable",
                          "caches", "swapin", "checksum", "spl"}

LEMMA Backwards ==
  ASSUME TypeOK, Next
  PROVE  /\ pc' \in Before => pc \in Before \/ ran' = FALSE
         /\ pc' = "result" => \/ CheckCaches /\ icache /\ SetSig("???")
                              \/ SwapOut /\ i > N
                              \/ UNCHANGED <<pc, sram, spl_len, ran, booted, soc, icache>>
         /\ pc' \in {"table", "enable", "done"} => pc \in {"table", "enable", "done"} \/ (CheckSignature /\ Succeeded)
<1>0. i \in 1..(N + 1) /\ N \in Nat
  BY Geometry
<1>1. ASSUME NEW file, NEW len, NEW magic, NEW aligned, NEW sum,
             CheckImage(file, len, magic, aligned, sum)
      PROVE  ran' = FALSE /\ pc' \in {"setup", "fatal"}
  BY <1>1 DEF CheckImage, Fatal
<1>2. CASE Setup \/ CheckSctlr \/ CheckMmu \/ DisableMmu \/ NewTable
  <2>1. pc \in Before /\ pc' \notin {"result", "table", "enable", "done"}
    BY <1>2 DEF Setup, CheckSctlr, CheckMmu, DisableMmu, NewTable, Fatal, Before
  <2> QED
    BY <2>1
<1>3. CASE WriteGap \/ WriteSwapped \/ CheckLimit \/ WriteRest \/ CheckThunkSize \/ ExecThunk
  <2>1. pc \in Before /\ pc' \notin {"result", "table", "enable", "done"}
    BY <1>3 DEF WriteGap, WriteSwapped, CheckLimit, WriteRest, CheckThunkSize, ExecThunk, Fatal,
                Before, Uploading
  <2> QED
    BY <2>1
<1>4. CASE CheckCaches
  BY <1>4 DEF CheckCaches, Before
<1>5. CASE SwapIn \/ VerifyChecksum \/ RunSpl
  <2>1. pc \in Before /\ pc' \notin {"result", "table", "enable", "done"}
    BY <1>5 DEF SwapIn, VerifyChecksum, RunSpl, Before
  <2> QED
    BY <2>1
<1>6. CASE SwapOut
  <2>1. pc' \notin Before \cup {"table", "enable", "done"} /\ (pc' = "result" => i > N)
    BY <1>0, <1>6 DEF SwapOut, Before, Uploading
  <2> QED
    BY <1>6, <2>1
<1>7. CASE CheckSignature \/ WriteTable \/ EnableMmu \/ Restart
  <2>1. pc' \notin Before \cup {"result"}
    BY <1>7 DEF CheckSignature, WriteTable, EnableMmu, Restart, Fatal, Before, Uploading
  <2>2. pc' \in {"table", "enable", "done"} => pc \in {"table", "enable", "done"} \/ (CheckSignature /\ Succeeded)
    BY <1>7 DEF CheckSignature, WriteTable, EnableMmu, Restart, Fatal
  <2> QED
    BY <2>1, <2>2
<1>8. CASE UsbError
  <2>1. UNCHANGED <<pc, spl_len, ran, booted, soc, icache>>
    BY <1>8 DEF UsbError
  <2>2. pc = "result" => sram' = sram
    BY <1>8, TargetIs DEF UsbError
  <2> QED
    BY <2>1, <2>2
<1>9. CASE \E file, len \in 0..MaxFile, magic, aligned, sum \in BOOLEAN :
              (sum => len # 0) /\ CheckImage(file, len, magic, aligned, sum)
  <2>1. ran' = FALSE /\ pc' \in {"setup", "fatal"}
    BY <1>1, <1>9
  <2> QED
    BY <2>1
<1> QED
  BY <1>2, <1>3, <1>4, <1>5, <1>6, <1>7, <1>8, <1>9
  DEF Next, aw_backup_and_disable_mmu, Upload, ThunkStep, aw_restore_and_enable_mmu

LEMMA SigNext ==
  TypeOK /\ Position /\ WordsKept /\ SigKept /\ Next => SigKept'
<1> SUFFICES ASSUME TypeOK, Position, WordsKept, SigKept, Next PROVE SigKept'
  OBVIOUS
<1> DEFINE s == SplAddr + SigWord
<1>0. /\ sram \in [Addr -> Words] /\ s \in Addr /\ s' = s /\ Places
      /\ N \in Nat /\ i \in 1..(N + 1) /\ ran \in BOOLEAN
  <2>1. SplAddr' = SplAddr
    BY StepKind
  <2> QED
    BY <2>1, PlacesFacts, Geometry DEF TypeOK, Places
<1>s. \A j \in 1..N : s \notin Buf1(soc, j) /\ s \notin Buf2(soc, j)
  BY <1>0 DEF Places
<1>d. Sig("FEL") # Sig("BAD") /\ Sig("FEL") # Sig("???") /\ Sig("BAD") # Sig("???")
  BY DEF Sig
<1>f. SplAddr' + SigWord = s
  BY StepKind
<1> HIDE DEF s
<1>1. ASSUME pc' \in Before PROVE ~ran'
  <2>1. pc \in Before => ~ran
    BY DEF SigKept, Before
  <2>2. CASE RunSpl
    BY <1>1, <2>2 DEF RunSpl, Before, Uploading
  <2>3. CASE ~RunSpl
    BY <1>1, <2>1, <2>3, RanKept, Backwards
  <2> QED
    BY <2>2, <2>3
<1>2. ASSUME pc' \in {"spl", "swapout"}
      PROVE  /\ pc' = "spl" \/ ran' => sram'[s] = Sig("FEL")
             /\ pc' = "swapout" /\ ~ran' => sram'[s] = Sig("BAD") /\ spl_len' <= LenWord
  <2>0. pc \in ThunkSteps
    BY <1>2, StepKind DEF HostSteps, ThunkSteps
  <2>1. CASE VerifyChecksum
    <3>1. CASE pc' = "spl"
      <4>1. SetSig("FEL")
        BY <2>1, <3>1 DEF VerifyChecksum
      <4> QED
        BY <1>0, <3>1, <4>1 DEF SetSig, s
    <3>2. CASE pc' # "spl"
      <4>1. /\ SetSig("BAD") /\ ~(InPlace /\ LenWord < spl_len) /\ pc = "checksum"
            /\ ran' = ran /\ spl_len' = spl_len
        BY <2>1, <3>2 DEF VerifyChecksum, host
      <4>2. ~(LenWord < spl_len) /\ ~ran
        BY <4>1, AllInPlace DEF SigKept
      <4>3. spl_len <= LenWord
        BY <4>2, Geometry, HeaderAssumption
      <4> QED
        BY <1>0, <3>2, <4>1, <4>2, <4>3 DEF SetSig, s
    <3> QED
      BY <3>1, <3>2
  <2>2. CASE RunSpl
    <3>1. sram[s] = Sig("FEL") /\ ran' /\ pc' = "swapout"
      BY <2>2 DEF RunSpl, SigKept, s
    <3>2. s \notin SplMayWrite
      BY DEF SplMayWrite, s
    <3>3. sram'[s] = sram[s]
      BY <1>0, <2>2, <3>2 DEF RunSpl, Write
    <3> QED
      BY <3>1, <3>3
  <2>3. CASE SwapOut
    <3>1. /\ pc = "swapout" /\ pc' = "swapout" /\ i \in 1..N /\ SwapBuffer
          /\ ran' = ran /\ spl_len' = spl_len
      BY <1>0, <1>2, <2>3 DEF SwapOut, host
    <3>2. sram'[s] = sram[s]
      BY <1>0, <1>s, <3>1, SwapEffect
    <3> QED
      BY <1>2, <3>1, <3>2 DEF SigKept, s
  <2>4. CASE UNCHANGED <<sram, pc, spl_len, ran>>
    BY <1>2, <2>4 DEF SigKept, s
  <2>5. ~(CheckCaches \/ SwapIn)
    BY <1>2 DEF CheckCaches, SwapIn
  <2> QED
    BY <2>0, <2>1, <2>2, <2>3, <2>4, <2>5, StepKind
<1>3. ASSUME pc' = "result", sram'[s] = Sig("FEL") PROVE ran'
  <2>1. CASE CheckCaches /\ icache /\ SetSig("???")
    <3>1. sram'[s] = Sig("???")
      BY <1>0, <2>1 DEF SetSig, s
    <3> QED
      BY <1>3, <1>d, <3>1
  <2>2. CASE SwapOut /\ i > N
    <3>1. pc = "swapout" /\ sram' = sram /\ ran' = ran
      BY <1>0, <2>2 DEF SwapOut
    <3> QED
      BY <1>3, <1>d, <3>1 DEF SigKept, s
  <2>3. CASE UNCHANGED <<pc, sram, spl_len, ran, booted, soc, icache>>
    BY <1>3, <2>3 DEF SigKept, s
  <2> QED
    BY <1>3, <2>1, <2>2, <2>3, Backwards
<1> QED
  BY <1>1, <1>2, <1>3, <1>f DEF SigKept, Before

LEMMA VerdictNext ==
  TypeOK /\ SigKept /\ CacheKept /\ MmuKept /\ VerdictJustified /\ NoFalseSuccess /\ Next
    => VerdictJustified' /\ NoFalseSuccess'
<1> SUFFICES ASSUME TypeOK, SigKept, CacheKept, MmuKept, VerdictJustified, NoFalseSuccess, Next
             PROVE  VerdictJustified' /\ NoFalseSuccess'
  OBVIOUS
<1> DEFINE s == SplAddr + SigWord
<1>0. /\ sram \in [Addr -> Words] /\ s \in Addr /\ N \in Nat /\ i \in 1..(N + 1)
      /\ SplAddr' + SigWord = s /\ soc' = soc
  BY PlacesFacts, Geometry, StepKind DEF TypeOK, Places
<1>d. Sig("FEL") # Sig("BAD") /\ Sig("FEL") # Sig("???") /\ Sig("BAD") # Sig("???")
  BY DEF Sig
<1> HIDE DEF s
<1>1. ASSUME pc' = "result"
      PROVE  /\ sram'[s] = Sig("???") => booted' /\ ~soc.icache_fix
             /\ sram'[s] = Sig("BAD") => spl_len' <= LenWord
  <2>1. CASE CheckCaches /\ icache /\ SetSig("???")
    <3>1. sram'[s] = Sig("???") /\ booted' = booted /\ pc = "caches" /\ icache
      BY <1>0, <2>1 DEF SetSig, CheckCaches, s
    <3>2. mmu = "off"
      BY <3>1 DEF MmuKept, ThunkSteps
    <3>3. booted
      BY <3>1, <3>2 DEF CacheKept
    <3>4. ~soc.icache_fix
      BY <3>1, <3>2 DEF CacheKept
    <3> QED
      BY <1>d, <3>1, <3>3, <3>4
  <2>2. CASE SwapOut /\ i > N
    <3>1. pc = "swapout" /\ sram' = sram /\ spl_len' = spl_len
      BY <1>0, <2>2 DEF SwapOut, host
    <3> QED
      BY <1>d, <3>1 DEF SigKept, s
  <2>3. CASE UNCHANGED <<pc, sram, spl_len, ran, booted, soc, icache>>
    BY <1>1, <2>3 DEF VerdictJustified, s
  <2> QED
    BY <1>1, <2>1, <2>2, <2>3, Backwards
<1>2. ASSUME pc' \in {"table", "enable", "done"} PROVE ran'
  <2>1. ran' = ran \/ RunSpl
    BY <1>2, RanKept
  <2>2. ~RunSpl
    BY <1>2 DEF RunSpl
  <2>3. CASE pc \in {"table", "enable", "done"}
    BY <2>1, <2>2, <2>3 DEF NoFalseSuccess
  <2>4. CASE CheckSignature /\ Succeeded
    BY <2>1, <2>2, <2>4 DEF CheckSignature, Succeeded, SigKept
  <2> QED
    BY <1>2, <2>3, <2>4, Backwards
<1> QED
  BY <1>0, <1>1, <1>2 DEF VerdictJustified, NoFalseSuccess


-----------------------------------------------------------------------------
(* The MMU.                                                                *)

LEMMA TableWords ==
  ASSUME TypeOK, NEW k \in 0..(TtSize - 1)
  PROVE  ttbr0 + k \in Table /\ ttbr0 + k \in Addr
<1>1. ttbr0 \in Nat /\ TtSize \in Nat /\ MaxAddr \in Nat /\ ttbr0 + TtSize <= MaxAddr + 1
  BY HeaderAssumption, LayoutSizes DEF TypeOK, Addr
<1> QED
  BY <1>1, RegionIs DEF Table, Addr

\* Uploaded code does not touch the translation table.
LEMMA TableKept ==
  ASSUME TypeOK, TableApart(soc, ttbr0), NEW a \in Table PROVE a \notin Scratch(soc)
<1>1. ttbr0 \in Nat /\ TtSize \in Nat /\ soc.scratch_addr \in Nat /\ ScratchSize \in Nat
  BY HeaderAssumption, LayoutSizes, LayoutFacts DEF TypeOK, Addr, Facts
<1>2. ttbr0 + TtSize <= soc.scratch_addr \/ soc.scratch_addr + ScratchSize <= ttbr0
  BY DEF TableApart, Apart
<1> QED
  BY <1>1, <1>2, RegionIs DEF Table, Scratch

LEMMA MmuNext == TypeOK /\ MmuKept /\ MmuSafe /\ Next => MmuKept' /\ MmuSafe'
<1> SUFFICES ASSUME TypeOK, MmuKept, MmuSafe, Next PROVE MmuKept' /\ MmuSafe'
  OBVIOUS
<1> DEFINE Intact == \A k \in 0..(TtSize - 1) : sram[ttbr0 + k] = TtWord(k)
           Off == Uploading \cup ThunkSteps \cup {"newtable", "result", "table", "enable"}
<1>0. soc \in Socs /\ soc' = soc
  BY StepKind DEF TypeOK
<1>k. /\ pc \in Off => mmu = "off"
      /\ pc \in {"mmuregs", "disable"} => mmu # "off"
      /\ TableApart(soc, ttbr0)
      /\ pc = "enable" => Intact
      /\ tt \/ pc \in {"table", "enable"} => odd \in {"none", "sctlr"}
      /\ pc \in {"table", "enable"} => tt
      /\ mmu # "off" => Intact
      /\ mmu = "tool" => odd \in {"none", "sctlr"}
  BY DEF MmuKept, MmuSafe
\* It is enough to look at the registers and, while it matters, the table.
<1>g. ASSUME pc' \in Off => mmu' = "off",
             pc' \in {"mmuregs", "disable"} => mmu' # "off",
             TableApart(soc, ttbr0'),
             pc' = "enable" \/ mmu' # "off" => Intact',
             tt' \/ pc' \in {"table", "enable"} \/ mmu' = "tool" => odd' \in {"none", "sctlr"},
             pc' \in {"table", "enable"} => tt'
      PROVE  MmuKept' /\ MmuSafe'
  <2>1. MmuKept'
    BY <1>0, <1>g DEF MmuKept
  <2>2. MmuSafe'
    BY <1>g DEF MmuSafe
  <2> QED
    BY <2>1, <2>2
\* A step that leaves TTBR0 alone and writes at most to the scratch area.
<1>i. ASSUME ttbr0' = ttbr0, Intact,
             \A a \in Addr : a \notin Scratch(soc) => sram'[a] = sram[a]
      PROVE  Intact'
  <2>1. ASSUME NEW k \in 0..(TtSize - 1) PROVE sram'[ttbr0 + k] = TtWord(k)
    <3>1. ttbr0 + k \in Addr /\ ttbr0 + k \notin Scratch(soc)
      BY <1>k, TableWords, TableKept
    <3> QED
      BY <1>i, <3>1
  <2> QED
    BY <1>i, <2>1
<1>r. RunScratch => \A a \in Addr : a \notin Scratch(soc) => sram'[a] = sram[a]
  BY DEF RunScratch, Write
<1> HIDE DEF Intact
<1>u. ASSUME ttbr0' = ttbr0, sram' = sram, Intact PROVE Intact'
  BY <1>u DEF Intact
<1>1. ASSUME NEW file, NEW len, NEW magic, NEW aligned, NEW sum,
             CheckImage(file, len, magic, aligned, sum)
      PROVE  MmuKept' /\ MmuSafe'
  <2>1. UNCHANGED <<mmu, ttbr0, sram, odd>> /\ (tt' = tt \/ tt' = FALSE) /\ pc' \in {"setup", "fatal"}
    BY <1>1 DEF CheckImage, Fatal, Reset
  <2>2. pc' \notin Off
    BY <2>1 DEF Uploading, ThunkSteps
  <2> QED
    BY <1>0, <1>k, <1>g, <1>u, <2>1, <2>2
<1>2. CASE Setup
  <2>1. RunScratch /\ UNCHANGED <<mmu, ttbr0, tt, odd>> /\ pc' = "sctlr"
    BY <1>2 DEF Setup
  <2>2. pc' \notin Off
    BY <2>1 DEF Uploading, ThunkSteps
  <2> QED
    BY <1>0, <1>k, <1>g, <1>i, <1>r, <2>1, <2>2
<1>3. CASE CheckSctlr
  <2>1. /\ RunScratch /\ UNCHANGED <<mmu, ttbr0, odd>> /\ (tt' = tt \/ tt' = FALSE)
        /\ \/ pc' = "fatal" \/ (mmu = "off" /\ pc' = "newtable") \/ (mmu # "off" /\ pc' = "mmuregs")
    BY <1>3 DEF CheckSctlr, Fatal, Reset
  <2>2. pc' \in Off => pc' = "newtable"
    BY <2>1 DEF Uploading, ThunkSteps
  <2> QED
    BY <1>0, <1>k, <1>g, <1>i, <1>r, <2>1, <2>2
<1>4. CASE CheckMmu
  <2>1. /\ RunScratch /\ UNCHANGED <<mmu, ttbr0, odd>> /\ pc = "mmuregs"
        /\ \/ pc' = "fatal" /\ tt' = FALSE
           \/ pc' = "disable" /\ odd \in {"none", "sctlr"}
    BY <1>4 DEF CheckMmu, Fatal, Reset, TypeOK
  <2>2. pc' \notin Off
    BY <2>1 DEF Uploading, ThunkSteps
  <2> QED
    BY <1>0, <1>k, <1>g, <1>i, <1>r, <2>1, <2>2
<1>5. CASE DisableMmu
  <2>1. mmu' = "off" /\ UNCHANGED <<ttbr0, tt, odd>> /\ pc' = "gap"
    BY <1>5 DEF DisableMmu
  <2> QED
    BY <1>0, <1>k, <1>g, <2>1
<1>6. CASE NewTable
  <2>1. pc = "newtable" /\ mmu' = mmu /\ pc' = "gap"
    BY <1>6 DEF NewTable
  <2>2. mmu = "off"
    BY <1>k, <2>1
  <2>3. CASE soc.mmu_tt_addr = 0
    <3>1. UNCHANGED <<tt, ttbr0, odd>>
      BY <1>6, <2>3 DEF NewTable
    <3> QED
      BY <1>0, <1>k, <1>g, <2>1, <2>2, <3>1
  <2>4. CASE soc.mmu_tt_addr # 0
    <3>1. ttbr0' = soc.mmu_tt_addr /\ odd' = "none"
      BY <1>6, <2>4 DEF NewTable
    <3>2. TableApart(soc, soc.mmu_tt_addr)
      BY <1>0, <2>4, SocsAssumption DEF WellFormed, MmuTableApart
    <3> QED
      BY <1>0, <1>k, <1>g, <2>1, <2>2, <3>1, <3>2
  <2> QED
    BY <2>3, <2>4
<1>7. CASE WriteGap \/ WriteSwapped \/ CheckLimit \/ WriteRest \/ CheckThunkSize \/ ExecThunk
  <2>1. /\ UNCHANGED <<mmu, ttbr0, odd>> /\ (tt' = tt \/ tt' = FALSE) /\ pc \in Uploading
        /\ pc' \notin {"mmuregs", "disable", "table", "enable"}
    BY <1>7 DEF WriteGap, WriteSwapped, CheckLimit, WriteRest, CheckThunkSize, ExecThunk,
                Fatal, Reset, Uploading
  <2>2. mmu = "off"
    BY <1>k, <2>1
  <2> QED
    BY <1>0, <1>k, <1>g, <2>1, <2>2
<1>8. CASE CheckCaches \/ SwapIn \/ VerifyChecksum \/ RunSpl \/ SwapOut
  <2>1. /\ UNCHANGED <<mmu, ttbr0, odd, tt>> /\ pc \in ThunkSteps
        /\ pc' \notin {"mmuregs", "disable", "table", "enable"}
    BY <1>8 DEF CheckCaches, SwapIn, VerifyChecksum, RunSpl, SwapOut, host, ThunkSteps
  <2>2. mmu = "off"
    BY <1>k, <2>1
  <2> QED
    BY <1>0, <1>k, <1>g, <2>1, <2>2
<1>9. CASE CheckSignature
  <2>1. /\ UNCHANGED <<mmu, ttbr0, odd>> /\ pc = "result"
        /\ \/ pc' \in {"fatal", "done"} /\ tt' = FALSE
           \/ pc' = "table" /\ tt' = tt /\ tt
    BY <1>9 DEF CheckSignature, Fatal, Reset
  <2>2. mmu = "off"
    BY <1>k, <2>1
  <2> QED
    BY <1>0, <1>k, <1>g, <2>1, <2>2
<1>10. CASE WriteTable
  <2>1. UNCHANGED <<mmu, ttbr0, tt, odd>> /\ pc = "table" /\ pc' = "enable"
    BY <1>10 DEF WriteTable
  <2>2. ASSUME NEW k \in 0..(TtSize - 1) PROVE sram'[ttbr0 + k] = TtWord(k)
    <3>1. ttbr0 + k \in Table /\ ttbr0 + k \in Addr
      BY TableWords
    <3>2. sram'[ttbr0 + k] = ToTable(ttbr0 + k)
      BY <1>10, <3>1 DEF WriteTable
    <3>3. (ttbr0 + k) - ttbr0 = k
      BY HeaderAssumption, LayoutSizes DEF TypeOK, Addr
    <3> QED
      BY <3>2, <3>3 DEF ToTable
  <2>3. Intact'
    BY <2>1, <2>2 DEF Intact
  <2> QED
    BY <1>0, <1>k, <1>g, <2>1, <2>3
<1>11. CASE EnableMmu
  <2>1. /\ RunScratch /\ UNCHANGED <<ttbr0, odd>> /\ pc = "enable" /\ pc' = "done"
        /\ mmu' = "tool" /\ tt' = FALSE
    BY <1>11 DEF EnableMmu, Reset
  <2>2. pc' \notin Off
    BY <2>1 DEF Uploading, ThunkSteps
  <2> QED
    BY <1>0, <1>k, <1>g, <1>i, <1>r, <2>1, <2>2
<1>12. CASE UsbError
  <2>1. UNCHANGED <<mmu, ttbr0, tt, odd, pc>>
    BY <1>12 DEF UsbError
  <2>2. pc = "enable" \/ mmu # "off" => \A a \in Addr : a \notin Scratch(soc) => sram'[a] = sram[a]
    <3>1. ASSUME pc = "enable" \/ mmu # "off" PROVE Target \subseteq Scratch(soc)
      <4>1. pc = "enable" \/ pc \notin Off
        BY <1>k, <3>1
      <4>2. pc \in {"setup", "sctlr", "mmuregs", "disable", "enable", "idle", "done", "fatal"}
        BY <4>1 DEF TypeOK, HostSteps, ThunkSteps, Uploading
      <4> QED
        BY <4>2, TargetIs
    <3> QED
      BY <1>12, <3>1 DEF UsbError, Write
  <2> QED
    BY <1>0, <1>k, <1>g, <1>i, <2>1, <2>2
<1>13. CASE Restart
  <2>1. UNCHANGED <<mmu, ttbr0, sram, odd, tt>> /\ pc' = "idle"
    BY <1>13 DEF Restart
  <2>2. pc' \notin Off
    BY <2>1 DEF Uploading, ThunkSteps
  <2> QED
    BY <1>0, <1>k, <1>g, <1>u, <2>1, <2>2
<1> QED
  BY <1>1, <1>2, <1>3, <1>4, <1>5, <1>6, <1>7, <1>8, <1>9, <1>10, <1>11, <1>12, <1>13
  DEF Next, aw_backup_and_disable_mmu, Upload, ThunkStep, aw_restore_and_enable_mmu


-----------------------------------------------------------------------------
(* The theorems.                                                           *)

LEMMA InvInit == Init => Inv
<1> SUFFICES ASSUME Init PROVE Inv
  OBVIOUS
<1>1. TypeOK /\ pc = "idle" /\ spl_len = 0 /\ off = 0 /\ i = 1 /\ soc \in Socs
  BY TypeInit DEF Init
<1>2. /\ TableApart(soc, ttbr0) /\ tt = FALSE /\ mmu \in {"off", "brom"}
  BY DEF Init
<1>3. Position
  BY <1>1 DEF Position, Uploaded
<1>4. BromKept
  <2>1. ASSUME NEW j \in 1..N, NEW x \in Buf1(soc, j) PROVE sram[x] = Old(x)
    <3>1. x \in Addr
      BY <1>1, PlacesFacts DEF Places
    <3>2. x \notin Table
      <4>1. ttbr0 \in Nat /\ TtSize \in Nat /\ Entries(soc) = 1..N
        BY <1>1, HeaderAssumption, LayoutSizes, LayoutFacts DEF TypeOK, Addr, Facts
      <4>2. ttbr0 + TtSize <= Swap[j].buf1 \/ Swap[j].buf1 + Swap[j].size <= ttbr0
        BY <1>2, <4>1 DEF TableApart, Apart, Swap
      <4>3. x \in Int /\ Swap[j].buf1 <= x /\ x < Swap[j].buf1 + Swap[j].size
        BY <1>1, BufferIs
      <4>4. x \in Table => ttbr0 <= x /\ x < ttbr0 + TtSize
        BY <4>1, RegionIs DEF Table
      <4>5. Swap[j].buf1 \in Nat /\ Swap[j].size \in Nat
        BY <1>1, Geometry
      <4> QED
        BY <4>1, <4>2, <4>3, <4>4, <4>5
    <3> QED
      BY <3>1, <3>2 DEF Init
  <2>2. \A j : ~Swapped(j)
    BY <1>1 DEF Swapped
  <2> QED
    BY <2>1, <2>2 DEF BromKept
<1>5. WordsKept /\ LimitKept
  BY <1>1 DEF WordsKept, LimitKept, Uploading, Uploaded, Accepted
<1>6. ThunkKept
  BY <1>1 DEF ThunkKept, ThunkIntact, ThunkSteps
<1>7. SigKept /\ NoFalseSuccess /\ SplComplete /\ VerdictJustified
  BY <1>1 DEF SigKept, NoFalseSuccess, SplComplete, VerdictJustified, Uploading
<1>8. CacheKept
  BY DEF Init, CacheKept
<1>9. MmuKept
  BY <1>1, <1>2 DEF MmuKept, Uploading, ThunkSteps
<1>10. MmuSafe
  <2>1. ASSUME mmu # "off", NEW k \in 0..(TtSize - 1) PROVE sram[ttbr0 + k] = TtWord(k)
    <3>1. ttbr0 + k \in Table /\ ttbr0 + k \in Addr
      BY <1>1, TableWords
    <3>2. sram[ttbr0 + k] = ToTable(ttbr0 + k)
      BY <1>2, <2>1, <3>1 DEF Init
    <3>3. (ttbr0 + k) - ttbr0 = k
      BY <1>1, HeaderAssumption, LayoutSizes DEF TypeOK, Addr
    <3> QED
      BY <3>2, <3>3 DEF ToTable
  <2> QED
    BY <1>2, <2>1 DEF MmuSafe
<1> QED
  BY <1>1, <1>3, <1>4, <1>5, <1>6, <1>7, <1>8, <1>9, <1>10 DEF Inv

LEMMA InvStutter == Inv /\ UNCHANGED vars => Inv'
<1> SUFFICES ASSUME Inv, UNCHANGED vars PROVE Inv'
  OBVIOUS
<1>1. /\ UNCHANGED <<soc, alive, pc, hacked, spl_len, off, i, limit, tt>>
      /\ UNCHANGED <<sram, mmu, icache, ttbr0, odd, booted, ran>>
      /\ N' = N /\ Swap' = Swap /\ SplAddr' = SplAddr /\ CurAddr' = CurAddr
  BY DEF vars, N, Swap, SplAddr, CurAddr
<1>2. \A j : Swapped(j)' <=> Swapped(j)
  BY <1>1 DEF Swapped
<1>3. TypeOK'
  BY <1>1 DEF Inv, TypeOK
<1>4. BromKept'
  BY <1>1, <1>2 DEF Inv, BromKept
<1>5. Position'
  BY <1>1 DEF Inv, Position
<1>6. WordsKept'
  BY <1>1, <1>2 DEF Inv, WordsKept
<1>7. LimitKept'
  BY <1>1 DEF Inv, LimitKept
<1>8. ThunkKept'
  BY <1>1 DEF Inv, ThunkKept, ThunkIntact
<1>9. SigKept' /\ CacheKept' /\ MmuKept'
  BY <1>1 DEF Inv, SigKept, CacheKept, MmuKept
<1>10. SplComplete' /\ MmuSafe' /\ NoFalseSuccess' /\ VerdictJustified'
  BY <1>1 DEF Inv, SplComplete, MmuSafe, NoFalseSuccess, VerdictJustified
<1> QED
  BY <1>3, <1>4, <1>5, <1>6, <1>7, <1>8, <1>9, <1>10 DEF Inv

LEMMA InvNext == Inv /\ [Next]_vars => Inv'
<1> SUFFICES ASSUME Inv, Next PROVE Inv'
  BY InvStutter
<1> USE DEF Inv
<1>1. TypeOK' /\ Position'
  BY TypeNext, PositionNext
<1>2. BromKept'
  BY BromNext
<1>3. WordsKept'
  BY WordsNext
<1>4. LimitKept' /\ ThunkKept'
  BY LimitNext, ThunkNext
<1>5. SigKept' /\ CacheKept'
  BY SigNext, CacheNext
<1>6. MmuKept' /\ MmuSafe'
  BY MmuNext
<1>7. SplComplete'
  BY SplNext
<1>8. VerdictJustified' /\ NoFalseSuccess'
  BY VerdictNext
<1> QED
  BY <1>1, <1>2, <1>3, <1>4, <1>5, <1>6, <1>7, <1>8

\* The inductive invariant holds in every state of every behaviour.
THEOREM Invariance == Spec => []Inv
<1>1. Init => Inv
  BY InvInit
<1>2. Inv /\ [Next]_vars => Inv'
  BY InvNext
<1> QED
  BY <1>1, <1>2, PTL DEF Spec

\* All variables of the loader, the thunk and the target keep their types.
THEOREM TypeCorrect == Spec => []TypeOK
<1>1. Inv => TypeOK
  BY DEF Inv
<1> QED
  BY <1>1, Invariance, PTL

LEMMA BromIsSafe == Inv => BromSafe
<1> SUFFICES ASSUME Inv, pc \in HostSteps, NEW a \in BromLive(soc) PROVE sram[a] = Old(a)
  BY DEF BromSafe
<1>1. Entries(soc) = 1..N
  BY LayoutFacts DEF Inv, TypeOK, Facts
<1>2. PICK j \in 1..N : a \in Buf1(soc, j) /\ a \notin Scratch(soc)
  BY <1>1 DEF BromLive
<1>3. ~Swapped(j)
  BY SwappedIs
<1> QED
  BY <1>2, <1>3 DEF Inv, BromKept

\* Whenever the boot ROM is in control again, after uploads, failures and SPLs
\* that have run, its data is where it left it, on every well-formed layout.
THEOREM BromIsKept == Spec => []BromSafe
  BY BromIsSafe, Invariance, PTL

\* An SPL is only started complete, whichever parts of it went through backup
\* buffers.
THEOREM SplIsComplete == Spec => []SplComplete
<1>1. Inv => SplComplete
  BY DEF Inv
<1> QED
  BY <1>1, Invariance, PTL

\* Neither swaps nor the SPL damage the running thunk.
THEOREM ThunkIsIntact == Spec => []ThunkIntact
<1>1. Inv => ThunkIntact
  BY DEF Inv, ThunkKept
<1> QED
  BY <1>1, Invariance, PTL

\* The MMU is never on with a damaged table or unexpected registers.
THEOREM MmuIsSafe == Spec => []MmuSafe
<1>1. Inv => MmuSafe
  BY DEF Inv
<1> QED
  BY <1>1, Invariance, PTL

\* The tool reports success only for an SPL that ran in the same call.
THEOREM SuccessIsReal == Spec => []NoFalseSuccess
<1>1. Inv => NoFalseSuccess
  BY DEF Inv
<1> QED
  BY <1>1, Invariance, PTL

\* The thunk's error verdicts have the causes their messages name.
THEOREM VerdictIsJustified == Spec => []VerdictJustified
<1>1. Inv => VerdictJustified
  BY DEF Inv
<1> QED
  BY <1>1, Invariance, PTL

\* What the tool's steps overwrite is the loader's to overwrite.
LEMMA TargetMayWrite == Inv => \A a \in Target : a \in MayWrite
<1> SUFFICES ASSUME Inv, NEW a \in Target PROVE a \in MayWrite
  OBVIOUS
<1>i. TypeOK /\ Position /\ LimitKept /\ ThunkKept
  BY DEF Inv
<1>0. soc \in Socs /\ Entries(soc) = 1..N
  BY <1>i, LayoutFacts DEF TypeOK, Facts
<1>m. /\ soc.sram_size \in Nat /\ Buf1End(soc) <= SplAddr + soc.sram_size
  BY <1>0, LayoutFacts DEF Facts
<1>1. pc \in {"setup", "sctlr", "mmuregs", "disable", "newtable", "enable",
              "gap", "swapped", "rest", "thunk", "table"}
  BY <1>i, TargetIs DEF TypeOK, HostSteps, ThunkSteps
<1>2. CASE pc \in {"setup", "sctlr", "mmuregs", "disable", "newtable", "enable"}
  BY <1>2, TargetIs DEF MayWrite
<1>3. CASE pc = "gap"
  <2>1. i <= N /\ off < spl_len /\ CurAddr < Swap[i].buf1 /\ a \in Region(CurAddr, GapLength)
    BY <1>3, TargetIs
  <2>2. i \in 1..N /\ GapLength \in Nat /\ CurAddr + GapLength <= Swap[i].buf1
    BY <1>3, <2>1, <1>i, GapPlace
  <2>3. a \in Int /\ CurAddr <= a /\ a < CurAddr + GapLength
    BY <2>1, <2>2, RegionIs, <1>i, Geometry
  <2>4. a \in Region(SplAddr, soc.sram_size)
    <3>1. Swap[i].buf1 <= SplAddr + soc.sram_size
      BY <1>m, <2>2, <1>i, Geometry
    <3>2. SplAddr \in Nat /\ SplAddr <= a /\ a < SplAddr + soc.sram_size
      BY <1>m, <2>2, <2>3, <3>1, <1>i, Geometry
    <3> QED
      BY <1>m, <2>3, <3>2, RegionIs
  <2> QED
    BY <2>4 DEF MayWrite
<1>4. CASE pc = "swapped"
  <2>1. i \in 1..N /\ off < spl_len /\ a \in Region(Swap[i].buf2, BackupLength)
    BY <1>4, TargetIs, <1>i, Geometry DEF Position
  <2>2. BackupLength \in Nat /\ BackupLength <= Swap[i].size
    BY <2>1, <1>i, Geometry DEF BackupLength, Smaller
  <2>3. a \in Buf2(soc, i)
    <3>1. Swap[i].buf2 \in Nat /\ Swap[i].size \in Nat
      BY <2>1, <1>i, Geometry
    <3>2. a \in Int /\ Swap[i].buf2 <= a /\ a < Swap[i].buf2 + Swap[i].size
      BY <2>1, <2>2, <3>1, RegionIs
    <3> QED
      BY <1>0, <2>1, <3>2, BufferIs
  <2> QED
    BY <1>0, <2>1, <2>3 DEF MayWrite
<1>5. CASE pc = "rest"
  <2>1. a \in Int /\ CurAddr <= a /\ a < CurAddr + (spl_len - off)
    BY <1>5, TargetIs, RegionIs, <1>i, Geometry
  <2>2. spl_len <= soc.sram_size
    BY <1>i, <1>5 DEF LimitKept, Accepted
  <2>3. a \in Region(SplAddr, soc.sram_size)
    <3>1. SplAddr \in Nat /\ SplAddr <= a /\ a < SplAddr + soc.sram_size
      BY <1>m, <2>1, <2>2, <1>i, Geometry
    <3> QED
      BY <1>m, <2>1, <3>1, RegionIs
  <2> QED
    BY <2>3 DEF MayWrite
<1>6. CASE pc = "thunk"
  BY <1>6, <1>i, ThunkTarget DEF MayWrite
<1>7. CASE pc = "table"
  <2>1. a \in Scratch(soc) \/ a \in Table
    BY <1>7, TargetIs
  <2>2. CASE a \in Scratch(soc)
    BY <2>2 DEF MayWrite
  <2>3. CASE a \in Table
    <3>1. a \in TableInTurn
      BY <1>7, <2>3 DEF TableInTurn
    <3> QED
      BY <3>1 DEF MayWrite
  <2> QED
    BY <2>1, <2>2, <2>3
<1> QED
  BY <1>1, <1>2, <1>3, <1>4, <1>5, <1>6, <1>7

\* The loader writes where it may and nowhere else, an SPL that turns out to
\* be too large, and a transfer that is cut short, included.
THEOREM LoaderIsContained == Spec => Contained
<1>1. Inv /\ [Next]_vars =>
         [(pc \in HostSteps => \A a \in Addr \ MayWrite : sram'[a] = sram[a])]_vars
  <2> SUFFICES ASSUME Inv, Next, pc \in HostSteps, NEW a \in Addr \ MayWrite
               PROVE  sram'[a] = sram[a]
    OBVIOUS
  <2>1. a \notin Target
    BY TargetMayWrite
  <2> QED
    BY <2>1, Frame DEF Inv
<1> QED
  BY <1>1, Invariance, PTL DEF Spec, Contained


=============================================================================
