------------------------------- MODULE FelSpl -------------------------------
(***************************************************************************)
(* Loading and running an SPL over FEL: aw_fel_write_and_execute_spl() and *)
(* the MMU functions of fel.c, and the thunk of fel-to-spl-thunk.S that    *)
(* the boot ROM runs.  The SPL needs SRAM in which the boot ROM keeps its  *)
(* stacks.  The parts of the SPL that belong there are uploaded to backup  *)
(* buffers, the thunk swaps the buffers, runs the SPL and swaps them back. *)
(*                                                                         *)
(* Memory is a function from word addresses to what a word holds.  FEL     *)
(* reads, writes and executions are atomic here: FelUsb shows that they    *)
(* look atomic to the caller, and that an interrupted write damages only   *)
(* the range it was to write.                                              *)
(***************************************************************************)
EXTENDS SramLayout

CONSTANTS
    Socs,      \* the layouts the tool may meet
    MaxAddr,   \* target memory is 0..MaxAddr
    MaxFile,   \* largest image file, in words
    MinFile,   \* smallest file with room for the header: "len < 32"
    SigWord,   \* word of the header with ".BT0", ".FEL", ".BAD" or ".???"
    LenWord    \* word of the header with the length of the SPL

Addr == 0..MaxAddr

ASSUME HeaderAssumption ==
    /\ MaxAddr \in Nat /\ MaxFile \in Nat /\ MinFile \in Nat
    /\ SigWord \in 0..(HeaderSize - 1)
    /\ LenWord \in 0..(HeaderSize - 1)
    /\ SigWord < LenWord

\* The parts of the layout lie in memory.
InMemory(s) ==
    /\ s.spl_addr \in Addr /\ s.scratch_addr \in Addr /\ s.thunk_addr \in Addr
    /\ s.mmu_tt_addr \in Addr
    /\ s.sram_size \in Nat /\ s.thunk_size \in Nat
    /\ s.icache_fix \in BOOLEAN /\ s.needs_l2en \in BOOLEAN
    /\ s.swap_buffers \in Seq([buf1 : Addr, buf2 : Addr, size : Nat])
    /\ s.spl_addr + HeaderSize <= MaxAddr
    /\ s.spl_addr + s.sram_size <= MaxAddr + 1
    /\ s.thunk_addr + s.thunk_size <= MaxAddr + 1
    /\ s.mmu_tt_addr + TtSize <= MaxAddr + 1
    /\ s.thunk_addr - s.spl_addr < AddrMod
    /\ \A j \in Entries(s) : s.swap_buffers[j].buf2 + s.swap_buffers[j].size <= MaxAddr + 1

ASSUME SocsAssumption == \A s \in Socs : WellFormed(s) /\ InMemory(s)

VARIABLES
    soc,      \* dev->soc_info
    alive,    \* the tool has not died of a USB error
    pc,       \* next step, of the tool or of the thunk
    hacked,   \* dev->usb->icache_hacked
    spl_len,  \* length of the SPL, in words
    off,      \* cur_addr - spl_addr: words of the SPL already uploaded
    i,        \* loop variable of the tool, then of the thunk
    limit,    \* spl_len_limit
    tt,       \* the tool holds a translation table
    sram,     \* target memory
    mmu,      \* "off", "brom" (set up by the boot ROM) or "tool"
    icache,   \* SCTLR.I
    ttbr0,    \* base of the translation table
    odd,      \* what the tool would not expect in the boot ROM's MMU setup
    booted,   \* history: the boot ROM left the I-cache on and the MMU off
    ran       \* history: the SPL has run in this call

host == <<alive, hacked, spl_len, off, limit, tt>>
vars == <<soc, alive, pc, hacked, spl_len, off, i, limit, tt,
          sram, mmu, icache, ttbr0, odd, booted, ran>>

-----------------------------------------------------------------------------
(* What a word of memory holds.                                            *)

Old(a) == <<"old", a>>        \* what the boot ROM has at address a
SplWord(k) == <<"spl", k>>    \* word k of the image
ThunkWord(k) == <<"thunk", k>>
TtWord(k) == <<"tt", k>>      \* section descriptor k, a direct mapping
Sig(c) == <<"sig", c>>        \* the thunk's verdict in the header
Junk == <<"junk", 0>>         \* nothing in particular

Words ==
    ({"old", "spl", "thunk", "tt", "junk"} \X Nat) \cup ({"sig"} \X {"FEL", "BAD", "???"})

\* Memory after the words of region r were overwritten by f(a).
Write(r, f(_)) == sram' = [a \in Addr |-> IF a \in r THEN f(a) ELSE sram[a]]

ToJunk(a) == Junk
ToThunk(a) == ThunkWord(a - soc.thunk_addr)
ToTable(a) == TtWord(a - ttbr0)

Swap == soc.swap_buffers
N == Len(soc.swap_buffers)
SplAddr == soc.spl_addr
CurAddr == soc.spl_addr + off
Table == Region(ttbr0, TtSize)

\* Mutant: the end of the image is not looked at.
SmallerNot(a, b) == a

Smaller(a, b) == IF a < b THEN a ELSE b

-----------------------------------------------------------------------------
(* Code uploaded to scratch_addr.                                          *)

\* aw_fel_write(): the first one of a process disables the I-cache on some SoCs.
ICacheFix == hacked' = IF soc.icache_fix THEN TRUE ELSE hacked

\* Mutant: the workaround leaves the I-cache on.
ICacheStays == icache

\* SCTLR.I as the uploaded code finds it.
ICacheNow == IF soc.icache_fix /\ ~hacked THEN FALSE ELSE icache

RunScratch == Write(Scratch(soc), ToJunk) /\ ICacheFix

-----------------------------------------------------------------------------
(* aw_fel_write_and_execute_spl(), up to the upload.                       *)

\* pr_fatal(): the process ends, the device stays as it is.
Reset ==
    /\ spl_len' = 0 /\ off' = 0 /\ limit' = 0 /\ tt' = FALSE /\ i' = 1

Fatal == pc' = "fatal" /\ Reset

\* The header checks.  An image of no words never has a good checksum: the
\* seed is odd.
CheckImage(file, len, magic, aligned, sum) ==
    /\ alive /\ pc \in {"idle", "done"}
    /\ IF file < MinFile \/ ~magic \/ len > file \/ ~aligned \/ ~sum
       THEN Fatal
       ELSE /\ spl_len' = len
            /\ pc' = "setup"
            /\ UNCHANGED <<off, limit, tt, i>>
    /\ ran' = FALSE
    /\ UNCHANGED <<soc, alive, hacked, sram, mmu, icache, ttbr0, odd, booted>>

\* aw_enable_l2_cache(), if needed, and aw_get_stackinfo().
Setup ==
    /\ alive /\ pc = "setup"
    /\ RunScratch
    /\ icache' = ICacheNow
    /\ pc' = "sctlr"
    /\ UNCHANGED <<soc, alive, spl_len, off, i, limit, tt, mmu, ttbr0, odd, booted, ran>>

\* aw_backup_and_disable_mmu(): SCTLR first.  "M" decides; "odd" registers
\* are fatal.
CheckSctlr ==
    /\ alive /\ pc = "sctlr"
    /\ RunScratch
    /\ IF odd = "sctlr" THEN Fatal
       ELSE /\ pc' = IF mmu = "off" THEN "newtable" ELSE "mmuregs"
            /\ UNCHANGED <<spl_len, off, limit, tt, i>>
    /\ UNCHANGED <<soc, alive, mmu, icache, ttbr0, odd, booted, ran>>

\* DACR, TTBCR and TTBR0 are read, then the table, which has to be a direct
\* mapping by sections.
CheckMmu ==
    /\ alive /\ pc = "mmuregs"
    /\ RunScratch
    /\ IF odd \in {"dacr", "ttbcr", "ttbr0", "table"} THEN Fatal
       ELSE /\ tt' = TRUE
            /\ pc' = "disable"
            /\ UNCHANGED <<spl_len, off, limit, i>>
    /\ UNCHANGED <<soc, alive, mmu, icache, ttbr0, odd, booted, ran>>

\* Mutant: the MMU stays on while the SPL is loaded and run.
DisableMmuNot ==
    /\ alive /\ pc = "disable"
    /\ RunScratch
    /\ icache' = FALSE
    /\ limit' = soc.sram_size
    /\ pc' = "gap"
    /\ UNCHANGED <<soc, alive, spl_len, off, i, tt, mmu, ttbr0, odd, booted, ran>>

DisableMmu ==
    /\ alive /\ pc = "disable"
    /\ RunScratch
    /\ mmu' = "off"
    /\ icache' = FALSE
    /\ limit' = soc.sram_size
    /\ pc' = "gap"
    /\ UNCHANGED <<soc, alive, spl_len, off, i, tt, ttbr0, odd, booted, ran>>

\* The boot ROM does not use the MMU: DACR, TTBCR and TTBR0 are set, and a
\* table is generated, if the SoC has a place for one.  (A place that is not
\* aligned is fatal; MmuTableApart leaves no SoC with one.)
NewTable ==
    /\ alive /\ pc = "newtable"
    /\ IF soc.mmu_tt_addr = 0
       THEN UNCHANGED <<hacked, sram, tt, ttbr0, odd>>
       ELSE /\ RunScratch
            /\ tt' = TRUE
            /\ ttbr0' = soc.mmu_tt_addr
            /\ odd' = "none"
    /\ limit' = soc.sram_size
    /\ pc' = "gap"
    /\ UNCHANGED <<soc, alive, spl_len, off, i, mmu, icache, booted, ran>>

-----------------------------------------------------------------------------
(* The upload.                                                             *)

\* The limit after swap buffer j has been looked at.
LimitAt(j) ==
    IF Swap[j].buf2 >= SplAddr /\ Swap[j].buf2 < SplAddr + limit
    THEN Swap[j].buf2 - SplAddr ELSE limit

\* Mutant: a word of the SPL goes where the SPL will look for it.
BackupInPlace(j) == Swap[j].buf1

Backup(j) == Swap[j].buf2

\* Mutant: "buf" stays at the start of the image.
SendStuck(to, n) ==
    /\ sram' = [a \in Addr |-> IF a \in Region(to, n) THEN SplWord(a - to) ELSE sram[a]]
    /\ ICacheFix
    /\ off' = off + n

\* n more words of the image go to address "to": "buf", "cur_addr" and "len"
\* move on with "off".
Send(to, n) ==
    /\ sram' = [a \in Addr |-> IF a \in Region(to, n) THEN SplWord(off + (a - to)) ELSE sram[a]]
    /\ ICacheFix
    /\ off' = off + n

\* Loop, first half: the part of the SPL below BROM buffer i.
WriteGap ==
    /\ alive /\ pc = "gap" /\ i <= N
    /\ limit' = LimitAt(i)
    /\ IF off < spl_len /\ CurAddr < Swap[i].buf1
       THEN Send(CurAddr, Smaller(Swap[i].buf1 - CurAddr, spl_len - off))
       ELSE UNCHANGED <<sram, hacked, off>>
    /\ pc' = "swapped"
    /\ UNCHANGED <<soc, alive, spl_len, i, tt, mmu, icache, ttbr0, odd, booted, ran>>

\* Loop, second half: what belongs into BROM buffer i goes to its backup.
WriteSwapped ==
    /\ alive /\ pc = "swapped"
    /\ IF off < spl_len /\ CurAddr = Swap[i].buf1
       THEN Send(Backup(i), Smaller(Swap[i].size, spl_len - off))
       ELSE UNCHANGED <<sram, hacked, off>>
    /\ i' = i + 1
    /\ pc' = "gap"
    /\ UNCHANGED <<soc, alive, spl_len, limit, tt, mmu, icache, ttbr0, odd, booted, ran>>

\* Mutant: any SPL fits.
TooLargeNot == FALSE

\* The thunk limits the SPL as well.
TooLarge ==
    \/ spl_len > limit
    \/ spl_len > Minus(soc.thunk_addr, SplAddr)

\* Behind the loop.
CheckLimit ==
    /\ alive /\ pc = "gap" /\ i > N
    /\ IF TooLarge THEN Fatal
       ELSE /\ limit' = Smaller(Minus(soc.thunk_addr, SplAddr), limit)
            /\ pc' = "rest"
            /\ UNCHANGED <<spl_len, off, i, tt>>
    /\ UNCHANGED <<soc, alive, hacked, sram, mmu, icache, ttbr0, odd, booted, ran>>

\* The part of the SPL behind the last BROM buffer.
WriteRest ==
    /\ alive /\ pc = "rest"
    /\ IF off < spl_len THEN Send(CurAddr, spl_len - off)
                        ELSE UNCHANGED <<sram, hacked, off>>
    /\ pc' = "fit"
    /\ UNCHANGED <<soc, alive, spl_len, i, limit, tt, mmu, icache, ttbr0, odd, booted, ran>>

\* The thunk and its table have to fit.
CheckThunkSize ==
    /\ alive /\ pc = "fit"
    /\ IF ThunkLen(soc) > soc.thunk_size THEN Fatal
       ELSE pc' = "thunk" /\ UNCHANGED <<spl_len, off, i, limit, tt>>
    /\ UNCHANGED <<soc, alive, hacked, sram, mmu, icache, ttbr0, odd, booted, ran>>

\* The thunk is uploaded and started.
ExecThunk ==
    /\ alive /\ pc = "thunk"
    /\ Write(Region(soc.thunk_addr, ThunkLen(soc)), ToThunk)
    /\ ICacheFix
    /\ icache' = ICacheNow
    /\ pc' = "caches"
    /\ UNCHANGED <<soc, alive, spl_len, off, i, limit, tt, mmu, ttbr0, odd, booted, ran>>

-----------------------------------------------------------------------------
(* The thunk.                                                              *)

SetSig(c) == sram' = [sram EXCEPT ![SplAddr + SigWord] = Sig(c)]

\* cache_is_unsupported: back to the boot ROM without a swap.
CheckCaches ==
    /\ pc = "caches"
    /\ IF icache THEN SetSig("???") /\ pc' = "result" /\ UNCHANGED i
                 ELSE pc' = "swapin" /\ i' = 1 /\ UNCHANGED sram
    /\ UNCHANGED <<soc, host, mmu, icache, ttbr0, odd, booted, ran>>

\* Mutant: the loop takes one word too many.
SwapBufferTooFar ==
    sram' = [a \in Addr |->
        CASE a \in Region(Swap[i].buf1, Swap[i].size + 1) -> sram[Swap[i].buf2 + (a - Swap[i].buf1)]
          [] a \in Region(Swap[i].buf2, Swap[i].size + 1) -> sram[Swap[i].buf1 + (a - Swap[i].buf2)]
          [] OTHER -> sram[a]]

\* swap_next_buffer: all words of buffer i are exchanged with its backup.
SwapBuffer ==
    sram' = [a \in Addr |->
        CASE a \in Buf1(soc, i) -> sram[Swap[i].buf2 + (a - Swap[i].buf1)]
          [] a \in Buf2(soc, i) -> sram[Swap[i].buf1 + (a - Swap[i].buf2)]
          [] OTHER -> sram[a]]

SwapIn ==
    /\ pc = "swapin"
    /\ IF i <= N THEN SwapBuffer /\ i' = i + 1 /\ UNCHANGED pc
                 ELSE pc' = "checksum" /\ UNCHANGED <<sram, i>>
    /\ UNCHANGED <<soc, host, mmu, icache, ttbr0, odd, booted, ran>>

\* The image is in its place, word by word.
InPlace == \A k \in 0..(spl_len - 1) : sram[SplAddr + k] = SplWord(k)

\* verify_checksum: the sum of a damaged image, or of an image so short that
\* the length is not part of it, can come out either way.
VerifyChecksum ==
    /\ pc = "checksum"
    /\ \/ /\ SetSig("FEL")
          /\ pc' = "spl"
       \/ /\ ~(InPlace /\ LenWord < spl_len)
          /\ SetSig("BAD")
          /\ pc' = "swapout"
    /\ i' = 1
    /\ UNCHANGED <<soc, host, mmu, icache, ttbr0, odd, booted, ran>>

\* The SPL (external) may write everywhere, except to its own signature, the
\* backup buffers and the thunk, and returns.
SplMayWrite ==
    ((Addr \ Thunk(soc)) \ UNION {Buf2(soc, j) : j \in Entries(soc)}) \ {SplAddr + SigWord}

RunSpl ==
    /\ pc = "spl"
    /\ Write(SplMayWrite, ToJunk)
    /\ ran' = TRUE
    /\ pc' = "swapout"
    /\ UNCHANGED <<soc, host, i, mmu, icache, ttbr0, odd, booted>>

\* return_to_fel
SwapOut ==
    /\ pc = "swapout"
    /\ IF i <= N THEN SwapBuffer /\ i' = i + 1 /\ UNCHANGED pc
                 ELSE pc' = "result" /\ UNCHANGED <<sram, i>>
    /\ UNCHANGED <<soc, host, mmu, icache, ttbr0, odd, booted, ran>>

-----------------------------------------------------------------------------
(* aw_fel_write_and_execute_spl(), after the thunk has returned.           *)

\* Mutant: the result is not looked at.
SucceededAlways == TRUE

Succeeded == sram[SplAddr + SigWord] = Sig("FEL")

CheckSignature ==
    /\ alive /\ pc = "result"
    /\ IF ~Succeeded THEN Fatal
       ELSE /\ pc' = IF tt THEN "table" ELSE "done"
            /\ IF tt THEN UNCHANGED <<spl_len, off, limit, tt, i>> ELSE Reset
    /\ UNCHANGED <<soc, alive, hacked, sram, mmu, icache, ttbr0, odd, booted, ran>>

\* aw_restore_and_enable_mmu(): TTBR0 is read, the adapted table written ...
WriteTable ==
    /\ alive /\ pc = "table"
    /\ sram' = [a \in Addr |->
          CASE a \in Scratch(soc) \ Table -> Junk
            [] a \in Table -> ToTable(a)
            [] OTHER -> sram[a]]
    /\ ICacheFix
    /\ pc' = "enable"
    /\ UNCHANGED <<soc, alive, spl_len, off, i, limit, tt, mmu, icache, ttbr0, odd, booted, ran>>

\* ... and I-cache, MMU and branch prediction enabled.
EnableMmu ==
    /\ alive /\ pc = "enable"
    /\ RunScratch
    /\ mmu' = "tool"
    /\ icache' = TRUE
    /\ pc' = "done"
    /\ Reset
    /\ UNCHANGED <<soc, alive, ttbr0, odd, booted, ran>>

-----------------------------------------------------------------------------
(* Failures, and the next process.                                         *)

\* What the step at hand is about to overwrite.
Target ==
    CASE pc \in {"setup", "sctlr", "mmuregs", "disable", "newtable", "enable"} -> Scratch(soc)
      [] pc = "gap" /\ i <= N ->
            IF off < spl_len /\ CurAddr < Swap[i].buf1
            THEN Region(CurAddr, Smaller(Swap[i].buf1 - CurAddr, spl_len - off)) ELSE {}
      [] pc = "swapped" ->
            IF off < spl_len /\ CurAddr = Swap[i].buf1
            THEN Region(Backup(i), Smaller(Swap[i].size, spl_len - off)) ELSE {}
      [] pc = "rest" -> Region(CurAddr, spl_len - off)
      [] pc = "thunk" -> Region(soc.thunk_addr, ThunkLen(soc))
      [] pc = "table" -> Scratch(soc) \cup Table
      [] OTHER -> {}

\* usb_error(): the tool exits; the transfer it was in may have damaged its
\* target.  A thunk that is running goes on.
UsbError ==
    /\ alive /\ pc \notin {"idle", "done", "fatal"}
    /\ alive' = FALSE
    /\ \/ UNCHANGED sram
       \/ Target # {} /\ Write(Target, ToJunk)
    /\ UNCHANGED <<soc, pc, hacked, spl_len, off, i, limit, tt,
                   mmu, icache, ttbr0, odd, booted, ran>>

\* A new process meets the device as the last one left it.
Restart ==
    /\ alive /\ pc \in {"idle", "done", "fatal"}
    /\ pc' = "idle"
    /\ hacked' = FALSE
    /\ UNCHANGED <<soc, alive, spl_len, off, i, limit, tt,
                   sram, mmu, icache, ttbr0, odd, booted, ran>>

Init ==
    /\ soc \in Socs
    /\ alive = TRUE
    /\ pc = "idle"
    /\ hacked = FALSE
    /\ spl_len = 0 /\ off = 0 /\ i = 1 /\ limit = 0 /\ tt = FALSE
    /\ mmu \in {"off", "brom"}
    /\ icache \in BOOLEAN
    /\ booted = (icache /\ mmu = "off")
    /\ ttbr0 \in {a \in Addr : a % TtSize = 0 /\ a + TtSize <= MaxAddr + 1 /\ TableApart(soc, a)}
    /\ odd \in {"none", "sctlr", "dacr", "ttbcr", "ttbr0", "table"}
    /\ sram = [a \in Addr |-> IF mmu = "brom" /\ a \in Table THEN ToTable(a) ELSE Old(a)]
    /\ ran = FALSE

aw_backup_and_disable_mmu == CheckSctlr \/ CheckMmu \/ DisableMmu

Upload == WriteGap \/ WriteSwapped \/ CheckLimit \/ WriteRest \/ CheckThunkSize \/ ExecThunk

ThunkStep == CheckCaches \/ SwapIn \/ VerifyChecksum \/ SwapOut

aw_restore_and_enable_mmu == WriteTable \/ EnableMmu

Next ==
    \/ \E file, len \in 0..MaxFile, magic, aligned, sum \in BOOLEAN :
          (sum => len # 0) /\ CheckImage(file, len, magic, aligned, sum)
    \/ Setup
    \/ aw_backup_and_disable_mmu
    \/ NewTable
    \/ Upload
    \/ ThunkStep
    \/ RunSpl
    \/ CheckSignature
    \/ aw_restore_and_enable_mmu
    \/ UsbError
    \/ Restart

Spec == Init /\ [][Next]_vars

-----------------------------------------------------------------------------
(* Properties.                                                             *)

HostSteps == {"idle", "done", "fatal", "setup", "sctlr", "mmuregs", "disable", "newtable", "gap",
              "swapped", "rest", "fit", "thunk", "result", "table", "enable"}
ThunkSteps == {"caches", "swapin", "checksum", "spl", "swapout"}

\* The variables have their types; "off" never passes the end of the image.
TypeOK ==
    /\ soc \in Socs
    /\ alive \in BOOLEAN
    /\ pc \in HostSteps \cup ThunkSteps
    /\ hacked \in BOOLEAN
    /\ spl_len \in 0..MaxFile
    /\ off \in 0..spl_len
    /\ i \in 1..(N + 1)
    /\ limit \in Nat
    /\ tt \in BOOLEAN
    /\ sram \in [Addr -> Words]
    /\ mmu \in {"off", "brom", "tool"}
    /\ icache \in BOOLEAN
    /\ ttbr0 \in Addr /\ ttbr0 + TtSize <= MaxAddr + 1
    /\ odd \in {"none", "sctlr", "dacr", "ttbcr", "ttbr0", "table"}
    /\ booted \in BOOLEAN
    /\ ran \in BOOLEAN

\* Whenever the boot ROM is in control, its own data is where it left it:
\* through uploads, fatal errors, USB errors, the thunk's swaps and all SPLs
\* run before (soc_info.h: buffers "exchanged before calling the U-Boot SPL
\* code and then exchanged again before returning control").
BromSafe ==
    pc \in HostSteps => \A a \in BromLive(soc) : sram[a] = Old(a)

\* When the thunk calls the SPL, every word of the image is in its place,
\* whether it was uploaded there or came through a backup buffer.
SplComplete ==
    pc = "spl" =>
        \A k \in 0..(spl_len - 1) :
            sram[SplAddr + k] = IF k = SigWord THEN Sig("FEL") ELSE SplWord(k)

\* The thunk, with the table it swaps by, is intact until it has returned.
ThunkIntact ==
    pc \in ThunkSteps =>
        \A k \in 0..(ThunkLen(soc) - 1) : sram[soc.thunk_addr + k] = ThunkWord(k)

\* While the MMU is on, TTBR0 points to an intact direct mapping; the tool
\* only turns it on with the registers set as it wants them.
MmuSafe ==
    /\ mmu # "off" => \A k \in 0..(TtSize - 1) : sram[ttbr0 + k] = TtWord(k)
    /\ mmu = "tool" => odd \in {"none", "sctlr"}

\* The tool takes a call for successful only if the SPL has run in that call:
\* an "eGON.FEL" left behind by an earlier SPL is not mistaken for it.
NoFalseSuccess == pc \in {"table", "enable", "done"} => ran

\* A thunk that gives up with "eGON.???" met an I-cache that the boot ROM left
\* on with the MMU off, on a SoC without the I-cache workaround; "eGON.BAD" is
\* for images that end within their header.
VerdictJustified ==
    /\ pc = "result" /\ sram[SplAddr + SigWord] = Sig("???") => booted /\ ~soc.icache_fix
    /\ pc = "result" /\ sram[SplAddr + SigWord] = Sig("BAD") => spl_len <= LenWord

TableInTurn == IF pc = "table" THEN Table ELSE {}

MayWrite ==
    Region(SplAddr, soc.sram_size) \cup Thunk(soc) \cup Scratch(soc)
    \cup (UNION {Buf2(soc, j) : j \in Entries(soc)})
    \cup TableInTurn

\* The loader writes to the part of the SRAM that is the SPL's, the backup
\* buffers, the places of thunk and scratch code and the translation table,
\* and nowhere else, an SPL that turns out to be too large included.
Contained == [][(pc \in HostSteps => \A a \in Addr \ MayWrite : sram'[a] = sram[a])]_vars

=============================================================================
