------------------------------ MODULE NandPart ------------------------------
(***************************************************************************)
(* sunxi-nand-part: lists and rewrites the partition table of Allwinner    *)
(* NAND devices (nand-part-main.c, nand-part.c built once per format).     *)
(*                                                                         *)
(* The table is kept in four copies at the start of the device.  A copy is *)
(* good when its magic and its CRC are right; the last good copy counts.   *)
(* The tool rewrites the copies one after the other and can die between    *)
(* any two of them or in the middle of one, and write() can fail, which    *)
(* the code does not look at.                                              *)
(*                                                                         *)
(* writembrs() frees its buffers and goes on using one of them.  What the  *)
(* allocator leaves of the first 16 bytes (checksum, version and magic) of *)
(* a freed block is either choice here: intact, or overwritten.            *)
(***************************************************************************)
EXTENDS Integers, Sequences, FiniteSets, FiniteSetsExt, SequencesExt

CONSTANTS
    WORD,            \* how many values a __u32 has, scaled down
    MAX_PART_COUNT,  \* [Formats -> Nat]: entries of MBR.array, scaled down
    Tables,          \* partition tables a device may come with
    Starts,          \* numbers the user may give for start1
    ArgLens,         \* lists of lengths the user may give: "%d", into a __u32
    MaxRuns,         \* bound: how often the tool is started
    MaxFaults        \* bound: crashes and failing writes

Formats == {"a10", "a20"}
MBR_COPY_NUM == 4
Copies == 0..(MBR_COPY_NUM - 1)
MBR_SIZE == [a10 |-> 1024, a20 |-> 1024 * 16]

NoStart == -1                     \* argv[0] is not a number

(***************************************************************************)
(* A table is the sequence of its first PartCount partitions.  Sectors and *)
(* lengths are 32 bits: a negative length on the command line is a large   *)
(* one here, and printing with %d and reading again with %u or %d, as the  *)
(* backup is, keeps the bits.                                              *)
(***************************************************************************)
U32 == 0..(WORD - 1)
Add32(x, y) == (x + y) % WORD
PARTITION(addrlo, lenlo) == [addrlo |-> addrlo, lenlo |-> lenlo]
Partitions == [addrlo : U32, lenlo : U32]

ASSUME WordAssumption == WORD \in Nat \ {0}
ASSUME ArgsAssumption ==
    /\ MAX_PART_COUNT \in [Formats -> Nat]
    /\ Starts \subseteq U32 /\ ArgLens \subseteq Seq(U32)
ASSUME TablesAssumption ==
    \A t \in Tables : t \in Seq(Partitions) /\ t # <<>>

MBR(magic, index, parts, crc32) ==
    [magic |-> magic, index |-> index, parts |-> parts, crc32 |-> crc32]

(***************************************************************************)
(* The CRC stands for the bytes it was computed over: it is right exactly  *)
(* when they are still the ones in the block.  magic stands for magic and  *)
(* version, which are written and checked together.                        *)
(***************************************************************************)
calc_crc32(m) == <<m.magic, m.index, m.parts>>
Junk == MBR("junk", 0, <<>>, <<>>)

\* The lowest start the tool accepts: the four copies, in sectors.
MinStart(f) == (MBR_SIZE[f] * MBR_COPY_NUM) \div 512

VARIABLES
    dev,        \* the device: dev[f][i] is what format f finds as copy i
    backup,     \* nand_mbr.backup: a first sector and lengths, or a mark
    pc,         \* where the running tool is, "idle" when it does not run
    run,        \* its arguments: format, force, start, lens, partoffset
    mbr,        \* the table in (freed) memory
    copy,       \* the copy written next
    runs, faults,
    base,       \* history: the table in effect when writembrs() read them
    bypassed,   \* history: -f took the last copy although it was not good
    announced,  \* history: the table shown under "ready to write"
    failed,     \* history: what this run could not write, unnoticed
    known       \* history: tables the device came with or the user confirmed

vars == <<dev, backup, pc, run, mbr, copy, runs, faults, base, bypassed,
          announced, failed, known>>

NoTable == <<>>
Backup(start, lens) == [start |-> start, lens |-> lens]
NoBackup == Backup(-1, <<>>)
Truncated == Backup(-2, <<>>)
NoRun == [format |-> "a10", force |-> FALSE, start |-> NoStart,
          lens |-> <<>>, partoffset |-> 0]

-----------------------------------------------------------------------------
(* Reading.  _get_mbr() without force. *)

get_mbrNoCrc(f, m) == m.magic = f
get_mbr(f, m) == m.magic = f /\ m.crc32 = calc_crc32(m)

Good(d, f) == {i \in Copies : get_mbr(f, d[f][i])}

\* The copy checkmbrs() and writembrs() end up with, NoTable when none is good.
LastGood(d, f) ==
    IF Good(d, f) = {} THEN NoTable ELSE d[f][Max(Good(d, f))].parts

checkmbrs(d, f) == Good(d, f) # {}

\* The format main() chooses when it is not given with -f.
Detected(d) == {f \in Formats : /\ checkmbrs(d, f)
                                /\ f = "a20" => ~checkmbrs(d, "a10")}

(***************************************************************************)
(* Writing copy i of format f.  All A10 copies (1 KiB each) lie inside the *)
(* first A20 copy (16 KiB): each format destroys what it covers of the     *)
(* other, and no more.                                                     *)
(***************************************************************************)
Written(d, f, i, m) ==
    LET own == [d EXCEPT ![f][i] = m]
    IN  IF f = "a10" THEN [own EXCEPT !.a20[0] = Junk]
        ELSE IF i = 0 THEN [own EXCEPT !.a10 = [j \in Copies |-> Junk]]
        ELSE own

\* The same when the write stops within the first KiB of the copy.
WrittenHead(d, f, i, m) ==
    LET other == IF f = "a10" THEN "a20" ELSE "a10"
    IN  IF f = "a10" \/ i = 0
        THEN [d EXCEPT ![f][i] = m, ![other][0] = Junk]
        ELSE [d EXCEPT ![f][i] = m]

\* What free() may leave of the block: the header is intact or lost.
AfterFree(m) == {m, [m EXCEPT !.magic = "junk"]}

-----------------------------------------------------------------------------
Formatted(f, t, good) ==
    [g \in Formats |-> [i \in Copies |->
        IF g = f /\ i \in good
        THEN MBR(f, i, t, <<f, i, t>>) ELSE Junk]]

Init ==
    /\ \E f \in Formats, t \in Tables, good \in {Copies, {0}, {0, 3}, {1, 2}} :
          /\ t[1].addrlo >= MinStart(f)
          /\ dev = Formatted(f, t, good)
          /\ known = {t}
    /\ backup = NoBackup
    /\ pc = "idle" /\ run = NoRun /\ mbr = Junk /\ copy = 0
    /\ runs = 0 /\ faults = 0
    /\ base = NoTable /\ bypassed = FALSE /\ announced = NoTable /\ failed = {}

(***************************************************************************)
(* main() and the arguments of nand_part(): the format is given by -f or   *)
(* found on the device; -f needs a start; a start below the copies is      *)
(* refused, and so are more lengths than the table has entries.            *)
(***************************************************************************)
ArgsOk(f, force, start, lens) ==
    LET partoffset == IF start = NoStart THEN 1 ELSE 0
    IN  /\ force => start # NoStart
        /\ start # NoStart => start >= MinStart(f)
        /\ Len(lens) <= MAX_PART_COUNT[f] - partoffset
        /\ Len(lens) > 0

(***************************************************************************)
(* A run that writes nothing: without lengths it lists the table, and bad  *)
(* arguments are refused.  Without a start the code compares a variable it *)
(* has not set, and the run is refused or goes on, whatever the stack      *)
(* holds.  The lengths are counted only after they have been parsed: more  *)
(* of them than MAX_PART_COUNT have then been stored past the ends of      *)
(* names[], lens[] and user_types[], and the run is refused or the process *)
(* has died of it.                                                         *)
(***************************************************************************)
nand_partEnds(force, f, start, lens) ==
    /\ pc = "idle" /\ runs < MaxRuns
    /\ force \/ f \in Detected(dev)
    /\ ~ArgsOk(f, force, start, lens) \/ start = NoStart
    /\ runs' = runs + 1
    /\ UNCHANGED <<dev, backup, pc, run, mbr, copy, faults, base, bypassed,
                   announced, failed, known>>

nand_part(force, f, start, lens) ==
    /\ pc = "idle" /\ runs < MaxRuns
    /\ force \/ f \in Detected(dev)
    /\ ArgsOk(f, force, start, lens)
    /\ run' = [format |-> f, force |-> force, start |-> start, lens |-> lens,
               partoffset |-> IF start = NoStart THEN 1 ELSE 0]
    /\ pc' = "read" /\ runs' = runs + 1 /\ failed' = {}
    /\ base' = NoTable /\ bypassed' = FALSE /\ announced' = NoTable
    /\ UNCHANGED <<dev, backup, mbr, copy, faults, known>>

(***************************************************************************)
(* writembrs(), up to fopen(): the last copy that can be used is taken;    *)
(* -f uses the last copy whatever it holds and repairs its header, also    *)
(* when there is a good one before it.  When no copy is good, or the       *)
(* backup cannot be opened, nothing happens.                               *)
(***************************************************************************)
ReadMbrs ==
    /\ pc = "read"
    /\ LET f == run.format
           last == IF run.force
                   THEN [dev[f][MBR_COPY_NUM - 1] EXCEPT !.magic = f]
                   ELSE dev[f][Max(Good(dev, f))]
       IN  \/ /\ run.force \/ checkmbrs(dev, f)
              /\ mbr' = last /\ base' = LastGood(dev, f)
              /\ bypassed' = (run.force /\ (MBR_COPY_NUM - 1) \notin Good(dev, f))
              /\ backup' = Truncated /\ pc' = "backup"
           \/ /\ pc' = "idle"                   \* all bad, or no backup file
              /\ UNCHANGED <<mbr, base, bypassed, backup>>
    /\ UNCHANGED <<dev, run, copy, runs, faults, announced, failed, known>>

\* Partitions of the given lengths, one behind the other: start += lens[i].
Consecutive(start, lens) ==
    LET at[i \in 1..Len(lens)] ==
            IF i = 1 THEN start ELSE Add32(at[i - 1], lens[i - 1])
    IN  [i \in 1..Len(lens) |-> PARTITION(at[i], lens[i])]

NewParts(m, r) ==
    LET old0 == m.parts[1]
    IN  IF r.partoffset = 1
        THEN <<old0>> \o Consecutive(Add32(old0.addrlo, old0.lenlo), r.lens)
        ELSE Consecutive(r.start, r.lens)

\* The backup is a line of arguments: the first sector, then names and lengths.
BackupOf(parts) ==
    IF parts = NoTable THEN Backup(0, <<>>)
    ELSE Backup(parts[1].addrlo, [i \in DOMAIN parts |-> parts[i].lenlo])

\* A plausible slip: the backup is taken from the table already changed.
BackupAfterChange ==
    /\ pc = "backup"
    /\ backup' = BackupOf(NewParts(mbr, run))
    /\ LET new == [mbr EXCEPT !.parts = NewParts(mbr, run)]
       IN  /\ announced' = new.parts
           /\ mbr' \in AfterFree(new)
    /\ pc' = "ask"
    /\ UNCHANGED <<dev, run, copy, runs, faults, base, bypassed, failed, known>>

(***************************************************************************)
(* The backup is written, or is not and nobody looks; the new table is     *)
(* computed and shown, and the blocks are freed.                           *)
(***************************************************************************)
BackupAndAnnounce ==
    /\ pc = "backup"
    /\ \/ /\ backup' = BackupOf(mbr.parts)
          /\ UNCHANGED <<faults, failed>>
       \/ /\ faults < MaxFaults
          /\ faults' = faults + 1 /\ failed' = failed \cup {"backup"}
          /\ UNCHANGED backup
    /\ LET new == [mbr EXCEPT !.parts = NewParts(mbr, run)]
       IN  /\ announced' = new.parts
           /\ mbr' \in AfterFree(new)
    /\ pc' = "ask"
    /\ UNCHANGED <<dev, run, copy, runs, base, bypassed, known>>

\* "write new partition tables? (Y/N)"
Answer(yes) ==
    /\ pc = "ask"
    /\ pc' = IF yes THEN "write" ELSE "idle"
    /\ copy' = 0
    /\ known' = IF yes THEN known \cup {announced} ELSE known
    /\ UNCHANGED <<dev, backup, run, mbr, runs, faults, base, bypassed,
                   announced, failed>>

-----------------------------------------------------------------------------
(* The loop over the copies: index, checksum, lseek, write. *)

StampedOnce(m, i) == [m EXCEPT !.index = i]
Stamped(m, i) == LET mi == [m EXCEPT !.index = i]
                 IN  [mi EXCEPT !.crc32 = calc_crc32(mi)]

\* The header and the first k entries reach the device, the rest is still old.
Torn(m, old) ==
    {[m EXCEPT !.parts = [i \in DOMAIN m.parts |->
         IF i <= k THEN m.parts[i]
         ELSE IF i \in DOMAIN old.parts THEN old.parts[i]
         ELSE PARTITION(0, 0)]] : k \in 0..Len(m.parts)}

WriteCopy ==
    /\ pc = "write" /\ copy < MBR_COPY_NUM
    /\ mbr' = Stamped(mbr, copy)
    /\ \/ /\ dev' = Written(dev, run.format, copy, mbr')
          /\ UNCHANGED <<faults, failed>>
       \/ /\ faults < MaxFaults                 \* write() fails: not noticed
          /\ faults' = faults + 1 /\ failed' = failed \cup {"device"}
          /\ UNCHANGED dev
    /\ copy' = copy + 1
    /\ UNCHANGED <<backup, pc, run, runs, base, bypassed, announced, known>>

\* BLKRRPART, "verifying new partition tables", exit.
Verify ==
    /\ pc = "write" /\ copy = MBR_COPY_NUM
    /\ pc' = "idle"
    /\ UNCHANGED <<dev, backup, run, mbr, copy, runs, faults, base, bypassed,
                   announced, failed, known>>

\* The process or the power goes away, perhaps in the middle of a copy.
Crash ==
    /\ pc # "idle" /\ faults < MaxFaults
    /\ faults' = faults + 1 /\ pc' = "idle"
    /\ \/ UNCHANGED dev
       \/ /\ pc = "write" /\ copy < MBR_COPY_NUM
          /\ \E m \in Torn(Stamped(mbr, copy), dev[run.format][copy]) :
                dev' \in {Written(dev, run.format, copy, m),
                          WrittenHead(dev, run.format, copy, m)}
    /\ UNCHANGED <<backup, run, mbr, copy, runs, base, bypassed, announced,
                   failed, known>>

Next ==
    \/ \E force \in BOOLEAN, f \in Formats, s \in Starts \cup {NoStart},
          l \in ArgLens :
             nand_part(force, f, s, l) \/ nand_partEnds(force, f, s, l)
    \/ ReadMbrs
    \/ BackupAndAnnounce
    \/ \E yes \in BOOLEAN : Answer(yes)
    \/ WriteCopy
    \/ Verify
    \/ Crash

Spec == Init /\ [][Next]_vars

-----------------------------------------------------------------------------
(* Properties *)

\* Partitions that follow each other without a gap, as 32 bits count sectors.
Contiguous(p) ==
    \A k \in 2..Len(p) : p[k].addrlo = Add32(p[k-1].addrlo, p[k-1].lenlo)

\* The k-th partition lies behind the copies, or behind a partition that
\* reaches the end of the 32-bit sector numbers.
ClearOfCopies(f, p, k) ==
    \/ p[k].addrlo >= MinStart(f)
    \/ \E j \in 1..(k - 1) : p[j].addrlo + p[j].lenlo >= WORD

(***************************************************************************)
(* Every copy that a later start of the tool accepts holds a table that    *)
(* the device came with or that a user confirmed: a crash, a torn or a     *)
(* failed write never produces a third one.  Its first partition starts    *)
(* behind the copies themselves, after any number of runs that keep it,    *)
(* and unless the device came with the table its partitions follow each    *)
(* other modulo 2^32, so that none starts within the copies unless one     *)
(* before it reaches sector 2^32: lengths are not checked, and a negative  *)
(* or huge one wraps (nand-part.c:73-115, 217-231, 246-252, 295-302).      *)
(***************************************************************************)
GoodCopiesSound ==
    \A f \in Formats : \A i \in Good(dev, f) :
        LET p == dev[f][i].parts
        IN  /\ p \in known
            /\ p[1].addrlo >= MinStart(f)
            /\ \/ p \in Tables
               \/ Contiguous(p) /\ \A k \in 1..Len(p) : ClearOfCopies(f, p, k)

(***************************************************************************)
(* From the question to the user on, until the run ends, the backup file   *)
(* describes the table that was in effect when the run began: given back   *)
(* to the tool as arguments it yields that table, if its partitions were   *)
(* contiguous (gaps are not saved), the file could be written, and -f did  *)
(* not take the last copy although that one was bad.  When all four        *)
(* copies have been written without an error the device holds the table    *)
(* the user was shown under "ready to write new partition tables:", unless *)
(* the freed block it was written from had been used for something else    *)
(* (nand-part.c:197-260).                                                  *)
(***************************************************************************)
RunHonest ==
    /\ /\ pc \in {"ask", "write"} /\ "backup" \notin failed
       /\ Contiguous(base) /\ ~bypassed
       => Consecutive(backup.start, backup.lens) = base
    /\ /\ pc = "write" /\ copy = MBR_COPY_NUM
       /\ "device" \notin failed /\ mbr.magic = run.format
       => LastGood(dev, run.format) = announced

(***************************************************************************)
(* While the copies are rewritten, and over a crash, the table a reader    *)
(* finds changes from the old to the announced one and never back; there   *)
(* can be none only when the very first copy was torn, or the freed block  *)
(* had lost its header (nand-part.c:152-156, 246-252).                     *)
(***************************************************************************)
SwitchStep ==
    LET now == LastGood(dev, run.format)
        then == LastGood(dev', run.format)
    IN  pc = "write" /\ "device" \notin failed' /\ then # now =>
           \/ then = announced
           \/ then = NoTable /\ (mbr.magic # run.format \/ copy = 0)
SwitchOnce == [][SwitchStep]_vars

=============================================================================
