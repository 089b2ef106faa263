------------------------------- MODULE FelCmd -------------------------------
(***************************************************************************)
(* main() of sunxi-fel: the commands of the command line, one after the    *)
(* other, on the device that FelDevice has opened.                         *)
(*                                                                         *)
(* Memory is the target's DRAM, where the user puts files and U-Boot goes; *)
(* a cell is <<name, i>>, byte i of the file or image of that name.  What  *)
(* the commands do to the SRAM behind it (scratch code, SPL, MMU) is in    *)
(* FelSpl, FelMemmove and SpiFlash.  A USB error can end the tool at any   *)
(* point; what a transfer leaves behind then is in FelMem.                 *)
(***************************************************************************)
EXTENDS FelDevice, FitImage

CONSTANTS
    MaxAddr,         \* memory is 0..MaxAddr
    HEADER_SIZE,     \* of a mkimage header, scaled down
    SPL_MIN_OFFSET,  \* U-Boot is at least here in its file, scaled down
    UENV_MAGIC,      \* length of "#=uEnv", scaled down
    FileInfo,        \* what is in each file, see below
    Starts,          \* [words, want, bus, driver, changes, files, fits]: how
                     \* the tool is called, and what it finds
    MaxFileChanges   \* bound: how often a file changes during an upload

(***************************************************************************)
(* FileInfo[n] is [type, spl_len, ver, dt, tail]: the image type that      *)
(* get_image_type() finds or "uEnv" or "data"; for an SPL (spl_len > 0)    *)
(* the length in its eGON header, the version of its "sunxi" header (0: it *)
(* has none) and the DT name there; and the image behind it, [type, load,  *)
(* size, hcrc, dcrc].  Its FIT image, if it is one, is fits[n].            *)
(***************************************************************************)
Addr == 0..MaxAddr
Words == [kind : STRING, name : STRING, num : Nat]

ASSUME SizesAssumption ==
    /\ MaxAddr \in Nat /\ HEADER_SIZE \in Nat /\ SPL_MIN_OFFSET \in Nat
    /\ NoBoard \notin DOMAIN Board

ASSUME FilesAssumption ==
    \A n \in DOMAIN FileInfo :
       /\ n # NoName /\ FileInfo[n].spl_len \in Nat
       /\ FileInfo[n].tail.load \in Nat /\ FileInfo[n].tail.size \in Nat

ASSUME StartsAssumption ==
    \A s \in Starts :
       /\ s.words \in Seq(Words) /\ s.changes \in Nat
       /\ s.bus \in [Ports -> DOMAIN Board \cup {NoBoard}]
       /\ \A n \in DOMAIN s.files : s.files[n] \in Seq(Cell)
       /\ \A n \in DOMAIN FileInfo : FileInfo[n].tail.type = "flatdt" =>
             n \in DOMAIN s.fits /\ IsFitImage(s.fits[n])

\* The sum of a sequence of numbers.
Sum(s) ==
    LET sum[i \in 0..Len(s)] == IF i = 0 THEN 0 ELSE sum[i - 1] + s[i]
    IN  sum[Len(s)]

\* strtoul() makes 0 of what is no number.
strtoul(w) == IF w.kind = "num" THEN w.num ELSE 0

\* The words of the command at the head of a line and of its arguments, as
\* usage() lists them.
UsageOf(line) ==
    LET name == line[1].name
    IN  CASE name \in {"ver", "sid", "wdreset", "spiflash-info"} -> 1
          [] name \in {"readl", "exe", "echo-gauge", "spl", "uboot", "reset64"} -> 2
          [] name \in {"hex", "writel", "clear", "write", "write-with-progress",
                       "spiflash-write"} -> 3
          [] name \in {"memmove", "fill", "read", "spiflash-read"} -> 4
          [] name = "multi" ->
                2 + 2 * (IF Len(line) > 1 THEN strtoul(line[2]) ELSE 0)

(***************************************************************************)
(* want is the length of each command of the line.  A line has its options *)
(* first, each with its value, and then commands as usage() has them; only *)
(* the last one may be cut short.                                          *)
(***************************************************************************)
TakesValue(w) == w.kind = "opt" /\ w.name \in {"--dev", "--sid"}

IsOption(w) == w.kind \in {"opt", "bare"}

OptionsFirst(w, k) ==
    /\ \A i \in DOMAIN w : IsOption(w[i]) => i <= k
    /\ \A i \in 1..k :
          /\ ~IsOption(w[i]) => i > 1 /\ TakesValue(w[i - 1])
          /\ w[i].kind = "bare" => w[i].name \in Bare
          /\ w[i].kind = "opt" /\ w[i].name = "--sid" =>
                i = Len(w) \/ (i < k /\ ~IsOption(w[i + 1]))

ThenCommands(w, lens, k) ==
    \A i \in DOMAIN lens :
       LET from == k + Sum(SubSeq(lens, 1, i - 1)) + 1
           n    == UsageOf(SubSeq(w, from, Len(w)))
       IN  /\ w[from].kind = "cmd"
           /\ lens[i] = n \/ (i = Len(lens) /\ lens[i] < n)

ASSUME UsageAssumption ==
    \A s \in Starts :
       LET k == Len(s.words) - Sum(s.want)
       IN  /\ s.want \in Seq(Nat \ {0}) /\ k >= 0
           /\ OptionsFirst(s.words, k) /\ ThenCommands(s.words, s.want, k)

Old == <<"old", 0>>
Ones(name, n) == [i \in 1..n |-> <<name, i>>]

VARIABLES
    files,            \* the host's files: [names -> sequences of cells]
    mem,              \* target memory
    uboot_entry, uboot_size, enter_in_aarch64, uboot_autostart,
    progress,         \* [cb, total, done] of progress.c
    up,               \* [i, count, base]: the loop of file_upload()
    spl,              \* version in the SPL header in SRAM, 0 if none
    bootinfo,         \* script address and uEnv length passed there
    heap,             \* files whose buffers were freed
    fileChanges,
    fits,             \* the FIT images in the files
    words, want,      \* history: words after the options, commands' lengths
    log,              \* history: commands carried out, <<first word, words>>
    last,             \* history: the image loaded last
    fresh,            \* history: the last command was the one that loaded it
    lastFit,          \* history: the last FIT image with a configuration
    shot, loose,      \* history: all that a load has written, as it was then;
                      \* cells that unguarded writes have hit since
    script,           \* history: the script uploaded since the last SPL with
                      \* a "sunxi" header
    meter,            \* history: what progress counts
    started           \* history: what has been started on the target

cmdVars == <<files, mem, uboot_entry, uboot_size, enter_in_aarch64,
             uboot_autostart, progress, up, spl, bootinfo, heap, fileChanges,
             fits, words, want, log, last, fresh, lastFit, shot, loose, script,
             meter, started>>
vars == <<pc, args, devVars, cmdVars>>

\* What most commands leave alone.
imageVars == <<uboot_entry, uboot_size, enter_in_aarch64, last, lastFit, shot>>
splVars == <<spl, bootinfo, script, heap>>
meterVars == <<progress, meter>>
givenVars == <<fits, words, want>>
otherVars == <<devVars, up, fileChanges, givenVars>>

NoProgress == [cb |-> FALSE, total |-> 0, done |-> 0]
NoUpload == [i |-> 0, count |-> 0, base |-> 0]
NoInfo == <<0, 0>>
NoImage == [name |-> NoName, kind |-> "none", dt |-> NoName, by |-> "none",
            file |-> NoName, len |-> 0]
NotStarted == [entry |-> 0, aarch64 |-> FALSE, by |-> "none"]

Init ==
    \E s \in Starts :
       /\ pc = "options" /\ args = s.words /\ DevInit(s.bus, s.driver, s.changes)
       /\ files = s.files /\ fits = s.fits /\ words = Sum(s.want) /\ want = s.want
       /\ mem = [a \in Addr |-> Old]
       /\ uboot_entry = 0 /\ uboot_size = 0
       /\ enter_in_aarch64 = FALSE /\ uboot_autostart = FALSE
       /\ progress = NoProgress /\ up = NoUpload
       /\ spl = 0 /\ bootinfo = NoInfo /\ heap = {} /\ fileChanges = 0
       /\ log = <<>> /\ last = NoImage /\ fresh = FALSE /\ lastFit = NoImage
       /\ shot = << >> /\ loose = {} /\ script = NoInfo
       /\ meter = "none" /\ started = NotStarted

-----------------------------------------------------------------------------
(* The commands. *)

\* argv[1] is this command and has at least n words after it.
Command(name, n) ==
    /\ pc = "loop" /\ args # <<>>
    /\ args[1].kind = "cmd" /\ args[1].name = name
    /\ Len(args) > n

\* The command used n words and the loop goes on after skip words.
Took(n, skip) ==
    /\ log' = Append(log, <<words - Len(args), n, args[1].name>>)
    /\ args' = SubSeq(args, skip + 1, Len(args))

\* pr_fatal() and exit(1).
Fatal ==
    /\ Exit("exit 1")
    /\ UNCHANGED <<args, devVars, cmdVars>>

\* A read of argv[argc]: strtoul(NULL).
Crash ==
    /\ Exit("crashed")
    /\ UNCHANGED <<args, devVars, cmdVars>>

At(a) == IF a \in Addr THEN mem[a] ELSE Old

Overlay(m, addr, data) ==
    [a \in Addr |-> IF a \in addr .. (addr + Len(data) - 1)
                    THEN data[a - addr + 1] ELSE m[a]]

\* The guard of aw_write_buffer().
OverlapsStart(offset, len) ==
    uboot_size > 0 /\ offset <= uboot_entry + uboot_size /\ offset >= uboot_entry
Overlaps(offset, len) ==
    /\ uboot_size > 0
    /\ offset <= uboot_entry + uboot_size
    /\ offset + len >= uboot_entry

-----------------------------------------------------------------------------
(* Commands that change neither DRAM nor the tool. *)

NoEffect(name, n) ==
    /\ Command(name, n) /\ Took(n + 1, n + 1) /\ fresh' = FALSE
    /\ UNCHANGED <<pc, files, mem, loose, uboot_autostart, started,
                   imageVars, splVars, meterVars, otherVars>>

aw_fel_hexdump == NoEffect("hex", 2)               \* and "dump"
fel_readl == NoEffect("readl", 1)
aw_fel_print_version == NoEffect("ver", 0)
aw_fel_print_sid == NoEffect("sid", 0)             \* and "sid-registers"
echo_gauge == NoEffect("echo-gauge", 1)
aw_fel_spiflash_info == NoEffect("spiflash-info", 0)

NoEffects == \/ aw_fel_hexdump \/ fel_readl \/ aw_fel_print_version
             \/ aw_fel_print_sid \/ echo_gauge \/ aw_fel_spiflash_info

\* Commands that write to memory without the guard; cells is what they touch.
Unguarded(newmem, cells) ==
    /\ mem' \in newmem /\ loose' = loose \cup cells /\ fresh' = FALSE
    /\ UNCHANGED <<pc, files, uboot_autostart, started,
                   imageVars, splVars, meterVars, otherVars>>

fel_memmove ==
    /\ Command("memmove", 3)
    /\ LET dst  == strtoul(args[2])
           data == [i \in 1..strtoul(args[4]) |-> At(strtoul(args[3]) + i - 1)]
       IN  Unguarded({Overlay(mem, dst, data)}, dst .. (dst + Len(data) - 1))
    /\ Took(4, 4)

\* A plausible slip: the value is left to be taken for a command.
fel_writelSkip2 ==
    /\ Command("writel", 2)
    /\ LET addr == strtoul(args[2])
       IN  Unguarded({Overlay(mem, addr, Ones("writel", 4))}, addr .. (addr + 3))
    /\ Took(3, 2)

fel_writel ==
    /\ Command("writel", 2)
    /\ LET addr == strtoul(args[2])
       IN  Unguarded({Overlay(mem, addr, Ones("writel", 4))}, addr .. (addr + 3))
    /\ Took(3, 3)

\* Uploaded code and a reset may do anything to memory.
Anything == {mem, [a \in Addr |-> Old]}

\* exe takes one argument and skips two.
aw_fel_execute ==
    /\ Command("exe", 1) /\ Unguarded(Anything, Addr) /\ Took(2, 3)

aw_wd_reset ==
    /\ Command("wdreset", 0)
    /\ IF Board[handle].watchdog THEN Unguarded(Anything, Addr)
                                 ELSE Unguarded({mem}, {})
    /\ Took(1, 1)

\* clear reads argv[3] and fill argv[4], whether they are there or not.
aw_fel_fill(name, n) ==
    /\ Command(name, n - 1)
    /\ IF Len(args) = n THEN Crash
       ELSE LET offset == strtoul(args[2])
                size   == strtoul(args[3])
            IN  IF size > 0 /\ Overlaps(offset, size)
                THEN Fatal
                ELSE /\ mem' = Overlay(mem, offset, Ones(name, size))
                     /\ Took(n + 1, n + 1) /\ fresh' = FALSE
                     /\ UNCHANGED <<pc, files, loose, uboot_autostart, started,
                                    imageVars, splVars, meterVars, otherVars>>

-----------------------------------------------------------------------------
(* Files. *)

FileName(w) == IF w.kind = "file" THEN w.name ELSE NoName
Exists(w) == FileName(w) \in DOMAIN files

\* The file that data is the beginning of, going by its first byte.
Head1(data) == IF data # <<>> /\ data[1][2] = 1 /\ data[1][1] \in DOMAIN FileInfo
               THEN data[1][1] ELSE NoName

\* Only the types that callers tell apart: "script", "flatdt", "firmware", ...
get_image_type(data) ==
    IF Len(data) <= HEADER_SIZE \/ Head1(data) = NoName THEN "invalid"
    ELSE FileInfo[Head1(data)].type

is_uEnv(data) ==
    /\ Len(data) > UENV_MAGIC
    /\ Head1(data) # NoName /\ FileInfo[Head1(data)].type = "uEnv"

(***************************************************************************)
(* save_file(): a file that cannot be opened is fatal; a write that falls  *)
(* short is not noticed.                                                   *)
(***************************************************************************)
save_file(w, data) ==
    \E d \in {data, <<>>} :
        files' = IF w.kind = "file"
                 THEN [n \in DOMAIN files \cup {w.name} |->
                          IF n = w.name THEN d ELSE files[n]]
                 ELSE files

read ==
    /\ Command("read", 3)
    /\ \/ Fatal
       \/ /\ save_file(args[4], [i \in 1..strtoul(args[3]) |->
                                    At(strtoul(args[2]) + i - 1)])
          /\ Took(4, 4) /\ fresh' = FALSE
          /\ UNCHANGED <<pc, mem, loose, uboot_autostart, started, imageVars,
                         splVars, meterVars, otherVars>>

(***************************************************************************)
(* The SPI flash commands restart progress and count all they move.  On a  *)
(* SoC without SPI support they return early; by then spiflash-read has    *)
(* cleared the SRAM that holds the SPL header, and its caller saves a      *)
(* buffer that was never filled.                                           *)
(***************************************************************************)
SpiProgress(n) ==
    IF Board[handle].spi
    THEN /\ progress' = [cb |-> opt.p, total |-> n, done |-> n]
         /\ meter' = "files"
    ELSE UNCHANGED meterVars

spiflash_read ==
    /\ Command("spiflash-read", 3)
    /\ \/ Fatal
       \/ /\ save_file(args[4],
                       Ones(IF Board[handle].spi THEN "flash" ELSE "junk",
                            strtoul(args[3])))
          /\ IF Board[handle].spi THEN UNCHANGED <<spl, bootinfo>>
                                  ELSE spl' = 0 /\ bootinfo' = NoInfo
          /\ SpiProgress(strtoul(args[3])) /\ Took(4, 4) /\ fresh' = FALSE
          /\ UNCHANGED <<pc, mem, loose, uboot_autostart, started, imageVars,
                         script, heap, otherVars>>

spiflash_write ==
    /\ Command("spiflash-write", 2)
    /\ IF ~Exists(args[3]) THEN Fatal
       ELSE /\ SpiProgress(Len(files[FileName(args[3])]))
            /\ heap' = heap \cup {FileName(args[3])}
            /\ Took(3, 3) /\ fresh' = FALSE
            /\ UNCHANGED <<pc, files, mem, loose, uboot_autostart, started,
                           imageVars, spl, bootinfo, script, otherVars>>

(***************************************************************************)
(* file_upload(): the sizes are added up first, then the files are loaded  *)
(* and written one by one.  base is the number of words before the first   *)
(* address: "write" has one, "multi" has its count too.                    *)
(***************************************************************************)
progress_startKeepDone(cb, total) ==
    [cb |-> cb, total |-> total, done |-> progress.done]
progress_start(cb, total) == [cb |-> cb, total |-> total, done |-> 0]

file_upload(count, base, cb) ==
    LET names == [i \in 1..count |-> FileName(args[base + 2 * i])]
        sizes == [i \in 1..count |-> Len(files[names[i]])]
    IN  IF \/ Len(args) - base < 2 * count
           \/ \E i \in 1..count : ~Exists(args[base + 2 * i])
        THEN Fatal
        ELSE /\ progress' = progress_start(cb, Sum(sizes))
             /\ up' = [i |-> 1, count |-> count, base |-> base]
             /\ pc' = "upload" /\ meter' = "files" /\ fresh' = FALSE
             /\ UNCHANGED <<args, log, files, mem, loose,
                            uboot_autostart, started, imageVars, splVars,
                            devVars, fileChanges, givenVars>>

write == Command("write", 2) /\ file_upload(1, 1, opt.p)
write_with_progress == Command("write-with-progress", 2) /\ file_upload(1, 1, TRUE)
multiwrite == Command("multi", 3) /\ file_upload(strtoul(args[2]), 2, TRUE)

\* Boot information goes into the header of a "sunxi" SPL of version 0.1..0.31.
have_sunxi_spl == spl \in 1..31
pass_fel_information(addr, len) ==
    bootinfo' = IF have_sunxi_spl THEN <<addr, len>> ELSE bootinfo

UploadFile ==
    /\ pc = "upload" /\ up.i <= up.count
    /\ LET offset == strtoul(args[up.base + 2 * up.i - 1])
           name   == FileName(args[up.base + 2 * up.i])
           data   == files[name]
           len    == IF is_uEnv(data) THEN Len(data) ELSE 0
       IN  IF name \notin DOMAIN files \/ (data # <<>> /\ Overlaps(offset, Len(data)))
           THEN Fatal
           ELSE /\ mem' = Overlay(mem, offset, data)
                /\ progress' = IF progress.cb
                               THEN [progress EXCEPT !.done = @ + Len(data)]
                               ELSE progress
                /\ IF get_image_type(data) = "script" \/ is_uEnv(data)
                   THEN /\ pass_fel_information(offset, len)
                        /\ script' = IF have_sunxi_spl THEN <<offset, len>> ELSE script
                   ELSE UNCHANGED <<bootinfo, script>>
                /\ heap' = heap \cup {name}
                /\ up' = [up EXCEPT !.i = @ + 1]
                /\ UNCHANGED <<pc, args, devVars, files, loose, uboot_autostart,
                      started, imageVars, meter, spl, fileChanges, givenVars,
                      log, fresh>>

UploadEnd ==
    /\ pc = "upload" /\ up.i > up.count
    /\ pc' = "loop" /\ up' = NoUpload
    /\ Took(up.base + 2 * up.count, up.base + 2 * up.count)
    /\ UNCHANGED <<files, mem, loose, uboot_autostart, started, imageVars,
                   splVars, meterVars, devVars, fileChanges, givenVars, fresh>>

\* Another program changes a file while it is waiting for its turn.
FileChange ==
    /\ pc = "upload" /\ fileChanges < MaxFileChanges
    /\ \E n \in DOMAIN files :
          \/ files' = [files EXCEPT ![n] = Append(@, <<"new", 0>>)]
          \/ files[n] # <<>> /\ files' = [files EXCEPT ![n] = Front(@)]
    /\ fileChanges' = fileChanges + 1 /\ meter' = "changed"
    /\ UNCHANGED <<pc, args, devVars, mem, loose, uboot_autostart, started,
                   imageVars, splVars, progress, up, givenVars, log, fresh>>

-----------------------------------------------------------------------------
(***************************************************************************)
(* "spl" and "uboot": the SPL is run (FelSpl), then the image behind it is *)
(* loaded.  A file that is longer than its SPL but ends before             *)
(* SPL_MIN_OFFSET makes the remaining length wrap, and what lies beyond    *)
(* the buffer is taken for the image: garbage, or the image in a buffer    *)
(* that was freed.                                                         *)
(***************************************************************************)
Huge == 1000
IsSpl(data) ==
    /\ Head1(data) # NoName
    /\ FileInfo[Head1(data)].spl_len > 0
    /\ Len(data) >= FileInfo[Head1(data)].spl_len

spl_get_dtb_name(n) == IF FileInfo[n].ver >= 2 THEN FileInfo[n].dt ELSE NoName

\* Where U-Boot is in the file.
Offset(n) == Max({FileInfo[n].spl_len, SPL_MIN_OFFSET})

\* [from, len]: the file whose image is found behind the SPL and what is left
\* of the buffer; len is 0 when the image is not looked at.
Behind(data) ==
    LET n == Head1(data)
    IN  IF Len(data) <= FileInfo[n].spl_len THEN {[from |-> n, len |-> 0]}
        ELSE IF Len(data) >= Offset(n)
             THEN {[from |-> n, len |-> Len(data) - Offset(n)]}
             ELSE [from : {NoName} \cup (heap \cap DOMAIN FileInfo), len : {Huge}]

\* "spl" or "uboot" of a file that is an SPL.
TheFile == files[FileName(args[2])]
SplRun(by) == Command(by, 1) /\ Exists(args[2]) /\ IsSpl(TheFile)

\* A plausible slip: "uboot" does not look whether there is a U-Boot.
SplEffectUnchecked(by) ==
    /\ spl' = FileInfo[Head1(TheFile)].ver
    /\ bootinfo' = NoInfo /\ script' = NoInfo
    /\ heap' = heap \cup {FileName(args[2])}
    /\ uboot_autostart' = (by = "uboot" \/ uboot_autostart)
    /\ Took(2, 2)
    /\ UNCHANGED <<pc, files, started, otherVars>>

SplEffect(by) ==
    /\ spl' = FileInfo[Head1(TheFile)].ver
    /\ bootinfo' = NoInfo /\ script' = NoInfo
    /\ heap' = heap \cup {FileName(args[2])}
    /\ uboot_autostart' = IF by = "uboot" THEN uboot_entry' > 0 /\ uboot_size' > 0
                          ELSE uboot_autostart
    /\ Took(2, 2)
    /\ UNCHANGED <<pc, files, started, otherVars>>

\* The file cannot be used as an SPL.
SplRefused(by) ==
    /\ Command(by, 1)
    /\ ~Exists(args[2]) \/ ~IsSpl(TheFile)
    /\ Fatal

SplOnly(by) ==
    /\ SplRun(by) /\ \E img \in Behind(TheFile) : img.len <= HEADER_SIZE
    /\ UNCHANGED <<mem, loose, imageVars, meterVars>>
    /\ SplEffect(by) /\ fresh' = FALSE

Found(img) == img.from # NoName /\ FileInfo[img.from].tail.type # "invalid"
IsFit(img) == img.len > HEADER_SIZE /\ Found(img)
              /\ FileInfo[img.from].tail.type = "flatdt"
Complete(img) ==
    LET t == FileInfo[img.from].tail
    IN  /\ Found(img) /\ t.type = "firmware" /\ t.hcrc /\ t.dcrc
        /\ t.size <= img.len - HEADER_SIZE

\* A legacy image: refused unless it is complete and the guard lets it pass.
WriteLegacy(by) ==
  SplRun(by) /\ \E img \in Behind(TheFile) :
       /\ img.len > HEADER_SIZE /\ ~IsFit(img)
       /\ LET t    == FileInfo[img.from].tail
              skip == Offset(img.from) + HEADER_SIZE
              data == [i \in 1..t.size |-> <<img.from, skip + i>>]
          IN  IF ~Complete(img) \/ Overlaps(t.load, t.size) THEN Fatal
              ELSE /\ mem' = Overlay(mem, t.load, data)
                   /\ uboot_entry' = t.load /\ uboot_size' = t.size
                   /\ last' = [name |-> img.from, kind |-> "legacy",
                               dt |-> NoName, by |-> by,
                               file |-> Head1(TheFile), len |-> Len(TheFile)]
                   /\ fresh' = TRUE
                   /\ shot' = [a \in (t.load .. (t.load + t.size - 1)) \cap Addr |->
                                  mem'[a]]
                   /\ loose' = {}
                   /\ SplEffect(by)
                   /\ UNCHANGED <<enter_in_aarch64, lastFit, meterVars>>

\* What uploads leave in memory, and what of them counts as progress.
Uploaded(m, uploads) ==
    LET after[i \in 0..Len(uploads)] ==
            IF i = 0 THEN m
            ELSE Overlay(after[i - 1], uploads[i].addr, uploads[i].data)
    IN  after[Len(uploads)]
Moved(uploads) ==
    Sum([i \in DOMAIN uploads |->
            IF uploads[i].progress THEN Len(uploads[i].data) ELSE 0])

\* The cells that uploads write.
Touched(uploads) ==
    {a \in Addr : \E i \in DOMAIN uploads :
        uploads[i].addr <= a /\ a < uploads[i].addr + Len(uploads[i].data)}

\* A FIT image: no checks, no guard; four bytes at its entry point are guarded
\* from here on, whatever the images cover.
WriteFit(by) ==
  SplRun(by) /\ \E img \in Behind(TheFile) :
       /\ IsFit(img)
       /\ LET fit   == fits[img.from]
              dt    == spl_get_dtb_name(Head1(TheFile))
              st    == load_fit_images(fit, dt)
              known == Configuration(fit, dt) # 0
          IN  /\ mem' = Uploaded(mem, st.uploads)
              /\ uboot_entry' = st.entry /\ uboot_size' = 4
              /\ enter_in_aarch64' = IF known THEN st.arch = "arm64"
                                     ELSE enter_in_aarch64
              /\ progress' = [progress EXCEPT !.done = @ + Moved(st.uploads)]
              /\ meter' = "fit"
              /\ last' = [name |-> img.from, kind |-> "fit", dt |-> dt, by |-> by,
                          file |-> Head1(TheFile), len |-> Len(TheFile)]
              /\ fresh' = TRUE /\ lastFit' = IF known THEN last' ELSE lastFit
              /\ shot' = [a \in Touched(st.uploads) |-> mem'[a]]
              /\ loose' = {}
              /\ SplEffect(by)

aw_fel_process_spl_and_uboot(by) ==
    \/ SplRefused(by)
    \/ SplOnly(by) \/ WriteLegacy(by) \/ WriteFit(by)

-----------------------------------------------------------------------------
(* Starting code, and the end of main(). *)

\* aw_rmr_request() prints an error and returns when RVBAR is not known.
aw_rmr_request(entry, by) ==
    started' = IF Board[handle].rvbar
               THEN [entry |-> entry, aarch64 |-> TRUE, by |-> by] ELSE started

reset64 ==
    /\ Command("reset64", 1)
    /\ aw_rmr_request(strtoul(args[2]), "reset64")
    /\ log' = Append(log, <<words - Len(args), 2, "reset64">>)
    /\ args' = <<>> /\ uboot_autostart' = FALSE /\ fresh' = FALSE
    /\ UNCHANGED <<pc, files, mem, loose, imageVars, splVars, meterVars,
                   otherVars>>

End ==
    /\ pc = "loop" /\ args = <<>>
    /\ IF uboot_autostart
       THEN IF enter_in_aarch64 THEN aw_rmr_request(uboot_entry, "uboot")
            ELSE started' = [entry |-> uboot_entry, aarch64 |-> FALSE,
                             by |-> "uboot"]
       ELSE UNCHANGED started
    /\ feldev_done /\ Exit("exit 0")
    /\ UNCHANGED <<args, files, mem, loose, uboot_autostart, imageVars, splVars,
                   meterVars, up, fileChanges, givenVars, log, fresh>>

\* The words each command needs before main() accepts it.
Needs ==
    ("hex" :> 2) @@ ("readl" :> 1) @@ ("ver" :> 0) @@ ("sid" :> 0) @@
    ("echo-gauge" :> 1) @@ ("spiflash-info" :> 0) @@ ("memmove" :> 3) @@
    ("writel" :> 2) @@ ("exe" :> 1) @@ ("wdreset" :> 0) @@ ("clear" :> 1) @@
    ("fill" :> 2) @@ ("read" :> 3) @@ ("spiflash-read" :> 3) @@
    ("spiflash-write" :> 2) @@ ("write" :> 2) @@ ("write-with-progress" :> 2) @@
    ("multi" :> 3) @@ ("spl" :> 1) @@ ("uboot" :> 1) @@ ("reset64" :> 1)

Invalid ==
    /\ pc = "loop" /\ args # <<>>
    /\ args[1].kind = "cmd" => Len(args) <= Needs[args[1].name]
    /\ Fatal

\* usb_error(): the device is gone or answers wrongly.
UsbError ==
    /\ pc \notin Exited /\ handle # NoBoard
    /\ Fatal

CmdNext ==
    \/ NoEffects \/ fel_memmove \/ fel_writel \/ aw_fel_execute \/ aw_wd_reset
    \/ aw_fel_fill("clear", 2) \/ aw_fel_fill("fill", 3)
    \/ read \/ spiflash_read \/ spiflash_write
    \/ write \/ write_with_progress \/ multiwrite \/ UploadFile \/ UploadEnd
    \/ aw_fel_process_spl_and_uboot("spl") \/ aw_fel_process_spl_and_uboot("uboot")
    \/ reset64 \/ Invalid \/ UsbError \/ End
    \/ FileChange

Next ==
    \/ (DevNext \/ BusChange) /\ UNCHANGED cmdVars
    \/ CmdNext

Spec == Init /\ [][Next]_vars

-----------------------------------------------------------------------------
(* What an image asks for. *)

ImagesOf(img) ==
    IF Configuration(fits[img.name], img.dt) = 0 THEN << >>
    ELSE Chosen(fits[img.name], img.dt)

EntryOf(img) ==
    IF img.kind = "legacy" THEN FileInfo[img.name].tail.load
    ELSE LET imgs == ImagesOf(img)
         IN  IF Entered(imgs) = 0 THEN 0 ELSE imgs[Entered(imgs)].entry

\* A FIT image asks for 64-bit mode.
Aarch64Of(img) ==
    /\ img.kind = "fit"
    /\ LET imgs == ImagesOf(img)
       IN  Moded(imgs) # 0 /\ imgs[Moded(imgs)].arch = "arm64"

\* Cells of the image loaded last that the guard is meant for.
InGuard(a) == uboot_entry <= a /\ a < uboot_entry + uboot_size

(***************************************************************************)
(* U-Boot stays as it was loaded until it is started: after the load only  *)
(* memmove, writel, uploaded code and resets can reach its bytes; every    *)
(* write of a file, a fill and a second legacy image is kept away by the   *)
(* guard of aw_write_buffer(), whichever side it comes from (fel.c:127-141)*)
(* - all of a legacy image, but of a FIT image only the bytes within four  *)
(* of its entry point.                                                     *)
(***************************************************************************)
UBootIntact ==
    \A a \in DOMAIN shot :
       \/ mem[a] = shot[a] \/ a \in loose
       \/ last.kind = "fit" /\ ~InGuard(a)

(***************************************************************************)
(* The same of every byte that a load has written, as the comments at      *)
(* aw_write_buffer() promise it: it "safeguards against overwriting an     *)
(* already loaded U-Boot binary" (fel.c:123-124, 130).                     *)
(***************************************************************************)
UBootGuarded ==
    \A a \in DOMAIN shot : mem[a] = shot[a] \/ a \in loose

(***************************************************************************)
(* What is started is what was loaded last, whether "uboot" or a later     *)
(* "spl" has loaded it: at its entry point, in the mode that the last FIT  *)
(* image with a configuration asks for, which is another image if a legacy *)
(* one was loaded since.  The entry point is not 0 if "uboot" itself       *)
(* loaded the image.  A tool that ends well after "uboot" has started it,  *)
(* except on a SoC without RVBAR.  And U-Boot is told of the script that   *)
(* was uploaded after its SPL, unless spiflash-read has cleared the header *)
(* (main(), aw_fel_write_uboot_image(), load_fit_images(),                 *)
(* pass_fel_information()).                                                *)
(***************************************************************************)
StartRight ==
    /\ started.by = "uboot" =>
          /\ started.entry = EntryOf(last)
          /\ started.aarch64 = Aarch64Of(lastFit)
          /\ started.entry > 0 \/ last.by = "spl"
          /\ spl \in 1..31 /\ script # NoInfo => bootinfo = script
    /\ pc = "exit 0" /\ uboot_autostart =>
          started.by = "uboot" \/ enter_in_aarch64

(***************************************************************************)
(* What is started was loaded by "uboot": usage() says of "spl" that it    *)
(* also transfers a main U-Boot binary "but won't execute it"              *)
(* (fel.c:1254-1257).                                                      *)
(***************************************************************************)
SplNotStarted == started.by = "uboot" => last.by = "uboot"

\* Images and their DTB are where they belong; of two images at one place the
\* later one is there, and the DTB comes last.
InMemory(m, imgs, place, dtb) ==
    /\ \A k \in DOMAIN dtb : place + k - 1 \in Addr => m[place + k - 1] = dtb[k]
    /\ \A i \in DOMAIN imgs : \A a \in Addr : Holds(imgs[i], a) =>
          \/ m[a] = imgs[i].data[a - imgs[i].load + 1]
          \/ \E j \in DOMAIN imgs : j > i /\ Holds(imgs[j], a)
          \/ place <= a /\ a < place + Len(dtb)

(***************************************************************************)
(* A load takes the image of the file it was given, unless that file ends  *)
(* before SPL_MIN_OFFSET, and puts every byte where the image wants it.    *)
(* Of a FIT image: each image that is not covered by a later one, the DTB  *)
(* right behind the one that holds U-Boot, and the last entry point        *)
(* (aw_fel_process_spl_and_uboot(), load_fit_images()).                    *)
(***************************************************************************)
ImageLoaded ==
    fresh =>
      /\ last.name = last.file \/ last.len < Offset(last.file)
      /\ uboot_entry = EntryOf(last)
      /\ last.kind = "legacy" =>
            LET t == FileInfo[last.name].tail
            IN  \A i \in 1..t.size : t.load + i - 1 \in Addr =>
                   mem[t.load + i - 1]
                     = <<last.name, Offset(last.name) + HEADER_SIZE + i>>
      /\ last.kind = "fit" /\ ImagesOf(last) # <<>> =>
            LET fit  == fits[last.name]
                c    == fit.configs[Configuration(fit, last.dt)]
                imgs == ImagesOf(last)
            IN  InMemory(mem, imgs, DtbPlace(imgs), DtbOf(fit, c, imgs))

(***************************************************************************)
(* The commands are carried out one by one as they were written, each with *)
(* the words that usage() gives it ("exe[cute] address", fel.c:1266), none *)
(* left out and no argument taken for a command.                           *)
(***************************************************************************)
WordsUsed ==
    LET First(i) == Sum(SubSeq(want, 1, i - 1))
    IN  /\ Len(log) <= Len(want)
        /\ \A i \in DOMAIN log : log[i][1] = First(i) /\ log[i][2] = want[i]
        /\ pc = "loop" /\ args # <<>> =>
              words - Len(args) = First(Len(log) + 1)
        /\ pc = "exit 0" /\ ~opt.list /\ ~opt.socs =>
              \/ Len(log) = Len(want)
              \/ log # <<>> /\ log[Len(log)][3] = "reset64"

(***************************************************************************)
(* The same of every command but "exe", which swallows the word behind its *)
(* argument: all goes well until an "exe" that is not the last command     *)
(* (main()).                                                               *)
(***************************************************************************)
NoWordLost ==
    \/ \E i \in DOMAIN log : log[i][3] = "exe" /\ i < Len(want)
    \/ WordsUsed

(***************************************************************************)
(* Progress never exceeds its total and reaches it exactly when the        *)
(* transfer ends, unless a file changed after its size was taken, or a FIT *)
(* image has been counted on top (file_upload(), progress.c).              *)
(***************************************************************************)
UploadProgress ==
    meter = "files" /\ progress.cb =>
       /\ progress.done <= progress.total
       /\ pc \in {"loop", "exit 0"} => progress.done = progress.total

(***************************************************************************)
(* The SPL header in SRAM, and in it the address of the script, outlives   *)
(* every command that is no SPL: the SPI flash commands use that SRAM as   *)
(* "a temporary data buffer" and "Backup/restore" it                       *)
(* (fel-spiflash.c:326-327).                                               *)
(***************************************************************************)
HeaderKept == script # NoInfo => bootinfo = script

(***************************************************************************)
(* Of what the repository says about a line that ends well - --sid is an   *)
(* exact match (SidMatches), exe has one argument (WordsUsed), a loaded    *)
(* U-Boot is safe from writes (UBootGuarded), spl does not start one       *)
(* (SplNotStarted), the SPI flash commands restore the SRAM (HeaderKept) - *)
(* at least one thing is true.  This is less than the texts say: a line    *)
(* that violates it refutes each of them.                                  *)
(***************************************************************************)
TextsKept ==
    pc = "exit 0" =>
       SidMatches \/ WordsUsed \/ UBootGuarded \/ SplNotStarted \/ HeaderKept

=============================================================================
