# sunxi-tools: TLA+ models, model checking and proofs

sunxi-tools is a set of command-line tools for Allwinner SoCs.  Its core is
`sunxi-fel`, which talks over USB to the FEL handler in a SoC's boot ROM
(BROM): it reads and writes memory, uploads code and runs it, starts a U-Boot
SPL without destroying the BROM's stacks, and programs an SPI flash through
code that it runs on the device.  Most of what can go wrong there happens
between two machines, on hardware that a developer may not own, and is out of
reach of unit tests.  That part comes first here, from a single USB transfer up
to the command line; the script compiler and the NAND partition tool follow.

* [1. Inventory](#1-inventory)
* [2. Modules and the code](#2-modules-and-the-code)
* [3. Runs](#3-runs)
* [4. Fairness](#4-fairness)
* [5. Disagreements found](#5-disagreements-found)
* [6. Proofs](#6-proofs)
* [7. What is not modelled](#7-what-is-not-modelled)
* [8. Plan](#8-plan)

`PROJECT.json` lists components, runs, the source lines of each definition,
hazards, findings and theorems; this file explains them.  To repeat the
results: `tlc -config X.cfg M` for a run, `tlapm M_proofs.tla` for the proofs.

## 1. Inventory

| Component | Source | State | Operations | Hard because |
|---|---|---|---|---|
| FEL protocol | `fel_lib.c` 46-276 | remaining bytes of a bulk loop, stage of the request; BROM: stage, memory | `aw_fel_get_version`, `aw_fel_read`, `aw_fel_write`, `aw_fel_execute` | partial transfers, USB errors in any phase, three nested protocols |
| SoC tables | `soc_info.c` | constant tables | lookup by ID, list | a wrong address shows on one SoC only |
| SPL loader, thunk | `fel.c` 760-904, `thunks/fel-to-spl-thunk.S` | SRAM, upload position, size limit | `aw_fel_write_and_execute_spl`, swap in, checksum, run, swap out | the BROM keeps running on memory that is being overwritten; failures at every step |
| MMU backup/restore | `fel.c` 364-403, 472-755 | SCTLR, TTBR0, translation table | backup and disable, generate, restore and enable | stale table after the SPL; state that outlives the process |
| memmove on the device | `fel_lib.c` 406-523 | ARM registers, memory | copy up, copy down | overlaps, alignment, counts below zero |
| SPI flash | `fel-spiflash.c`, `fel-remotefunc-spi-data-transfer.c` | command batch, interpreter position, SRAM buffer, chip | read, write, info; batch interpreter | host, interpreter and chip run concurrently; power cuts |
| word access, SID, remote functions | `fel_lib.c` 278-404, 525-630, `fel.c` 275-361, 405-470 | scratch area | `fel_readl_n`, `fel_writel_n`, `fel_clrsetbits_le32`, SID, `aw_fel_remotefunc_*` | chunking, uploaded code with data appended |
| device selection | `fel_lib.c` 632-880, `fel.c` 1201-1256 | device list, open handle | list, open, claim, release, select by SID | the list is stale when a device is opened |
| command loop, U-Boot, file upload, progress | `fel.c` 906-1199, 1296 to the end, `progress.c` | autostart state, U-Boot range, progress counters | commands of `main`, `file_upload` | order of commands, guard on stale ranges, argument skipping |
| FIT loader | `fit_image.c` | entry point, loaded images | `load_fit_images` | order of uploads |
| script compiler | `fexc.c`, `script*.c` | script tree | parse, generate, decompile | offsets and sizes in the binary |
| NAND partition tool | `nand-part*.c` | four copies of a table | read, check, rewrite | crash between the copies |
| NAND image builder | `nand-image-builder.c` | page buffers | page layout, randomizer, BCH | arithmetic |
| `sunxi-pio`, `fel-gpio` | `pio.c` | register dump | get, set, clean | bit fields |
| dumpers, `meminfo`, target programs, scripts, tests | several | none | print | - |

Interactions.  `sunxi-fel`'s commands are sequential; each ends in calls of the
FEL protocol.  Concurrency is between the tool, the BROM (and the code it was
told to execute) and, for SPI flash, the chip.  Nothing is retried: a USB error
ends the process (`usb_error()`) and leaves the device as it is.  The next
process, or the next command of the same one, starts from there.

Properties that make the parts correct, in a sentence each:

* protocol: both ends agree on where they are; bytes arrive exactly; the
  callers see an atomic memory, and after a failure a prefix of a write;
* tables: every row is a layout for which the loader is safe;
* loader and MMU: whenever the BROM runs its data is whole; the SPL starts
  whole; a success is a success; nothing else is overwritten;
* memmove: the result is that of a copy without overlap;
* SPI flash: what is read or written is exact even after a power cut, and
  neighbouring blocks are never touched;
* device selection: the board that is opened is the one that was asked for, and
  the kernel gets its interface back;
* commands: each word of the command line is used once; U-Boot is loaded where
  its image says, stays whole until it is started, and is started in the right
  mode with the right script;
* script compiler: the binary has the size that was computed for it, and
  decompiling is the inverse of compiling;
* NAND partition tool: whatever happens while the copies are rewritten, the
  table a reader finds is the old or the new one.

## 2. Modules and the code

```
FelReq <- FelMem                 abstract memory service
FelReq <- FelUsb -INSTANCE-> FelMem
SramLayout <- SocInfo            the real tables, in bytes
SramLayout <- FelSpl             the loader on any well-formed layout, in words
FelMemmove                       host choice and ARM code
SpiFlash                         host, interpreter, chip
FelDevice, FitImage <- FelCmd    sunxi-fel from its options to its end
ScriptBin <- ScriptFex <- Fexc   the script compiler
NandPart                         the partition tool and its device
X_proofs extends X; MCX extends X for TLC
```

FelUsb, SocInfo, FelSpl, FelMemmove, SpiFlash, FelCmd (with FelDevice and
FitImage), Fexc and NandPart have proofs.

**FelReq, FelMem, FelUsb.**  FelReq has the requests that both specifications
serve.  FelMem is what the callers rely on: a memory whose reads and writes
take effect at once, started code that has run before the next request is
served, and damage limited to a prefix of a write if the tool dies.  FelUsb is
`fel_lib.c`: `hstage` is the transaction of a library call (the FEL request,
the payload, the status), `hphase` the phase of a transaction (AWUC header,
data, AWUS response), `hrem` the variable `length` of `usb_bulk_send()` and
`usb_bulk_recv()`.  Each step is one `libusb_bulk_transfer()` that moves any
number of bytes between one and what both ends allow (`OutTransfer`,
`InTransfer`), or fails (`UsbError`).  The BROM (external) has its own `bstage`,
`bphase`, `brem` and derives them from received bytes only; were host and BROM
out of step, the bytes would be recorded as `NoByte`, and a wrong response
stops the tool in `abort`, as the assertion does.  Lengths pass through `AsInt`
where the code passes a `size_t` as an `int`.  Executed code (`CodeReturns`)
may write anything.

**SramLayout, SocInfo.**  SramLayout has the layout fields of `soc_info_t` and
`WellFormed`, the conditions the loader needs.  SocInfo has all rows of
`soc_info_table` and its swap tables, literally, and the three loops that walk
them, with a pointer as an index.

**FelSpl.**  One word of memory holds a tagged value: BROM data, word *k* of
the image, of the thunk or of a translation table, a verdict of the thunk, or
junk.  `pc` walks through `aw_fel_write_and_execute_spl()`: header checks,
L2 cache and stack registers, `aw_backup_and_disable_mmu()` or
`aw_generate_mmu_translation_table()`, the upload loop (two steps for each swap
buffer, as the loop makes up to two uploads), limit check, rest, thunk; then
the thunk itself: cache check, swap in, checksum, SPL, swap out; then the
check of the verdict and `aw_restore_and_enable_mmu()`.  `UsbError` stops the
tool at any step with the target of the transfer damaged or not; a running
thunk goes on.  After a fatal message or a success, `Restart` is a new process
on the same device.  Memory operations are atomic: FelUsb shows this is what
callers see.

**FelMemmove.**  The choice of direction in `fel_memmove()` and one action for
each label of the ARM routines, with registers `r0`, `r1`, `r2`.  A byte is
named by the address it came from.

**SpiFlash.**  `Tool` is the host's code, `spi_batch_data_transfer` the
interpreter, `Complete` the chip finishing an erase or a program.  A batch is a
sequence of command records while `cmd_idx` keeps its length in bytes, so that
the room in the buffer is what the code computes.  `junk` is the set of SRAM
bytes that may not be zero: the read path sends full chunks without their end
marker and relies on older zeros.  `UsbError` ends the tool; `PowerCycle`
garbles what the chip was busy with and the same command is given again.

**FelDevice.** `OptDev`, `OptSid`, `Flag`, `Usage` and `OptEnd` are the option
loop of `main()`: `--help` and a call without arguments print `usage()` and end
with 0, `--verbose` and `--progress` only set flags, `list` and `list-socs` are
options even without their dashes (words of kind `bare`).  `ListStart`,
`ListOpen`, `ListClose` and `ListEnd` are the loop of `list_fel_devices()` (each
device is opened, its SID is read, it is closed) and `select_by_sid()`; `Open`
is `feldev_open()` with its claim, `feldev_done` the release at the end.  A port
stands for bus and device number.  `BusChange`, the environment, unplugs a board
or puts another in its place between any two looks of the tool at the bus.  The
kernel driver of a board is detached by a claim and attached again by a release;
`driver` says who has one.

**FitImage.**  Operators only: the choice of the configuration, `LoadAll` over
firmware and loadables (a recursive function with a state `st` for the loop's
variables) that yields the uploads in order, the entry point, its architecture,
and where the DTB goes.  `Chosen`, `Entered`, `Moded`, `UBootAmong` and, for what
must be in memory afterwards, `EndOf`, `Holds` and `DtbPlace` say what the result
should be without the loop; the properties use these.

**FelCmd.**  Extends both.  One action for each command of `main()`, named after
the function it calls; `Took` is the `skip` of the code, `Invalid` its last
branch, `End` what follows the loop (autostart, RMR, release).  `mem` is the
DRAM in cells that know which byte of which file they hold, so that "the right
bytes are in the right place" can be said.  `log` notes how many words each
command took, and `UsageOf` how many `usage()` gives it.  `shot` keeps every
cell that a load has written, for a FIT image those of all its images and not
only the four bytes the code guards; `last` is the image loaded last, by which
command, and `lastFit` the last FIT image that had a configuration.  The image
loader is `aw_fel_process_spl_and_uboot()` by its cases: no SPL, only an SPL, a legacy
image, a FIT image.  `file_upload()` takes one step for each file, and
`FileChange` may change a file in between.  `spl` and `bootinfo` are the header
in SRAM into which `pass_fel_information()` writes.  What a command does to the
SRAM besides is in FelSpl, FelMemmove and SpiFlash.

What may be given to the tool is stated as assumptions on its constants: sizes
are numbers, FIT images have the shape that `libfdt` accepts (`IsFitImage`), and
a line has its options first, each with its value, and then commands as
`usage()` lists them (`UsageAssumption`; only `NoWordLost` needs it).  The last
command of a line may be cut short, and the value of the last option missing.

**ScriptBin, ScriptFex, Fexc.**  ScriptBin has the tree, `script_bin_size()`,
the generator with its three running pointers into one buffer, and the
decompiler that follows offsets.  ScriptFex has the lines of a `.fex` file as
the parser tells them apart, parser and generator, and the U-Boot header.  Fexc
is `main()`: one run parses, opens the output, writes it; any of these can
fail; the next run may read what an earlier one has written.  A loop of the code
is a function of its number of turns (`after[i]`).  What a user may write is
`UserFilesAssumption`: any sequence of `Lines`, with names and strings of any
length and numbers of any size.  `fgets()` cuts a line of more than `MAX_LINE`
characters and the rest is read as a line of its own.  In a user's file the
pieces are lines of the sequence; a generated line that does not fit is parsed
as `HeadPiece` and then `TailPiece`, where the constant `Tails` says what the
end of a string looks like: nothing that parses, a comment, or another key.
The limit on sections is a constant, as 256 of
them are too many for TLC.

**NandPart.**  `dev[f][i]` is what a reader of format `f` finds as copy `i`; the
two formats overlap on the device.  The actions from `nand_part` to `Verify` are
`nand_part()`, `checkmbrs()` and `writembrs()`; `WriteCopy` writes one copy,
whole, torn or not at all, and `Crash` ends the tool anywhere.  `AfterFree` is
the nondeterminism of using the table after `free()`.  Sectors and lengths are
numbers below `WORD`, which is 2^32 in the code: lengths are read with `%d` into
a `__u32`, so that a negative one is a large one, and `start += lens[i]` wraps
(`Add32`).  `nand_partEnds` is a run that changes nothing: a list, a refusal, or
too many arguments, which the code stores past the ends of its arrays before it
counts them; the model takes it that such a run is refused or dies and leaves
the device alone.  With `-f` the table in memory is copy 3 whatever it holds;
`base` is the table in effect before, the last good one, and `bypassed` notes
that the two differ.

## 3. Runs

| Run | Shows | Instance |
|---|---|---|
| `fel_usb` | `InStep`, `ResponseIsAWUS`, `PayloadExact`, `ProgressExact`, `CallReturns`, `ImplementsFelMem` | 3 bytes of memory, 2 values, payloads up to 3 bytes |
| `fel_usb_int` | violation of `ResponseIsAWUS` | `IntMax` = 1, payloads of 2 |
| `soc_info` | `LookupExact`, `LayoutSafe`, `ListComplete` | the real tables |
| `fel_spl` | `BromSafe`, `SplComplete`, `ThunkIntact`, `MmuSafe`, `NoFalseSuccess`, `VerdictJustified`, `Contained` | 20 words, three layouts, images up to 12 words |
| `fel_memmove` | `MoveExact`, `WordsAligned`, `CopyReturns` | 16 bytes |
| `fel_memmove_head` | violation of `CopiesSizeBytes` | 16 bytes |
| `spi_flash` | `ReadExact`, `WriteExact`, `NeighboursKept`, `ChipReady`, `CmdFits`, `EndFound`, `Terminates` | 208-byte chip |
| `fel_cmd` | `RightDevice`, `UBootIntact`, `StartRight`, `ImageLoaded`, `NoWordLost`, `UploadProgress` | 21 cells, two ports, five boards, lines of up to three commands |
| `fel_cmd_text` | violation of `TextsKept` | one line of six commands on the second of two boards |
| `fexc` | `BinExact`, `RoundTrip`, `ExitHonest` | every pair of lines of a menu, three runs |
| `fexc_bank` | violation of `BanksKnown` | as `fexc` |
| `nand_part` | `GoodCopiesSound`, `RunHonest`, `SwitchOnce` | both formats, two runs, two faults |

`fel_usb` and `fel_spl` also check `TypeOK`; that of FelMemmove is proved.

What `fel_cmd`, `fexc` and `nand_part` show:

* `RightDevice`: `--sid` opens the board with that SID, except when the bus
  changed after the enumeration had begun, or when `--dev` was given too and no
  board has the SID.  A tool that ends with status 0 has given every interface
  back to its driver.
* `ImageLoaded`: what was loaded is what the image asks for, unless the file ends
  before `SPL_MIN_OFFSET`.
* `UBootIntact`: it survives every guarded write from either side - all of a
  legacy image, but of a FIT image only what lies within four bytes of its entry
  point.
* `StartRight`: what is started is what was loaded last, by `uboot` or by a later
  `spl`, at its entry point and with its script, in the mode of the last FIT
  image that had a configuration.  It says exactly what the code does, which is
  not what `usage()` says of `spl`.
* `NoWordLost`: each command starts where the one before ends and takes the
  words that `usage()` gives it, up to an `exe` that is not the last command; a
  line that is carried out to its end has lost none.
* `UploadProgress`: sizes are added up before the files are read; progress ends at
  its total as long as no file changes meanwhile.
* `TextsKept`, violated: of five things that the repository says about a line that
  ends well at least one is true.  The parts are `SidMatches`, `WordsUsed`,
  `UBootGuarded` and `SplNotStarted`, which are parts of the four properties above
  without their exceptions, and `HeaderKept`, that the SPI flash commands give the
  SRAM back.  As `TextsKept` is a disjunction, the end state of its one
  counterexample refutes each of them (section 5).
* `BinExact`, `RoundTrip`, `ExitHonest`: the size counted first is the size
  filled; compile and decompile are inverse to each other for values at both
  ends of a word, names longer than 31 characters and strings at the limits of
  a word; success means a complete `.bin`, and a refused input leaves the old
  output alone.  The round trip is promised if every generated line fits the
  parser's buffer; the U-Boot header is the same in any case.
* `GoodCopiesSound`, `RunHonest`, `SwitchOnce`: after any crash each copy that
  passes the check holds a table somebody asked for, and one that the tool has
  laid out is contiguous modulo 2^32 and clear of the copies up to a partition
  that reaches sector 2^32; the backup gives back the table that was in effect,
  if that had no gaps and `-f` did not take a bad last copy instead; the table in
  effect changes once, from old to new.

Bounds.

* `fel_usb`: message sizes, chunk sizes and the payload are chosen so that each
  of them can be larger than another (headers larger and smaller than a chunk,
  a payload that takes one or several chunks, progress chunks smaller than
  normal ones); a phase of *n* bytes is cut in every possible way.  Two values
  distinguish a byte from what was there; three addresses give a byte before
  and one behind a write.  The proofs lift all of these bounds.
* `fel_cmd`: the memory of 21 cells leaves room before, inside and behind each
  of the two legacy images and the FIT images; commands write up to, into and
  over each end of the guarded range.  `HEADER_SIZE` = 1, `SPL_MIN_OFFSET` = 4
  and `UENV_MAGIC` = 1 keep files of at most eight cells that are shorter than,
  as long as and longer than each limit.  Three commands are enough for a load,
  a second load or a write, and the start; one change of the bus
  (`MaxBusChanges`) or of a file (`MaxFileChanges`) at every place shows what a
  change does.  FIT images come with every order of firmware and loadables,
  with and without DTB, OS, entry point, default, and a usable compression.
  The lines satisfy `UsageAssumption`, which TLC checks; some end in an
  incomplete command or in an option without its value, and some are empty.
* `fexc`: a word has 16 values (`WORD`), so that numbers lie on both sides of
  its sign and its end; strings have lengths around a multiple of four and
  around `MAX_LINE`; two keys show whether the first moves the second; with a
  `SCRIPT_BIN_SECTION_LIMIT` of 2 some files have one section too many.  Of the
  strings that are too long for a generated line one ends in nothing that
  parses, one in what reads as a comment and one in a key (`MCTails`).  Three
  runs (`MaxRuns`) make a `.bin`, a `.fex` from it and a `.bin` from that; one
  fault (`MaxFaults`) can hit each of them.
* `nand_part`: two or three entries in a table (`MAX_PART_COUNT`), starts just
  below and at the limit of each format, tables of one and two partitions, one
  with a gap, lists of up to three lengths (`ArgLens`), one more than the A10
  takes; a word of 256 values (`WORD`), in which the length 254 is -2 and makes
  the next partition start inside the copies; each set of good copies that the
  loops distinguish.  The second run reads what the first left; the second fault
  meets the first's result.
* `soc_info`: no bound, except that `AddrMod` is 2^30 instead of 2^32 because
  TLC's integers have 32 bits; every address in the tables is far below, and a
  negative difference is as large as it needs to be either way.  Two unknown
  IDs stand for all others, as the code only compares for equality.
* `fel_spl`: the three layouts have the shapes that occur in the table: BROM
  buffers with the table over thunk and backups (H3), backups beyond the SRAM
  the SPL may use and no own table (A10, A31), thunk and backup below the SPL
  with the scratch area inside a BROM buffer and the I-cache workaround
  (A523).  Images of 12 words end in every gap, in every buffer, at the limit
  and beyond it.  The proofs hold for all well-formed layouts and lengths.
* `fel_memmove`: 16 bytes hold all pairs of alignments, overlaps in both
  directions, at least two words in the loop, and heads and tails of all
  lengths.
* `spi_flash`: pages of 2, blocks of 4 and 16 bytes and a buffer of 100, with
  the code's own `Slack` of 64: a large block takes several flushes, reads take
  one chunk, a full chunk and two, writes start with and without alignment to
  a large block and end inside a page, a small and a large block.  One crash
  at each possible place, and a second try, cover the recovery; a crash in the
  second try meets a chip like the one in the first.

Deadlock is not checked: a tool that has exited, a command that has ended, and
a thunk that has returned to a tool that died are all legitimate ends.

For each property there is a mutant of the code's model that violates it:
a dropped status, a chunk reported before it was sent, a backup written in
place, a loop with one word too many, a wait that is left out, and so on.

## 4. Fairness

* `FelUsb!FairSpec`: weak fairness of "a transfer succeeds or fails": libusb is
  called with a timeout, so each call returns.  Neither outcome is favoured,
  and the BROM need not return from executed code.
* `SocInfo`, `FelMemmove`: a sequential loop, or a CPU, takes its next step.
* `SpiFlash`: the tool takes its next step, the interpreter its own, and the
  chip completes what it began, as its data sheet says; the poll of the
  interpreter has no limit, so this last one is needed.  USB errors and second
  tries are never assumed.
* `FelSpl`, `FelCmd` with `FelDevice`, `Fexc` and `NandPart` have only safety
  properties: they are sequential programs whose loops run over their input.

## 5. Disagreements found

1. **Reads above INT_MAX** (`fel_usb_int`).  `usb_bulk_recv()` takes
   `int length`; `aw_fel_read()` has a `size_t`.  A longer read becomes
   negative, the data is not fetched and `assert(strcmp(buf, "AWUS") == 0)`
   meets data instead.
2. **Unknown SoCs.**  `generic_soc_info` has no `sram_size`, so the size limit
   starts at 0 and each SPL is refused; the comment in `soc_info.c` promises about
   21 KiB.  `LayoutSafe` says so, exactly, of every ID that is not in the table.
3. **Short copies** (`fel_memmove_head`).  `copyup_head` tests its count after
   the byte has been moved: a copy whose source does not reach a word boundary
   before or at its end moves `size + 1` bytes.  `MoveExact` is stated with
   this exception and proved: there is no other.
4. **Bank O** (`fexc_bank`).  `fex2bin` accepts banks up to `'A' + GPIO_BANK_MAX`,
   one more than the comment at `GPIO_BANK_MAX` names ("N, (zero-based) index
   13"); `bin2fex` then refuses its output.

The rest is shown by `fel_cmd_text`, all of it by one line: `--dev` of the second
board, `--sid` of a board that is not there, then `uboot legacy`, `exe 6`, `ver`,
`spl fit`, `write 11 scr`, `spiflash-read 0 2 kernel`.  It ends with status 0.

5. **A SID that no board has** (`SidMatches`).  `select_by_sid()` leaves the bus
   and device number alone when nothing matches.  If `--dev` has set them, the
   check behind it passes and another board is opened, although `usage()` says
   "Select device by SID key (exact match)".
6. **`exe` swallows a word** (`WordsUsed`).  `usage()` gives it one argument, the
   code skips two: `ver` is lost.
7. **FIT images and the write guard** (`UBootGuarded`).  After a FIT image
   `uboot_size` is 4, "dummy value to pass check below": a `write` into any other
   part of the loaded images, here the firmware at 10 to 13, passes
   `aw_write_buffer()`, which "safeguards against overwriting an already loaded
   U-Boot binary".
8. **`uboot A spl B` starts B** (`SplNotStarted`).  The flag for the start is kept
   from `uboot`, the entry point is that of the later `spl`, of which `usage()`
   says that it "won't execute it".
9. **SRAM after a failed spiflash-read** (`HeaderKept`).
   `aw_fel_spiflash_read()` clears the SRAM buffer before `spi0_init()` and
   returns without `restore_sram()` when that fails; here the SPL header with the
   address of the script was in it.

For 3 to 8 a passing run and a theorem have the same property with this exception
(`MoveExact`, `BinExact`, `RightDevice`, `NoWordLost`, `UBootIntact`,
`StartRight`), and for 9 SpiFlash's `EndFound` has it of SoCs with SPI support;
what other exceptions they have is below.

Behaviour that no document denies, but that the models had to take as it is.
Where a property has an exception, this is the reason.

* Commands.  `clear` and `fill` do not count their arguments and read past the
  end of the line.  The RMR request reports an error on a SoC without RVBAR and
  the tool still ends with status 0.  The results of `save_file()` are not used.
* Loading.  A file that ends before `SPL_MIN_OFFSET` makes the length of the
  rest wrap around, and what lies behind the buffer is taken for an image.
  `enter_in_aarch64` is changed only by a FIT image with a configuration:
  another image that is loaded afterwards is entered in the mode of the earlier
  one (a comment at `get_image_type()` says "we always expect ARM architecture
  here", of the images it accepts).  `spl` with a FIT image without
  configuration, after `uboot`, leaves 0 as the entry point and autostart on.  A
  script uploaded before `uboot` is not announced, as the SPL brings a new
  header.  `spiflash-read` on a SoC without SPI support saves a buffer that was
  never filled.  FIT images add to whatever progress was there before.
* Uploads.  A file that changes between the two passes of `file_upload()` makes
  progress end above or below its total.
* Devices.  A board that took over the numbers of another one after the
  enumeration is opened in its place.  Fatal errors leave the kernel driver
  detached.
* Scripts.  Files with more than 256 sections are accepted by `fex2bin` and
  refused by `bin2fex`.  (This came up in the proof of `BinExact`, which did not
  go through without it.)  A string that a user could write without quotes may
  be too long for the line that `bin2fex` writes; read back, it is refused, or
  silently cut if what is cut off parses (`script_fex.c:185` has a TODO on long
  lines).  The results of `fprintf()` and `fclose()` are not used.
* NAND.  The table is written after `free()`, `start` is not initialised when
  its argument is not a number, `write()` is not checked, and the backup does
  not save gaps between partitions.  Lengths are not checked: a negative or huge
  one wraps, and partitions then overlap each other or the copies.  Too many
  arguments are stored past the ends of `names[]`, `lens[]` and `user_types[]`
  before they are counted.  `-f` takes the last copy even when it is bad and an
  earlier one is good: the good table is lost and the backup is not of it.

## 6. Proofs

All theorems are proved without bounds, for any number of devices, files,
faults and restarts, from the assumptions named in the modules (sizes are
natural numbers, layouts are well-formed and lie in memory).

**FelUsb_proofs**, under `LengthsFitInt` (`MaxLen <= IntMax`, without which
`ResponseIsAWUS` is false, see 5.1).  `InStep` is inductive only with the types
and with `RemBounded`, which bounds what is left of a phase by its size: that
is what makes `HostPos` and `BromPos` meet.  The invariant is therefore
`TypeOK`, `InStep`, `ResponseIsAWUS`, `RemBounded` (together `Sync`), and then
`PayloadExact` and `ProgressExact`, whose steps use `Sync` and a lemma on how
`Moved` grows with each transfer.  `Implementation` proves
`Spec => ImplementsFelMem` with the history variable `snap`, which follows
`mem` except during a call: only the last transfer of a call is a step of
FelMem, the others are stutters, and `UsbError` maps to `Fail` with the prefix
`Moved`.

**FelSpl_proofs**.  `BromSafe` speaks of moments when the BROM runs; its
inductive form `BromKept` says for each swap buffer where the BROM's data is
now: in the buffer, or in the backup while the buffer is swapped (`Swapped(j)`
by `pc` and `i`).  `Position` and `WordsKept` say the same of the words of the
image, `LimitKept` relates the size limit to the backups seen so far,
`ThunkKept`, `SigKept`, `CacheKept` and `MmuKept` follow the thunk, its verdict,
the I-cache and the translation table.  All theorems are for every layout that
is `WellFormed`, and each row of the real table is (`LayoutsAreSafe` below).
Together: the loader is safe on every SoC the tool knows.

**FelMemmove_proofs**.  For the upward copy (`UpInv`) everything below `r0` is
as wanted and everything from `r0` on is untouched, and the source that is
still to be read lies there; for the downward copy (`DownInv`) the same with
`r0 + r2`.  The exception of 5.3 is part of `UpInv` when `r2` reaches 0 within
the head.

**SpiFlash_proofs**, from `SizesNest` (pages, small and large blocks nest, a
page fits the buffer with its commands, the user stays within the chip).  The
difficulty is that host, interpreter and chip are each in the middle of
something.  `Groups` and `OneCommand` say what is in the buffer, `Control` and
`Marker` who may run and what the SRAM holds at the end marker, `Chip` that an
erase or program only lasts while the interpreter waits for it.  `Place` and
`Order` fix the addresses: an erase is followed by the first page of its block,
pages follow each other, and none crosses into a block without an erase in
front of it.  From these, `Written` speaks of the chip alone: up to `Front`, the
first byte not yet programmed, it holds the file; the rest of that block is
erased, unless its erase is still in the buffer.  `ReadsAreExact`,
`WritesAreExact`, `NeighboursAreKept`, `ChipIsReady`, `CommandsFit` and
`EndIsFound` follow for any geometry, offset, length and number of crashes; the
lemmas are about division, as blocks are (`BlockAt`, `SameDiv`, `ModMod`).

**NandPart_proofs**, from `ArgsAssumption` and `TablesAssumption`.  The
properties speak of the device only, so the invariant adds what is known of the
tool: the arguments were accepted (`RunOk`), the table in memory is the
announced one and has no gap (`MemOk`), the backup was made from the old table
unless `-f` bypassed it (`BackupOk`), and the copies behind the loop hold the
new one or are bad (`CopiesOk`).  The last case is the use after `free()`: a
block that lost its header makes every later copy bad, never a good copy of
something else.  `Consecutive()` is a recursive function; the lemmas `AtExists`
and `AtIs` show that it exists and what it returns, by the least number for
which they would fail.  All sums are modulo `WORD`, for every `WORD`; that no
partition lies on the copies before one reaches the end of the numbers follows
place by place from `ClearOfCopies` of the one before.  `TableSwitchesOnce` is
the action property: a step that changes the table a reader finds goes from the
old table to the announced one; none is found in between only while the first
copy is written, or when the block has lost its header.

**FelCmd_proofs**, from the assumptions on what is given to the tool.  One part
of the invariant for each promise:

* `Drivers`, `Listing`, `Selected`: as long as the bus has not changed since the
  enumeration began, each entry of the list is true of its port, and so the open
  board is the one asked for (`DeviceIsRight`);
* `Guarded`: a cell of `shot` that lies within the range the guard compares with
  (`InGuard`) is unchanged or `loose`, and of a legacy image all cells do
  (`UBootStaysIntact`);
* `Metered`: what has been sent is the sum of the sizes of the files before the
  next one, which exists as a function of the position (`ProgressIsExact`);
* `Loaded`, `Told`, `Started`: the variables that decide how U-Boot is entered
  belong to the image loaded last, but for the mode, which belongs to `lastFit`
  (`StartsTheLastImage`).  `EntryAfter` follows the entry point through the loop
  of `load_fit_images()`, and `LastIs` shows for entry point and mode alike that
  the loop ends with the last image that has one;
* `Fresh`: what a load has written is still there (`ImageIsLoaded`).  `Placed`
  and `DtbAfter` follow firmware, loadables and DTB through the same loop, one
  image overlaying an earlier one;
* `Reading`: how many words of the line are gone, that options come first, and
  that each command began where the one before ended (`EveryWordIsUsed`).

`Sum`, `LoadAll` and `Uploaded` are recursive functions, whose existence and
step equations are again proved by least counterexample.

**Fexc_proofs**, from `WordAssumption` and `UserFilesAssumption`.
`ExitIsHonest` with `Untouched`: the output is as it was until it is opened, and
opened only for a tree without errors.  `BinIsExact` and `RoundTripIsExact` say
what seven loops compute for every input, so they need induction over data.  It
is had from the library's `WFMin`, which takes a set and no operator: `Induct`
says that a set of numbers with 0 and all successors is all of `Nat`, and each
use defines the set of turns up to which a claim holds.  `SumIs`, `GenIs`,
`GenSecIs`, `DecIs`, `DecSecIs`, `ParseIs` and `TextIs` are the first claims: the
recursive function exists and its turns are what the model says.  Then:

* `Parsed`: whatever a user writes, the parser builds a tree (`IsTree`): names of
  at most 31 characters, numbers within a word, ports and their data in range.
* `FileMade`: the generator's three pointers start and end where they should.
  While the zones of sections, entries and data fill up, every store lies between
  its pointer and the next zone, so that what is behind the pointers is kept
  (`Kept`, `EntryKept`) and each finished entry and section stays readable
  (`EntryIn`, `SectionIn`).  At the end the pointers meet the ends of the zones
  that `script_bin_size()` has counted: that is `Generated`.
* `Decompiled`: in any buffer that is `Generated` from a tree the decompiler finds
  this tree, or refuses it for bank O or for too many sections.  `StringRead` has
  the lengths that are no multiple of four.
* `Reparsed`: the lines generated from a tree parse to it, if they fit
  (`TextFits`); signed,
  hexadecimal and default values are the cases of `EntryParsed`.
* `Derivation`, which joins the invariant: each file in `whole` is what the tool
  makes of the user's tree, and a run in progress holds that tree if its input
  is in `whole` (`FilesDerived`).  Of the second `.bin` this holds only if the
  text fits (`Sure`): otherwise it may come from a `.fex` read in pieces.  With it
  the properties are instances of the three lemmas above.

**SocInfo_proofs**.  `LookupIsExact` for any reported ID, with the loops cut at
the entry they are at; `ListIsExact`: when the list is complete, it has each
entry once and in order.  For these the table stays closed: only its length is
used.  `LayoutsAreSafe`, for the sizes in the code (`RealSizes`), opens it: one
lemma for each table of swap buffers shows all rows that use it well-formed, and
the smallest of the limits on the SPL exists because a set of natural numbers
has a least element (`Least`); for an ID that is not in the table it shows that
the limit is 0 (`GenericTakesNone`).  Unlike the run it allows all 2^32 addresses.

Every invariant and action property of the runs that pass is proved.  Only
model-checked is liveness (`CallReturns`, `ListComplete`, `CopyReturns`,
`Terminates`), which is out of the prover's reach.

## 7. What is not modelled

* The contents of section descriptors, apart from "a direct mapping" or not;
  the register programming of `spi0_init()` beyond its success; the bytes of
  FIFO transfers in the interpreter.
* The 24-bit address of SPI commands: the code does not check it and the
  modelled chip is smaller.
* A new process on a BROM that was left in the middle of its protocol: the
  code makes no attempt at it, so the models end there (FelUsb, FelSpl) or ask
  for a power cycle (SpiFlash).
* The wrap of `offset + len` at 2^32 in the write guard: addresses that near
  the end are no DRAM on any SoC of the table.
* The chunked loops of `fel_readl_n()` and `fel_writel_n()`, the code they
  upload, `fel_clrsetbits_le32()` and the stub of `aw_fel_remotefunc_*`:
  straight-line use of the scratch area.  FelCmd has their effect on memory.
  The same goes for the SMC workaround and for the register protocol of the
  SID block.
* `read_all()`, the input of the script compiler from a pipe: characters.
  Offsets in a `.bin` are numbers without a limit: a file beyond 2^31 bytes,
  where `section->offset` and `bin_size` no longer fit an `int`, is not modelled.
* The NAND image builder: page layout, a randomizer and the BCH code of the
  Linux kernel, one pass over a file, with arithmetic over a large field.
* `sunxi-pio`: bit fields in one sequential pass over a register dump.
* The dumpers, `sunxi-meminfo`, the target programs, scripts and tests: output,
  register accesses or drivers without a state of their own.

## 8. Plan

Done: FelUsb with FelMem, SocInfo, FelSpl, FelMemmove, SpiFlash; FelDevice,
FitImage and FelCmd; ScriptBin, ScriptFex and Fexc; NandPart; the proofs of
section 6, which cover every safety property.

Left, in order:

1. FelWords: `fel_readl_n()`, `fel_writel_n()`, `fel_clrsetbits_le32()`: chunks
   of words through uploaded code with appended data, as an implementation of
   word-wise memory.
2. As operators against a reference definition: the bit fields of `sunxi-pio`,
   the page layout of the NAND image builder, the FIFO loop of the SPI
   interpreter.
