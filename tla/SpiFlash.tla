------------------------------ MODULE SpiFlash ------------------------------
(***************************************************************************)
(* Reading and writing an SPI flash over FEL: fel-spiflash.c on the host,  *)
(* the batch interpreter of fel-remotefunc-spi-data-transfer.c on the SoC, *)
(* and the flash chip (external).  The host collects chip commands in a    *)
(* buffer in SRAM and starts the interpreter, which works through them     *)
(* while the chip may be busy with the last one.  A USB error ends the     *)
(* tool while the device goes on; the user then power cycles the board and *)
(* gives the same command again.                                           *)
(*                                                                         *)
(* A buffer of commands is a sequence of records; cmd_idx keeps its length *)
(* in bytes, with the sizes the code gives the commands.  FEL reads,       *)
(* writes and executions are atomic here: FelUsb takes them apart.         *)
(***************************************************************************)
EXTENDS Integers, Sequences

CONSTANTS
    FlashSize,    \* bytes of the chip
    SmallErase,   \* small_erase_size
    LargeErase,   \* large_erase_size
    ProgramSize,  \* program_size: the chip's page
    MaxChunk,     \* max_chunk_size
    Slack,        \* the 64 of "program_size + 64"
    Starts,       \* offsets a user may ask for
    ReadLens,     \* lengths a user may read
    WriteLens,    \* sizes of files a user may write
    MaxCrashes    \* bound: USB errors in a behaviour

\* Pages and blocks nest, a page and its commands fit the buffer with the
\* end marker, and the user stays within the chip.
ASSUME SizesNest ==
    /\ {FlashSize, SmallErase, LargeErase, ProgramSize, MaxChunk, Slack, MaxCrashes}
         \cup Starts \cup ReadLens \cup WriteLens \subseteq Nat
    /\ ProgramSize > 0 /\ SmallErase > 0 /\ LargeErase > 0
    /\ SmallErase % ProgramSize = 0
    /\ LargeErase % SmallErase = 0 /\ FlashSize % LargeErase = 0
    /\ MaxChunk > 8 /\ MaxChunk > ProgramSize + Slack /\ Slack > 22
    /\ \A s \in Starts, l \in ReadLens \cup WriteLens : s + l <= FlashSize

VARIABLES
    pc,         \* step of the tool; "dead" after a USB error
    op,         \* "read", "write" or "info"
    start,      \* the user's offset
    total,      \* the user's length
    supported,  \* spi0_init() knows the SoC
    done,       \* bytes finished: "offset", "len" and "buf8" move with it
    block,      \* end of the block that the write helper is at
    esize,      \* the helper's erase_size
    batch,      \* commands in the buffer
    cmd_idx,    \* bytes in the buffer, with the end marker
    next,       \* interpreter: command it is at; 0 if it does not run, -1 if
                \* it has run past the end marker
    junk,       \* bytes of SRAM, from the buffer's start, that may not be 0
    sram,       \* "user", or "buffer" once the buffer has overwritten it
    rx,         \* what the last read command has received
    file,       \* what the user gets
    flash,      \* contents of the chip
    wel,        \* chip: write enable latch
    busy,       \* chip: bytes it is erasing or programming
    crashes     \* USB errors so far

request == <<op, start, total, supported>>
helper == <<block, esize>>
buffer == <<batch, cmd_idx>>
chip == <<flash, wel, busy>>
vars == <<pc, request, done, helper, buffer, next, junk, sram, rx, file, chip, crashes>>

Flash == 0..(FlashSize - 1)

\* SRAM from the buffer's start to a little behind it.
Sram == 0..(MaxChunk + 7)

\* What a byte of the chip, or of the user's file, holds.
Old(a) == <<"old", a>>        \* what was at a before the command
New(k) == <<"new", k>>        \* byte k of the file to write
Erased == <<"erased", 0>>
Garbled == <<"garbled", 0>>
Bytes == {Old(a) : a \in Flash} \cup {New(k) : k \in Flash} \cup {Erased, Garbled}

Nothing == [k \in {} |-> Garbled]

Smaller(a, b) == IF a < b THEN a ELSE b

\* Mutant: the offset does not move.
OffsetStuck == start

Offset == start + done
Left == total - done

Cmd(c, a, n, k) == [cmd |-> c, addr |-> a, size |-> n, data |-> k]
Wren == Cmd("wren", 0, 0, 0)
Wait == Cmd("wait", 0, 0, 0)

Init ==
    /\ pc = "idle"
    /\ op \in {"read", "write", "info"}
    /\ start \in (IF op = "info" THEN {0} ELSE Starts)
    /\ total \in (CASE op = "read" -> ReadLens [] op = "write" -> WriteLens
                    [] op = "info" -> {0})
    /\ supported \in BOOLEAN
    /\ done = 0 /\ block = 0 /\ esize = SmallErase
    /\ batch = <<>> /\ cmd_idx = 0 /\ next = 0
    /\ junk = Sram /\ sram = "user"
    /\ rx = Nothing /\ file = Nothing
    /\ flash = [a \in Flash |-> Old(a)] /\ wel = FALSE /\ busy = {}
    /\ crashes = 0

-----------------------------------------------------------------------------
(* The commands of the tool.  Each begins with backup_sram().              *)

\* The buffer is cleared before it is known whether there is SPI support.
aw_fel_spiflash_read ==
    /\ pc = "idle" /\ op = "read"
    /\ junk' = junk \ 0..(MaxChunk - 1)
    /\ sram' = "buffer"
    /\ pc' = "init"
    /\ UNCHANGED <<request, done, helper, buffer, next, rx, file, chip, crashes>>

\* 'addr' must be aligned to a small block.
Aligned == start % SmallErase = 0

aw_fel_spiflash_write ==
    /\ pc = "idle" /\ op = "write"
    /\ pc' = IF Aligned THEN "init" ELSE "failed"
    /\ UNCHANGED <<request, done, helper, buffer, next, junk, sram, rx, file, chip, crashes>>

aw_fel_spiflash_info ==
    /\ pc = "idle" /\ op = "info"
    /\ pc' = "init"
    /\ UNCHANGED <<request, done, helper, buffer, next, junk, sram, rx, file, chip, crashes>>

\* Without SPI support the commands return at once.
spi0_init ==
    /\ pc = "init"
    /\ pc' = IF ~supported THEN "failed" ELSE IF op = "info" THEN "id" ELSE "loop"
    /\ UNCHANGED <<request, done, helper, buffer, next, junk, sram, rx, file, chip, crashes>>

\* spiflash-info: one command with its end marker.
ReadId ==
    /\ pc = "id"
    /\ batch' = <<Cmd("id", 0, 4, 0)>> /\ cmd_idx' = 8
    /\ next' = 1
    /\ junk' = (junk \ {6, 7}) \cup 0..5
    /\ sram' = "buffer"
    /\ pc' = "collect"
    /\ UNCHANGED <<request, done, helper, rx, file, chip, crashes>>

\* Behind the loops of a read and of a write.
LoopEnds ==
    /\ pc = "loop" /\ Left = 0
    /\ pc' = "restore"
    /\ UNCHANGED <<request, done, helper, buffer, next, junk, sram, rx, file, chip, crashes>>

restore_sram ==
    /\ pc = "restore"
    /\ sram' = "user" /\ junk' = Sram
    /\ pc' = "done"
    /\ UNCHANGED <<request, done, helper, buffer, next, rx, file, chip, crashes>>

-----------------------------------------------------------------------------
(* aw_fel_spiflash_read()                                                  *)

\* Mutant: no room is left for the end marker.
RoomNoMarker == MaxChunk - 6

\* "max_chunk_size - 8": the length, the command, and the end marker.
Room == MaxChunk - 8

ChunkSize == Smaller(Left, Room)

\* A chunk of full size is sent without its data and end marker: zeros are
\* expected to be in the SRAM behind it.
ReadChunk ==
    /\ pc = "loop" /\ op = "read" /\ Left > 0
    /\ batch' = <<Cmd("read", Offset, ChunkSize, 0)>> /\ cmd_idx' = ChunkSize + 8
    /\ next' = 1
    /\ junk' = 0..5 \cup (IF ChunkSize = Room THEN junk ELSE junk \ 0..(ChunkSize + 7))
    /\ sram' = "buffer"
    /\ pc' = "collect"
    /\ UNCHANGED <<request, done, helper, rx, file, chip, crashes>>

\* The interpreter has returned and what it received is read back.
Collect ==
    /\ pc = "collect" /\ next = 0
    /\ IF op = "info"
         THEN pc' = "restore" /\ UNCHANGED <<file, done>>
         ELSE /\ file' = [k \in 0..(done + ChunkSize - 1) |->
                             IF k < done THEN file[k] ELSE rx[k - done]]
              /\ done' = done + ChunkSize
              /\ pc' = "loop"
    /\ UNCHANGED <<request, helper, buffer, next, junk, sram, rx, chip, crashes>>

-----------------------------------------------------------------------------
(* aw_fel_spiflash_write() and its helper                                  *)

\* Mutant: large blocks are used for short rests too.
LargeShort == Offset % LargeErase = 0

\* Large blocks are used where a whole one is to be written.
Large == Offset % LargeErase = 0 /\ Left >= LargeErase

\* The outer loop calls the helper for one block.
NextBlock ==
    /\ pc = "loop" /\ op = "write" /\ Left > 0
    /\ esize' = IF Large THEN LargeErase ELSE SmallErase
    /\ block' = done + Smaller(esize', Left)
    /\ batch' = <<>> /\ cmd_idx' = 0
    /\ pc' = "fill"
    /\ UNCHANGED <<request, done, next, junk, sram, rx, file, chip, crashes>>

\* Mutant: the block is erased before every page.
EraseFirstAlways == TRUE

EraseFirst == Offset % esize = 0

EraseCmds ==
    IF EraseFirst THEN <<Wren, Cmd("erase", Offset, esize, 0), Wait>> ELSE <<>>

WriteCount == Smaller(ProgramSize, block - done)

\* Mutant: the chip is not waited for.
PageCmdsNoWait == <<Wren, Cmd("program", Offset, WriteCount, done)>>

PageCmds == <<Wren, Cmd("program", Offset, WriteCount, done), Wait>>

\* Mutant: the buffer is filled to its end.
RoomLeftNot == MaxChunk > cmd_idx

RoomLeft == MaxChunk - cmd_idx > ProgramSize + Slack

\* The inner loop: the commands for one page.
FillPage ==
    /\ pc = "fill" /\ done < block /\ RoomLeft
    /\ batch' = batch \o EraseCmds \o PageCmds
    /\ cmd_idx' = cmd_idx + (IF EraseFirst THEN 11 ELSE 0) + 11 + WriteCount
    /\ done' = done + WriteCount
    /\ UNCHANGED <<pc, request, helper, next, junk, sram, rx, file, chip, crashes>>

\* Behind the inner loop: the end marker is added and the buffer flushed.
Flush ==
    /\ pc = "fill" /\ ~(done < block /\ RoomLeft)
    /\ cmd_idx' = cmd_idx + 2
    /\ next' = 1
    /\ junk' = (junk \ {cmd_idx, cmd_idx + 1}) \cup 0..(cmd_idx - 1)
    /\ sram' = "buffer"
    /\ pc' = "flushed"
    /\ UNCHANGED <<request, done, helper, batch, rx, file, chip, crashes>>

\* The interpreter has returned: on with the block, or back to the caller.
Flushed ==
    /\ pc = "flushed" /\ next = 0
    /\ batch' = <<>> /\ cmd_idx' = 0
    /\ pc' = IF done < block THEN "fill" ELSE "loop"
    /\ UNCHANGED <<request, done, helper, next, junk, sram, rx, file, chip, crashes>>

-----------------------------------------------------------------------------
(* spi_batch_data_transfer() and the chip.  A command that reaches a busy  *)
(* chip is ignored, and so is an erase or a program command without the    *)
(* write enable latch.                                                     *)

InPage(a, i) == ProgramSize * (a \div ProgramSize) + ((a + i) % ProgramSize)
InBlock(a, n) == {b \in Flash : b \div n = a \div n}
Programmed(c) == {InPage(c.addr, i) : i \in 0..(c.size - 1)}

\* A byte that is not erased cannot be programmed: its bits are ANDed.
Program(c) ==
    [a \in Flash |->
        IF a \notin Programmed(c) THEN flash[a]
        ELSE IF flash[a] = Erased
               THEN New(c.data + (CHOOSE i \in 0..(c.size - 1) : InPage(c.addr, i) = a))
               ELSE Garbled]

\* What command c does to the chip.
Obey(c) ==
    CASE busy # {} -> UNCHANGED chip
      [] busy = {} /\ c.cmd = "wren" -> wel' = TRUE /\ UNCHANGED <<flash, busy>>
      [] busy = {} /\ c.cmd = "erase" /\ wel ->
            /\ busy' = InBlock(c.addr, c.size)
            /\ flash' = [a \in Flash |-> IF a \in busy' THEN Erased ELSE flash[a]]
            /\ UNCHANGED wel
      [] busy = {} /\ c.cmd = "program" /\ wel ->
            /\ busy' = Programmed(c)
            /\ flash' = Program(c)
            /\ UNCHANGED wel
      [] OTHER -> UNCHANGED chip

Running == next \in 1..Len(batch)

\* The transfer is full duplex: what a command receives replaces it.
Transfer ==
    /\ Running /\ batch[next].cmd # "wait"
    /\ Obey(batch[next])
    /\ rx' = IF batch[next].cmd = "read"
               THEN [k \in 0..(batch[next].size - 1) |->
                        IF busy = {} THEN flash[batch[next].addr + k] ELSE Garbled]
               ELSE Nothing
    /\ junk' = IF batch[next].cmd = "read" THEN junk \cup 2..(batch[next].size + 5) ELSE junk
    /\ next' = next + 1
    /\ UNCHANGED <<pc, request, done, helper, buffer, sram, file, crashes>>

\* Mutant: the status bit is read the wrong way round.
StillBusyNot == busy = {}

StillBusy == busy # {}

\* 0xFFFF: the status is read until the chip is ready.
WaitForCompletion ==
    /\ Running /\ batch[next].cmd = "wait"
    /\ ~StillBusy
    /\ next' = next + 1
    /\ UNCHANGED <<pc, request, done, helper, buffer, junk, sram, rx, file, chip, crashes>>

\* A code of 0 ends the batch; anything else is taken for a command.
EndOfData ==
    /\ next > Len(batch)
    /\ next' = IF {cmd_idx - 2, cmd_idx - 1} \cap junk = {} THEN 0 ELSE -1
    /\ UNCHANGED <<pc, request, done, helper, buffer, junk, sram, rx, file, chip, crashes>>

\* The chip has finished: the latch falls with it.
Complete ==
    /\ busy # {}
    /\ busy' = {} /\ wel' = FALSE
    /\ UNCHANGED <<pc, request, done, helper, buffer, next, junk, sram, rx, file, flash, crashes>>

-----------------------------------------------------------------------------
(* Failures                                                                *)

Ended == pc \in {"done", "failed", "dead"}

\* A transfer fails or times out: usb_error() exits; the device goes on.
UsbError ==
    /\ pc \notin {"idle", "done", "failed", "dead"} /\ crashes < MaxCrashes
    /\ pc' = "dead"
    /\ crashes' = crashes + 1
    /\ UNCHANGED <<request, done, helper, buffer, next, junk, sram, rx, file, chip>>

\* The board is power cycled, whatever it is doing, and the user tries again.
PowerCycle ==
    /\ pc = "dead"
    /\ pc' = "idle"
    /\ done' = 0 /\ block' = 0 /\ esize' = SmallErase
    /\ batch' = <<>> /\ cmd_idx' = 0 /\ next' = 0
    /\ junk' = Sram /\ sram' = "user"
    /\ rx' = Nothing /\ file' = Nothing
    /\ flash' = [a \in Flash |-> IF a \in busy THEN Garbled ELSE flash[a]]
    /\ wel' = FALSE /\ busy' = {}
    /\ UNCHANGED <<request, crashes>>

Tool ==
    \/ aw_fel_spiflash_read \/ aw_fel_spiflash_write \/ aw_fel_spiflash_info
    \/ spi0_init \/ ReadId \/ ReadChunk \/ Collect
    \/ NextBlock \/ FillPage \/ Flush \/ Flushed \/ LoopEnds \/ restore_sram

spi_batch_data_transfer == Transfer \/ WaitForCompletion \/ EndOfData

Next == Tool \/ spi_batch_data_transfer \/ Complete \/ UsbError \/ PowerCycle

\* The tool and the interpreter run, and the chip finishes what it began;
\* nothing has to fail and nobody has to try again.
Spec ==
    /\ Init /\ [][Next]_vars
    /\ WF_vars(Tool) /\ WF_vars(spi_batch_data_transfer) /\ WF_vars(Complete)

-----------------------------------------------------------------------------
(* Properties                                                              *)

\* What spiflash-read saves is what the chip held, chunk after chunk,
\* although the later chunks reuse the buffer without clearing it, and
\* although an earlier try was cut off.
ReadExact ==
    pc = "done" /\ op = "read" => file = [k \in 0..(total - 1) |-> Old(start + k)]

\* Behind a write that reported success the chip holds the file, whatever an
\* earlier try that was cut off has left: every page was erased before it was
\* programmed, none was lost to a busy chip, and the rest of the last small
\* block is erased.
WriteExact ==
    pc = "done" /\ op = "write" =>
        \A a \in Flash :
            /\ a \in start..(start + total - 1) => flash[a] = New(a - start)
            /\ a >= start + total /\ total > 0
                 /\ a \div SmallErase = (start + total - 1) \div SmallErase
                   => flash[a] = Erased

\* The blocks of SmallErase bytes that the user's range touches.
InRange(a) ==
    \E b \in start..(start + total - 1) : a \div SmallErase = b \div SmallErase

\* No byte outside the small blocks that the file touches ever changes, even
\* if the tool or the power fails, and a read or info changes none: a large
\* block is erased only where the file covers all of it.
NeighboursKept ==
    \A a \in Flash :
        ~(op = "write" /\ InRange(a)) => flash[a] = Old(a) /\ a \notin busy

\* The chip is ready for every command that reaches it, and its latch is set
\* for those that need it: none is silently ignored.  The batch's waits, and
\* the order of its commands, are what ensures it.
ChipReady ==
    Running /\ batch[next].cmd # "wait" =>
        /\ busy = {}
        /\ batch[next].cmd \in {"erase", "program"} => wel

\* The commands and the end marker fit the buffer, which was allocated with
\* max_chunk_size bytes and must end before the scratch area.
CmdFits == cmd_idx <= MaxChunk

\* The interpreter finds the end marker: behind a chunk of full size it must
\* still be in the SRAM from before.  A command that could use the controller
\* leaves the SRAM behind as it found it.
EndFound ==
    /\ next # -1
    /\ supported /\ pc \in {"done", "failed"} => sram = "user"

\* Every command comes to an end: the loops of the write helper make progress
\* and the interpreter's waits end when the chip is ready.
Terminates == []<>Ended

=============================================================================
