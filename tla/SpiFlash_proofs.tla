-------------------------- MODULE SpiFlash_proofs --------------------------
(* What SpiFlash's runs check on one chip, for every chip and buffer.      *)
EXTENDS SpiFlash, SequenceTheorems, TLAPS

-----------------------------------------------------------------------------
(* The inductive invariant                                                 *)

Command ==
    [cmd : {"wren", "wait", "erase", "program", "read", "id"},
     addr : Nat, size : Nat, data : Nat]

TypeOK ==
    /\ pc \in {"idle", "init", "id", "loop", "collect", "fill", "flushed",
               "restore", "done", "failed", "dead"}
    /\ op \in {"read", "write", "info"}
    /\ start \in Nat /\ total \in Nat /\ start + total <= FlashSize
    /\ done \in Nat /\ done <= total
    /\ block \in Nat /\ esize \in {SmallErase, LargeErase}
    /\ batch \in Seq(Command) /\ cmd_idx \in Nat
    /\ next \in 0..(Len(batch) + 1)
    /\ junk \subseteq Int
    /\ wel \in BOOLEAN /\ busy \subseteq Flash

\* Which steps belong to which command, and when the interpreter runs.
Control ==
    /\ next # 0 => pc \in {"collect", "flushed", "dead"}
    /\ pc \in {"fill", "flushed"} => op = "write"
    /\ pc = "collect" => op # "write"
    /\ pc = "id" => op = "info"
    /\ pc = "loop" => op # "info"
    /\ pc \in {"idle", "init"} => done = 0
    /\ pc \in {"restore", "done"} /\ op # "info" => done = total
    /\ pc \notin {"idle", "failed", "dead"} /\ op = "write" => Aligned

\* What the SRAM holds where the interpreter looks for the end marker.
Marker ==
    /\ next > 0 => {cmd_idx - 2, cmd_idx - 1} \cap junk = {}
    /\ op = "read" /\ pc \in {"init", "loop", "collect"} =>
          {MaxChunk - 2, MaxChunk - 1} \cap junk = {}
    /\ pc = "idle" => sram = "user"
    /\ pc \in {"done", "failed"} /\ supported => sram = "user"

Fits ==
    /\ cmd_idx <= MaxChunk
    /\ pc = "fill" => cmd_idx + 2 <= MaxChunk

\* A read or info has one command in the buffer.
OneCommand ==
    op # "write" =>
        /\ Len(batch) <= 1
        /\ Len(batch) = 1 => /\ batch[1].cmd \in {"read", "id"}
                             /\ batch[1].cmd = "read" => cmd_idx = batch[1].size + 8
                             /\ batch[1].size + 8 <= MaxChunk

\* A write has groups of three: write enable, erase or program, wait.
Groups ==
    op = "write" =>
        /\ Len(batch) % 3 = 0
        /\ \A i \in 1..Len(batch) :
              /\ i % 3 = 1 => batch[i].cmd = "wren"
              /\ i % 3 = 2 => batch[i].cmd \in {"erase", "program"}
              /\ i % 3 = 0 => batch[i].cmd = "wait"

\* The chip works on a command only while the interpreter waits for it.
Chip ==
    /\ busy # {} => Running /\ batch[next].cmd = "wait"
    /\ Running /\ batch[next].cmd \in {"erase", "program"} => wel

\* Where the write helper is.
Place ==
    op = "write" =>
        /\ done <= block /\ block <= total
        /\ esize # SmallErase => (start + block) % LargeErase = 0
        /\ Aligned => block = total \/ (start + block) % SmallErase = 0
        /\ pc \in {"fill", "flushed"} =>
              /\ block <= done + esize
              /\ done < block => (start + done) % ProgramSize = 0
        /\ pc \in {"idle", "init", "loop", "restore", "done"} =>
              done = block /\ batch = <<>>

\* An erase is followed by the first page of its block; the pages follow each
\* other, and none crosses into a block without an erase in front of it.
OrderOf(i) ==
    LET c == batch[i]
        d == batch[i + 3]
    IN  /\ c.addr >= start /\ c.addr < start + block
        /\ start + block <= c.addr + esize
        /\ c.addr % ProgramSize = 0
        /\ c.cmd = "erase" =>
              /\ c.size = esize /\ c.addr % esize = 0
              /\ i + 3 <= Len(batch) /\ d.cmd = "program" /\ d.addr = c.addr
        /\ c.cmd = "program" =>
              /\ c.addr = start + c.data
              /\ c.size = Smaller(ProgramSize, block - c.data)
              /\ IF i + 3 <= Len(batch)
                   THEN /\ d.addr = c.addr + c.size
                        /\ d.cmd = "program" => d.addr % esize # 0
                   ELSE start + done = c.addr + c.size

Order == op = "write" => \A i \in 1..Len(batch) : i % 3 = 2 => OrderOf(i)

\* The first erase or program command that the interpreter has yet to do, and
\* the first byte that is not yet what the user wants.
At == IF pc = "fill" THEN 1 ELSE IF next = 0 THEN Len(batch) + 1 ELSE next
Todo == 3 * (At \div 3) + 2
Front == IF Todo > Len(batch) THEN start + done ELSE batch[Todo].addr

BlockFrom(b) == {a \in Flash : a >= b /\ a \div esize = b \div esize}

Working == op = "write" /\ pc \in {"loop", "fill", "flushed", "restore", "done"}

\* Up to Front the chip holds the file; what is left of Front's block is
\* erased, unless Front is where a block begins that is still to be erased.
Written ==
    Working =>
        /\ \A a \in start..(Front - 1) : flash[a] = New(a - start)
        /\ \/ Todo <= Len(batch) /\ batch[Todo].cmd = "erase"
           \/ Todo > Len(batch) /\ (start + done) % esize = 0
           \/ \A a \in BlockFrom(Front) : flash[a] = Erased

OldFrom(s, n) == [k \in 0..(n - 1) |-> Old(s + k)]

\* What has been read so far.
Readings ==
    op = "read" =>
        /\ pc \notin {"failed", "dead"} => file = OldFrom(start, done)
        /\ pc = "collect" =>
              /\ Left > 0
              /\ batch = <<Cmd("read", Offset, ChunkSize, 0)>>
              /\ next # 1 => rx = OldFrom(Offset, ChunkSize)

IInv ==
    /\ TypeOK /\ Control /\ Marker /\ Fits /\ OneCommand /\ Groups /\ Chip
    /\ Place /\ Order /\ Written /\ Readings /\ NeighboursKept

-----------------------------------------------------------------------------
(* Division                                                                *)

LEMMA DivMod ==
    ASSUME NEW a \in Int, NEW n \in Nat, n > 0
    PROVE  /\ a \div n \in Int /\ a % n \in Int
           /\ a = n * (a \div n) + (a % n)
           /\ 0 <= a % n /\ a % n < n
OBVIOUS

LEMMA DivUnique ==
    ASSUME NEW a \in Int, NEW n \in Nat, n > 0, NEW q \in Int,
           n * q <= a, a < n * q + n
    PROVE  a \div n = q /\ a % n = a - n * q
<1>1. /\ a = n * (a \div n) + (a % n) /\ 0 <= a % n /\ a % n < n
      /\ a \div n \in Int /\ a % n \in Int
  BY DivMod
<1>2. n * (a \div n) - n * q = n * ((a \div n) - q)
  BY <1>1
<1>3. (a \div n) - q < 1
  <2> SUFFICES ASSUME (a \div n) - q >= 1 PROVE FALSE
    BY <1>1
  <2>1. n * ((a \div n) - q) >= n
    BY <1>1
  <2> QED BY <1>1, <1>2, <2>1
<1>4. (a \div n) - q > -1
  <2> SUFFICES ASSUME (a \div n) - q <= -1 PROVE FALSE
    BY <1>1
  <2>1. n * ((a \div n) - q) <= -n
    BY <1>1
  <2> QED BY <1>1, <1>2, <2>1
<1> QED BY <1>1, <1>3, <1>4

\* A multiple of n is recognised by its quotient.
LEMMA Multiple ==
    ASSUME NEW n \in Nat, n > 0, NEW q \in Int
    PROVE  n * q \in Int /\ (n * q) % n = 0 /\ (n * q) \div n = q
<1> DEFINE a == n * q
<1>1. a \in Int
  OBVIOUS
<1>2. n * q <= a /\ a < n * q + n
  BY <1>1
<1>3. a \div n = q /\ a % n = a - n * q
  BY <1>1, <1>2, DivUnique
<1> QED BY <1>1, <1>3

LEMMA ModMod ==
    ASSUME NEW a \in Int, NEW n \in Nat, n > 0, NEW m \in Nat, m > 0,
           m % n = 0, a % m = 0
    PROVE  a % n = 0
<1>1. m = n * (m \div n) /\ m \div n \in Int
  BY DivMod
<1>2. a = m * (a \div m) /\ a \div m \in Int
  BY DivMod
<1> DEFINE q == (m \div n) * (a \div m)
<1>3. a = n * q /\ q \in Int
  BY <1>1, <1>2
<1> HIDE DEF q
<1> QED BY <1>3, Multiple

LEMMA ModAdd ==
    ASSUME NEW a \in Int, NEW b \in Int, NEW n \in Nat, n > 0,
           a % n = 0, b % n = 0
    PROVE  (a + b) % n = 0 /\ (a - b) % n = 0
<1>1. a = n * (a \div n) /\ a \div n \in Int
  BY DivMod
<1>2. b = n * (b \div n) /\ b \div n \in Int
  BY DivMod
<1> DEFINE q == (a \div n) + (b \div n)
           r == (a \div n) - (b \div n)
<1>3. a + b = n * q /\ q \in Int
  BY <1>1, <1>2
<1>4. a - b = n * r /\ r \in Int
  BY <1>1, <1>2
<1> HIDE DEF q, r
<1> QED BY <1>3, <1>4, Multiple

\* Where n divides m, a block of m is made of whole blocks of n.
LEMMA SameDiv ==
    ASSUME NEW a \in Int, NEW b \in Int, NEW n \in Nat, n > 0,
           NEW m \in Nat, m > 0, m % n = 0, a \div n = b \div n
    PROVE  a \div m = b \div m
<1> DEFINE q == a \div n
           k == m \div n
           z == q \div k
           r == q % k
<1>1. m = n * k /\ k \in Int
  BY DivMod
<1>2. k > 0
  BY <1>1
<1>3. q \in Int /\ q = k * z + r /\ 0 <= r /\ r < k /\ z \in Int /\ r \in Int
  BY <1>1, <1>2, DivMod
<1>4. /\ a = n * q + (a % n) /\ 0 <= a % n /\ a % n < n /\ a % n \in Int
      /\ b = n * q + (b % n) /\ 0 <= b % n /\ b % n < n /\ b % n \in Int
  BY DivMod
<1> HIDE DEF q, k, z, r
<1>5. n * q = n * (k * z) + n * r
  BY <1>3, <1>1
<1>6. n * (k * z) = m * z
  BY <1>1, <1>3
<1>7. n * r >= 0 /\ n * r <= n * (k - 1)
  BY <1>1, <1>3
<1>8. n * (k - 1) = m - n
  BY <1>1
<1>9. n * r \in Int /\ m * z \in Int /\ n * q \in Int
  BY <1>1, <1>3
<1>10. m * z <= a /\ a < m * z + m /\ m * z <= b /\ b < m * z + m
  BY <1>4, <1>5, <1>6, <1>7, <1>8, <1>9
<1> QED BY <1>3, <1>10, DivUnique

\* The block of n that begins at a.
LEMMA BlockAt ==
    ASSUME NEW a \in Int, NEW b \in Int, NEW n \in Nat, n > 0, a % n = 0
    PROVE  a \div n = b \div n <=> a <= b /\ b < a + n
<1>1. a = n * (a \div n) /\ a \div n \in Int
  BY DivMod
<1>2. ASSUME a \div n = b \div n PROVE a <= b /\ b < a + n
  BY <1>1, <1>2, DivMod
<1>3. ASSUME a <= b, b < a + n PROVE a \div n = b \div n
  BY <1>1, <1>3, DivUnique
<1> QED BY <1>2, <1>3

\* The byte before a: in a's block, unless a begins it.
LEMMA BeforeBlock ==
    ASSUME NEW a \in Int, NEW n \in Nat, n > 0
    PROVE  /\ a % n # 0 => (a - 1) \div n = a \div n
           /\ a % n = 0 => \A b \in Int : b >= a => b \div n # (a - 1) \div n
<1> DEFINE q == a \div n
<1>1. a = n * q + (a % n) /\ q \in Int /\ a % n \in 0..(n - 1)
  BY DivMod
<1> HIDE DEF q
<1>2. n * q \in Int
  BY <1>1
<1>3. ASSUME a % n # 0 PROVE (a - 1) \div n = a \div n
  <2>1. n * q <= a - 1 /\ a - 1 < n * q + n
    BY <1>1, <1>2, <1>3
  <2>2. (a - 1) \div n = q
    BY <1>1, <2>1, DivUnique
  <2> QED BY <2>2 DEF q
<1>4. ASSUME a % n = 0, NEW b \in Int, b >= a, b \div n = (a - 1) \div n
      PROVE  FALSE
  <2>1. n * (q - 1) = n * q - n
    BY <1>1
  <2>2. n * (q - 1) <= a - 1 /\ a - 1 < n * (q - 1) + n
    BY <1>1, <1>2, <1>4, <2>1
  <2>3. b \div n = q - 1
    BY <1>1, <2>2, <1>4, DivUnique
  <2>4. b = n * (b \div n) + (b % n) /\ b % n < n /\ b % n \in Int
    BY DivMod
  <2> QED BY <1>1, <1>2, <1>4, <2>1, <2>3, <2>4
<1> QED BY <1>3, <1>4

\* Bytes between two of one block are in it.
LEMMA Between ==
    ASSUME NEW a \in Int, NEW b \in Int, NEW c \in Int, NEW n \in Nat, n > 0,
           a <= b, b <= c, a \div n = c \div n
    PROVE  b \div n = a \div n
<1>1. a = n * (a \div n) + (a % n) /\ 0 <= a % n /\ a \div n \in Int /\ a % n \in Int
  BY DivMod
<1>2. c = n * (a \div n) + (c % n) /\ c % n < n /\ c % n \in Int
  BY DivMod
<1>3. n * (a \div n) <= b /\ b < n * (a \div n) + n
  BY <1>1, <1>2
<1> QED BY <1>1, <1>3, DivUnique

\* A page lies in one block of m, and so does what comes behind it, unless a
\* block begins there.
LEMMA PageInBlock ==
    ASSUME NEW a \in Int, NEW n \in Nat, n > 0, NEW m \in Nat, m > 0,
           m % n = 0, a % n = 0, NEW s \in Int, s <= n
    PROVE  /\ \A i \in 0..(s - 1) : (a + i) \div m = a \div m
           /\ s > 0 /\ (a + s) % m # 0 => (a + s) \div m = a \div m
<1>1. ASSUME NEW i \in 0..(s - 1) PROVE (a + i) \div m = a \div m
  <2>1. a \div n = (a + i) \div n
    BY BlockAt
  <2> QED BY <2>1, SameDiv
<1>2. ASSUME s > 0, (a + s) % m # 0 PROVE (a + s) \div m = a \div m
  <2>1. ((a + s) - 1) \div m = (a + s) \div m
    BY <1>2, BeforeBlock
  <2> DEFINE i == s - 1
  <2>2. (a + i) \div m = a \div m
    <3>1. i \in 0..(s - 1)
      BY <1>2
    <3> QED BY <3>1, <1>1
  <2>3. (a + s) - 1 = a + i
    OBVIOUS
  <2> QED BY <2>1, <2>2, <2>3
<1> QED BY <1>1, <1>2

-----------------------------------------------------------------------------
(* The chip                                                                *)

LEMMA Sizes ==
    /\ FlashSize \in Nat /\ MaxChunk \in Nat /\ Slack \in Nat
    /\ ProgramSize \in Nat /\ ProgramSize > 0
    /\ SmallErase \in Nat /\ SmallErase > 0 /\ SmallErase % ProgramSize = 0
    /\ LargeErase \in Nat /\ LargeErase > 0 /\ LargeErase % SmallErase = 0
    /\ LargeErase % ProgramSize = 0
    /\ MaxChunk > 8 /\ MaxChunk > ProgramSize + Slack /\ Slack > 22
<1>1. /\ FlashSize \in Nat /\ MaxChunk \in Nat /\ Slack \in Nat
      /\ ProgramSize \in Nat /\ ProgramSize > 0
      /\ SmallErase \in Nat /\ SmallErase > 0 /\ SmallErase % ProgramSize = 0
      /\ LargeErase \in Nat /\ LargeErase > 0 /\ LargeErase % SmallErase = 0
      /\ MaxChunk > 8 /\ MaxChunk > ProgramSize + Slack /\ Slack > 22
  BY SizesNest
<1> QED BY <1>1, ModMod

LEMMA ESize ==
    ASSUME TypeOK
    PROVE  /\ esize \in Nat /\ esize > 0 /\ esize % ProgramSize = 0
           /\ esize % SmallErase = 0
<1>1. SmallErase % SmallErase = 0
  <2>1. SmallErase * 1 = SmallErase
    BY Sizes
  <2> QED BY <2>1, Sizes, Multiple
<1> QED BY <1>1, Sizes DEF TypeOK

\* A page command that begins at a page does not wrap around in it.
LEMMA InPageIs ==
    ASSUME NEW a \in Nat, a % ProgramSize = 0, NEW i \in Nat, i < ProgramSize
    PROVE  InPage(a, i) = a + i
<1> DEFINE q == a \div ProgramSize
<1>1. a = ProgramSize * q /\ q \in Int
  BY Sizes, DivMod
<1>2. ProgramSize * q <= a + i /\ a + i < ProgramSize * q + ProgramSize
  BY <1>1, Sizes
<1>3. (a + i) % ProgramSize = (a + i) - ProgramSize * q
  <2> DEFINE x == a + i
  <2>1. x \in Int /\ ProgramSize \in Nat /\ ProgramSize > 0
    BY Sizes
  <2>2. q \in Int /\ ProgramSize * q <= x /\ x < ProgramSize * q + ProgramSize
    BY <1>1, <1>2
  <2> HIDE DEF q, x
  <2>3. x % ProgramSize = x - ProgramSize * q
    BY ONLY <2>1, <2>2, DivUnique
  <2> QED BY ONLY <2>3 DEF x
<1> QED BY <1>1, <1>3 DEF InPage

LEMMA ProgrammedIs ==
    ASSUME NEW c, c.addr \in Nat, c.addr % ProgramSize = 0,
           c.size \in Nat, c.size <= ProgramSize
    PROVE  Programmed(c) = c.addr..(c.addr + c.size - 1)
<1>1. \A i \in 0..(c.size - 1) : InPage(c.addr, i) = c.addr + i
  BY InPageIs, Sizes
<1>2. ASSUME NEW a \in Programmed(c) PROVE a \in c.addr..(c.addr + c.size - 1)
  BY <1>1, <1>2 DEF Programmed
<1>3. ASSUME NEW a \in c.addr..(c.addr + c.size - 1) PROVE a \in Programmed(c)
  <2>1. a - c.addr \in 0..(c.size - 1) /\ c.addr + (a - c.addr) = a
    OBVIOUS
  <2>2. InPage(c.addr, a - c.addr) = a
    BY <1>1, <2>1
  <2> QED BY <2>1, <2>2 DEF Programmed
<1> QED BY <1>2, <1>3

\* Erased bytes take the data of their place in the file.
LEMMA ProgramIs ==
    ASSUME NEW c, c.addr \in Nat, c.addr % ProgramSize = 0,
           c.size \in Nat, c.size <= ProgramSize, c.data \in Nat,
           NEW a \in Flash
    PROVE  /\ a \notin Programmed(c) => Program(c)[a] = flash[a]
           /\ a \in Programmed(c) /\ flash[a] = Erased =>
                 Program(c)[a] = New(c.data + (a - c.addr))
<1>1. a \notin Programmed(c) => Program(c)[a] = flash[a]
  BY DEF Program
<1>2. ASSUME a \in Programmed(c), flash[a] = Erased
      PROVE  Program(c)[a] = New(c.data + (a - c.addr))
  <2>1. a \in c.addr..(c.addr + c.size - 1)
    BY <1>2, ProgrammedIs
  <2>2. \A i \in 0..(c.size - 1) : InPage(c.addr, i) = c.addr + i
    BY InPageIs, Sizes
  <2> DEFINE j == CHOOSE i \in 0..(c.size - 1) : InPage(c.addr, i) = a
  <2>3. a - c.addr \in 0..(c.size - 1) /\ InPage(c.addr, a - c.addr) = a
    BY <2>1, <2>2
  <2>4. j \in 0..(c.size - 1) /\ InPage(c.addr, j) = a
    BY <2>3
  <2>5. c.addr + j = a
    BY <2>2, <2>4
  <2>6. j = a - c.addr
    BY <2>4, <2>5
  <2>7. Program(c)[a] = New(c.data + j)
    BY <1>2 DEF Program
  <2> QED BY <2>6, <2>7
<1> QED BY <1>1, <1>2

-----------------------------------------------------------------------------
(* The steps keep the invariant.                                           *)

LEMMA ChunkFits ==
    ASSUME TypeOK
    PROVE  /\ Left \in Nat /\ ChunkSize \in Nat /\ ChunkSize <= Left
           /\ ChunkSize + 8 <= MaxChunk
BY Sizes DEF TypeOK, ChunkSize, Smaller, Left, Room

LEMMA aw_fel_spiflash_read_step ==
    ASSUME IInv, aw_fel_spiflash_read
    PROVE  IInv'
<1>1. /\ op' = op /\ start' = start /\ total' = total
      /\ supported' = supported /\ done' = done /\ block' = block
      /\ esize' = esize /\ batch' = batch /\ cmd_idx' = cmd_idx
      /\ next' = next /\ rx' = rx /\ file' = file /\ flash' = flash
      /\ wel' = wel /\ busy' = busy /\ crashes' = crashes
  BY DEF aw_fel_spiflash_read, request, helper, buffer, chip
<1>2. /\ TypeOK /\ Control /\ Marker /\ Fits /\ OneCommand /\ Groups /\ Chip
      /\ Place /\ Order /\ Written /\ Readings /\ NeighboursKept
  BY DEF IInv
<1>3. TypeOK'
  BY <1>1, <1>2, Sizes DEF aw_fel_spiflash_read, TypeOK
<1>4. Control'
  BY <1>1, <1>2, Sizes DEF aw_fel_spiflash_read, TypeOK, Control, Aligned
<1>5. Marker'
  BY <1>1, <1>2, Sizes DEF aw_fel_spiflash_read, TypeOK, Control, Marker
<1>6. Fits'
  BY <1>1, <1>2, Sizes DEF aw_fel_spiflash_read, TypeOK, Control, Fits
<1>7. OneCommand'
  BY <1>1, <1>2, Sizes DEF aw_fel_spiflash_read, TypeOK, Control, OneCommand
<1>8. Groups'
  BY <1>1, <1>2, Sizes DEF aw_fel_spiflash_read, TypeOK, Control, Groups
<1>9. Chip'
  BY <1>1, <1>2, Sizes DEF aw_fel_spiflash_read, TypeOK, Control, Chip, Running
<1>10. Place'
  BY <1>1, <1>2, Sizes DEF aw_fel_spiflash_read, TypeOK, Control, Place, Aligned
<1>11. Order'
  BY <1>1, <1>2, Sizes DEF aw_fel_spiflash_read, TypeOK, Control, Order, OrderOf
<1>12. Written'
  BY <1>1, <1>2, Sizes DEF aw_fel_spiflash_read, TypeOK, Control, Written, Working, Front, Todo, At, BlockFrom
<1>13. Readings'
  BY <1>1, <1>2, Sizes DEF aw_fel_spiflash_read, TypeOK, Control, Readings, Left, Offset, ChunkSize, Room
<1>14. NeighboursKept'
  BY <1>1, <1>2, Sizes DEF aw_fel_spiflash_read, TypeOK, Control, NeighboursKept, InRange
<1> QED BY <1>3, <1>4, <1>5, <1>6, <1>7, <1>8, <1>9, <1>10, <1>11, <1>12, <1>13, <1>14 DEF IInv

LEMMA aw_fel_spiflash_write_step ==
    ASSUME IInv, aw_fel_spiflash_write
    PROVE  IInv'
<1>1. /\ op' = op /\ start' = start /\ total' = total
      /\ supported' = supported /\ done' = done /\ block' = block
      /\ esize' = esize /\ batch' = batch /\ cmd_idx' = cmd_idx
      /\ next' = next /\ junk' = junk /\ sram' = sram /\ rx' = rx
      /\ file' = file /\ flash' = flash /\ wel' = wel /\ busy' = busy
      /\ crashes' = crashes
  BY DEF aw_fel_spiflash_write, request, helper, buffer, chip
<1>2. /\ TypeOK /\ Control /\ Marker /\ Fits /\ OneCommand /\ Groups /\ Chip
      /\ Place /\ Order /\ Written /\ Readings /\ NeighboursKept
  BY DEF IInv
<1>3. TypeOK'
  BY <1>1, <1>2, Sizes DEF aw_fel_spiflash_write, TypeOK
<1>4. Control'
  BY <1>1, <1>2, Sizes DEF aw_fel_spiflash_write, TypeOK, Control, Aligned
<1>5. Marker'
  BY <1>1, <1>2, Sizes DEF aw_fel_spiflash_write, TypeOK, Control, Marker
<1>6. Fits'
  BY <1>1, <1>2, Sizes DEF aw_fel_spiflash_write, TypeOK, Control, Fits
<1>7. OneCommand'
  BY <1>1, <1>2, Sizes DEF aw_fel_spiflash_write, TypeOK, Control, OneCommand
<1>8. Groups'
  BY <1>1, <1>2, Sizes DEF aw_fel_spiflash_write, TypeOK, Control, Groups
<1>9. Chip'
  BY <1>1, <1>2, Sizes DEF aw_fel_spiflash_write, TypeOK, Control, Chip, Running
<1>10. Place'
  BY <1>1, <1>2, Sizes DEF aw_fel_spiflash_write, TypeOK, Control, Place, Aligned
<1>11. Order'
  BY <1>1, <1>2, Sizes DEF aw_fel_spiflash_write, TypeOK, Control, Order, OrderOf
<1>12. Written'
  BY <1>1, <1>2, Sizes DEF aw_fel_spiflash_write, TypeOK, Control, Written, Working, Front, Todo, At, BlockFrom
<1>13. Readings'
  BY <1>1, <1>2, Sizes DEF aw_fel_spiflash_write, TypeOK, Control, Readings, Left, Offset, ChunkSize, Room
<1>14. NeighboursKept'
  BY <1>1, <1>2, Sizes DEF aw_fel_spiflash_write, TypeOK, Control, NeighboursKept, InRange
<1> QED BY <1>3, <1>4, <1>5, <1>6, <1>7, <1>8, <1>9, <1>10, <1>11, <1>12, <1>13, <1>14 DEF IInv

LEMMA aw_fel_spiflash_info_step ==
    ASSUME IInv, aw_fel_spiflash_info
    PROVE  IInv'
<1>1. /\ op' = op /\ start' = start /\ total' = total
      /\ supported' = supported /\ done' = done /\ block' = block
      /\ esize' = esize /\ batch' = batch /\ cmd_idx' = cmd_idx
      /\ next' = next /\ junk' = junk /\ sram' = sram /\ rx' = rx
      /\ file' = file /\ flash' = flash /\ wel' = wel /\ busy' = busy
      /\ crashes' = crashes
  BY DEF aw_fel_spiflash_info, request, helper, buffer, chip
<1>2. /\ TypeOK /\ Control /\ Marker /\ Fits /\ OneCommand /\ Groups /\ Chip
      /\ Place /\ Order /\ Written /\ Readings /\ NeighboursKept
  BY DEF IInv
<1>3. TypeOK'
  BY <1>1, <1>2, Sizes DEF aw_fel_spiflash_info, TypeOK
<1>4. Control'
  BY <1>1, <1>2, Sizes DEF aw_fel_spiflash_info, TypeOK, Control, Aligned
<1>5. Marker'
  BY <1>1, <1>2, Sizes DEF aw_fel_spiflash_info, TypeOK, Control, Marker
<1>6. Fits'
  BY <1>1, <1>2, Sizes DEF aw_fel_spiflash_info, TypeOK, Control, Fits
<1>7. OneCommand'
  BY <1>1, <1>2, Sizes DEF aw_fel_spiflash_info, TypeOK, Control, OneCommand
<1>8. Groups'
  BY <1>1, <1>2, Sizes DEF aw_fel_spiflash_info, TypeOK, Control, Groups
<1>9. Chip'
  BY <1>1, <1>2, Sizes DEF aw_fel_spiflash_info, TypeOK, Control, Chip, Running
<1>10. Place'
  BY <1>1, <1>2, Sizes DEF aw_fel_spiflash_info, TypeOK, Control, Place, Aligned
<1>11. Order'
  BY <1>1, <1>2, Sizes DEF aw_fel_spiflash_info, TypeOK, Control, Order, OrderOf
<1>12. Written'
  BY <1>1, <1>2, Sizes DEF aw_fel_spiflash_info, TypeOK, Control, Written, Working, Front, Todo, At, BlockFrom
<1>13. Readings'
  BY <1>1, <1>2, Sizes DEF aw_fel_spiflash_info, TypeOK, Control, Readings, Left, Offset, ChunkSize, Room
<1>14. NeighboursKept'
  BY <1>1, <1>2, Sizes DEF aw_fel_spiflash_info, TypeOK, Control, NeighboursKept, InRange
<1> QED BY <1>3, <1>4, <1>5, <1>6, <1>7, <1>8, <1>9, <1>10, <1>11, <1>12, <1>13, <1>14 DEF IInv

LEMMA spi0_init_step ==
    ASSUME IInv, spi0_init
    PROVE  IInv'
<1>1. /\ op' = op /\ start' = start /\ total' = total
      /\ supported' = supported /\ done' = done /\ block' = block
      /\ esize' = esize /\ batch' = batch /\ cmd_idx' = cmd_idx
      /\ next' = next /\ junk' = junk /\ sram' = sram /\ rx' = rx
      /\ file' = file /\ flash' = flash /\ wel' = wel /\ busy' = busy
      /\ crashes' = crashes
  BY DEF spi0_init, request, helper, buffer, chip
<1>2. /\ TypeOK /\ Control /\ Marker /\ Fits /\ OneCommand /\ Groups /\ Chip
      /\ Place /\ Order /\ Written /\ Readings /\ NeighboursKept
  BY DEF IInv
<1>3. TypeOK'
  BY <1>1, <1>2, Sizes DEF spi0_init, TypeOK
<1>4. Control'
  BY <1>1, <1>2, Sizes DEF spi0_init, TypeOK, Control, Aligned
<1>5. Marker'
  BY <1>1, <1>2, Sizes DEF spi0_init, TypeOK, Control, Marker
<1>6. Fits'
  BY <1>1, <1>2, Sizes DEF spi0_init, TypeOK, Control, Fits
<1>7. OneCommand'
  BY <1>1, <1>2, Sizes DEF spi0_init, TypeOK, Control, OneCommand
<1>8. Groups'
  BY <1>1, <1>2, Sizes DEF spi0_init, TypeOK, Control, Groups
<1>9. Chip'
  BY <1>1, <1>2, Sizes DEF spi0_init, TypeOK, Control, Chip, Running
<1>10. Place'
  BY <1>1, <1>2, Sizes DEF spi0_init, TypeOK, Control, Place, Aligned
<1>11. Order'
  BY <1>1, <1>2, Sizes DEF spi0_init, TypeOK, Control, Order, OrderOf
<1>12. Written'
  <2> SUFFICES ASSUME Working' PROVE Written'
    BY DEF Written
  <2>1. op = "write" /\ pc = "init" /\ done = 0 /\ Aligned /\ block = 0 /\ batch = <<>>
    BY <1>1, <1>2 DEF spi0_init, Working, Control, Place
  <2>2. start % esize = 0 /\ start + 0 = start
    BY <1>2, <2>1 DEF TypeOK, Place, Aligned
  <2>3. pc' # "fill" /\ Len(batch) = 0 /\ next = 0
    BY <1>2, <2>1 DEF spi0_init, Control
  <2>4. Todo' = 2 /\ Front' = start
    BY <1>1, <2>1, <2>2, <2>3 DEF Todo, At, Front
  <2> QED BY <1>1, <1>2, <2>1, <2>2, <2>3, <2>4 DEF Written, TypeOK
<1>13. Readings'
  BY <1>1, <1>2, Sizes DEF spi0_init, TypeOK, Control, Readings, Left, Offset, ChunkSize, Room
<1>14. NeighboursKept'
  BY <1>1, <1>2, Sizes DEF spi0_init, TypeOK, Control, NeighboursKept, InRange
<1> QED BY <1>3, <1>4, <1>5, <1>6, <1>7, <1>8, <1>9, <1>10, <1>11, <1>12, <1>13, <1>14 DEF IInv

LEMMA ReadId_step ==
    ASSUME IInv, ReadId
    PROVE  IInv'
<1>1. /\ op' = op /\ start' = start /\ total' = total
      /\ supported' = supported /\ done' = done /\ block' = block
      /\ esize' = esize /\ rx' = rx /\ file' = file /\ flash' = flash
      /\ wel' = wel /\ busy' = busy /\ crashes' = crashes
  BY DEF ReadId, request, helper, chip
<1>2. /\ TypeOK /\ Control /\ Marker /\ Fits /\ OneCommand /\ Groups /\ Chip
      /\ Place /\ Order /\ Written /\ Readings /\ NeighboursKept
  BY DEF IInv
<1>3. TypeOK'
  <2>1. batch' \in Seq(Command) /\ Len(batch') = 1 /\ batch'[1] = Cmd("id", 0, 4, 0)
    <3>1. Cmd("id", 0, 4, 0) \in Command
      BY <1>1, <1>2, Sizes DEF ReadId, TypeOK, Cmd, Command
    <3> QED BY <3>1 DEF ReadId
  <2> QED BY <1>1, <1>2, <2>1, Sizes DEF ReadId, TypeOK
<1>4. Control'
  BY <1>1, <1>2, Sizes DEF ReadId, TypeOK, Control, Aligned
<1>5. Marker'
  BY <1>1, <1>2, Sizes DEF ReadId, TypeOK, Control, Marker
<1>6. Fits'
  BY <1>1, <1>2, Sizes DEF ReadId, TypeOK, Fits, Left, ChunkSize, Smaller, Room
<1>7. OneCommand'
  <2>1. batch' \in Seq(Command) /\ Len(batch') = 1 /\ batch'[1] = Cmd("id", 0, 4, 0)
    <3>1. Cmd("id", 0, 4, 0) \in Command
      BY <1>1, <1>2, Sizes DEF ReadId, TypeOK, Cmd, Command
    <3> QED BY <3>1 DEF ReadId
  <2> QED BY <1>1, <1>2, <2>1, Sizes DEF ReadId, TypeOK, OneCommand, Cmd, Offset, ChunkSize, Smaller, Left, Room
<1>8. Groups'
  BY <1>1, <1>2, Sizes DEF ReadId, TypeOK, Control, Groups
<1>9. Chip'
  <2>1. batch' \in Seq(Command) /\ Len(batch') = 1 /\ batch'[1] = Cmd("id", 0, 4, 0)
    <3>1. Cmd("id", 0, 4, 0) \in Command
      BY <1>1, <1>2, Sizes DEF ReadId, TypeOK, Cmd, Command
    <3> QED BY <3>1 DEF ReadId
  <2>2. busy = {} /\ next = 0
    BY <1>2 DEF ReadId, Control, Chip, Running
  <2> QED BY <1>1, <1>2, <2>1, <2>2 DEF ReadId, Chip, Running, Cmd
<1>10. Place'
  BY <1>1, <1>2, Sizes DEF ReadId, TypeOK, Control, Place, Aligned
<1>11. Order'
  BY <1>1, <1>2, Sizes DEF ReadId, TypeOK, Control, Order, OrderOf
<1>12. Written'
  BY <1>1, <1>2, Sizes DEF ReadId, TypeOK, Control, Written, Working, Front, Todo, At, BlockFrom
<1>13. Readings'
  BY <1>1, <1>2, Sizes DEF ReadId, TypeOK, Control, Readings, Left, Offset, ChunkSize, Room
<1>14. NeighboursKept'
  BY <1>1, <1>2, Sizes DEF ReadId, TypeOK, Control, NeighboursKept, InRange
<1> QED BY <1>3, <1>4, <1>5, <1>6, <1>7, <1>8, <1>9, <1>10, <1>11, <1>12, <1>13, <1>14 DEF IInv

LEMMA ReadChunk_step ==
    ASSUME IInv, ReadChunk
    PROVE  IInv'
<1>1. /\ op' = op /\ start' = start /\ total' = total
      /\ supported' = supported /\ done' = done /\ block' = block
      /\ esize' = esize /\ rx' = rx /\ file' = file /\ flash' = flash
      /\ wel' = wel /\ busy' = busy /\ crashes' = crashes
  BY DEF ReadChunk, request, helper, chip
<1>2. /\ TypeOK /\ Control /\ Marker /\ Fits /\ OneCommand /\ Groups /\ Chip
      /\ Place /\ Order /\ Written /\ Readings /\ NeighboursKept
  BY DEF IInv
<1>3. TypeOK'
  <2>1. batch' \in Seq(Command) /\ Len(batch') = 1 /\ batch'[1] = Cmd("read", Offset, ChunkSize, 0)
    <3>1. Cmd("read", Offset, ChunkSize, 0) \in Command
      BY <1>1, <1>2, Sizes DEF ReadChunk, TypeOK, Cmd, Command, Offset, ChunkSize, Smaller, Left, Room
    <3> QED BY <3>1 DEF ReadChunk
  <2>2. cmd_idx' \in Nat /\ next' = 1 /\ pc' = "collect"
    BY <1>2, ChunkFits DEF ReadChunk
  <2>3. junk' \subseteq Int
    <3>1. junk \subseteq Int /\ ChunkSize \in Int
      BY <1>2, ChunkFits DEF TypeOK
    <3>2. junk' \subseteq 0..5 \cup junk
      BY DEF ReadChunk
    <3> QED BY <3>1, <3>2
  <2> QED BY <1>1, <1>2, <2>1, <2>2, <2>3 DEF TypeOK
<1>4. Control'
  BY <1>1, <1>2, Sizes DEF ReadChunk, TypeOK, Control, Aligned
<1>5. Marker'
  <2>1. ChunkSize \in Nat /\ ChunkSize + 8 <= MaxChunk /\ Room \in Nat /\ Room + 8 = MaxChunk
    BY <1>1, <1>2, Sizes DEF ReadChunk, TypeOK, ChunkSize, Smaller, Left, Room
  <2>2. ASSUME NEW x \in Int, x \in {MaxChunk - 2, MaxChunk - 1} \/ x \in {ChunkSize + 6, ChunkSize + 7}
        PROVE  x \notin junk'
    BY <1>2, <2>1, <2>2 DEF ReadChunk, Marker
  <2> QED BY <1>1, <1>2, <2>1, <2>2, Sizes DEF ReadChunk, TypeOK, Marker
<1>6. Fits'
  BY <1>1, <1>2, Sizes DEF ReadChunk, TypeOK, Fits, Left, ChunkSize, Smaller, Room
<1>7. OneCommand'
  <2>1. batch' \in Seq(Command) /\ Len(batch') = 1 /\ batch'[1] = Cmd("read", Offset, ChunkSize, 0)
    <3>1. Cmd("read", Offset, ChunkSize, 0) \in Command
      BY <1>1, <1>2, Sizes DEF ReadChunk, TypeOK, Cmd, Command, Offset, ChunkSize, Smaller, Left, Room
    <3> QED BY <3>1 DEF ReadChunk
  <2> QED BY <1>1, <1>2, <2>1, Sizes DEF ReadChunk, TypeOK, OneCommand, Cmd, Offset, ChunkSize, Smaller, Left, Room
<1>8. Groups'
  BY <1>1, <1>2, Sizes DEF ReadChunk, TypeOK, Control, Groups
<1>9. Chip'
  <2>1. batch' \in Seq(Command) /\ Len(batch') = 1 /\ batch'[1] = Cmd("read", Offset, ChunkSize, 0)
    <3>1. Cmd("read", Offset, ChunkSize, 0) \in Command
      BY <1>1, <1>2, Sizes DEF ReadChunk, TypeOK, Cmd, Command, Offset, ChunkSize, Smaller, Left, Room
    <3> QED BY <3>1 DEF ReadChunk
  <2>2. busy = {} /\ next = 0
    BY <1>2 DEF ReadChunk, Control, Chip, Running
  <2> QED BY <1>1, <1>2, <2>1, <2>2 DEF ReadChunk, Chip, Running, Cmd
<1>10. Place'
  BY <1>1, <1>2, Sizes DEF ReadChunk, TypeOK, Control, Place, Aligned
<1>11. Order'
  BY <1>1, <1>2, Sizes DEF ReadChunk, TypeOK, Control, Order, OrderOf
<1>12. Written'
  BY <1>1, <1>2, Sizes DEF ReadChunk, TypeOK, Control, Written, Working, Front, Todo, At, BlockFrom
<1>13. Readings'
  BY <1>1, <1>2, Sizes DEF ReadChunk, TypeOK, Control, Readings, Left, Offset, ChunkSize, Room
<1>14. NeighboursKept'
  BY <1>1, <1>2, Sizes DEF ReadChunk, TypeOK, Control, NeighboursKept, InRange
<1> QED BY <1>3, <1>4, <1>5, <1>6, <1>7, <1>8, <1>9, <1>10, <1>11, <1>12, <1>13, <1>14 DEF IInv

LEMMA Collect_step ==
    ASSUME IInv, Collect
    PROVE  IInv'
<1>1. /\ op' = op /\ start' = start /\ total' = total
      /\ supported' = supported /\ block' = block /\ esize' = esize
      /\ batch' = batch /\ cmd_idx' = cmd_idx /\ next' = next
      /\ junk' = junk /\ sram' = sram /\ rx' = rx /\ flash' = flash
      /\ wel' = wel /\ busy' = busy /\ crashes' = crashes
  BY DEF Collect, request, helper, buffer, chip
<1>2. /\ TypeOK /\ Control /\ Marker /\ Fits /\ OneCommand /\ Groups /\ Chip
      /\ Place /\ Order /\ Written /\ Readings /\ NeighboursKept
  BY DEF IInv
<1>3. TypeOK'
  <2>1. done' \in Nat /\ done' <= total
    BY <1>2, ChunkFits DEF Collect, TypeOK, Left
  <2> QED BY <1>1, <1>2, <2>1 DEF Collect, TypeOK
<1>4. Control'
  BY <1>1, <1>2, Sizes DEF Collect, TypeOK, Control, Aligned
<1>5. Marker'
  BY <1>1, <1>2, Sizes DEF Collect, TypeOK, Control, Marker
<1>6. Fits'
  BY <1>1, <1>2, Sizes DEF Collect, TypeOK, Control, Fits
<1>7. OneCommand'
  BY <1>1, <1>2, Sizes DEF Collect, TypeOK, Control, OneCommand
<1>8. Groups'
  BY <1>1, <1>2, Sizes DEF Collect, TypeOK, Control, Groups
<1>9. Chip'
  BY <1>1, <1>2, Sizes DEF Collect, TypeOK, Control, Chip, Running
<1>10. Place'
  BY <1>1, <1>2, Sizes DEF Collect, TypeOK, Control, Place, Aligned
<1>11. Order'
  BY <1>1, <1>2, Sizes DEF Collect, TypeOK, Control, Order, OrderOf
<1>12. Written'
  BY <1>1, <1>2, Sizes DEF Collect, TypeOK, Control, Written, Working, Front, Todo, At, BlockFrom
<1>13. Readings'
  <2> SUFFICES ASSUME op = "read" PROVE file' = OldFrom(start, done')
    BY <1>1, <1>2 DEF Collect, Readings
  <2>1. file = OldFrom(start, done) /\ rx = OldFrom(Offset, ChunkSize)
    BY <1>2 DEF Collect, Readings
  <2>2. /\ ChunkSize \in Nat /\ done \in Nat /\ start \in Nat
        /\ done' = done + ChunkSize /\ Offset = start + done
    BY <1>2, ChunkFits DEF Collect, TypeOK, Offset
  <2>3. file' = [k \in 0..(done + ChunkSize - 1) |->
                    IF k < done THEN file[k] ELSE rx[k - done]]
    BY DEF Collect
  <2> HIDE DEF Collect
  <2>4. ASSUME NEW k \in 0..(done + ChunkSize - 1)
        PROVE  (IF k < done THEN file[k] ELSE rx[k - done]) = Old(start + k)
    <3>1. CASE k < done
      BY <2>1, <2>2, <3>1 DEF OldFrom
    <3>2. CASE ~(k < done)
      <4>1. k - done \in 0..(ChunkSize - 1) /\ Offset + (k - done) = start + k
        BY <2>2, <3>2
      <4>2. rx[k - done] = Old(Offset + (k - done))
        BY <2>1, <4>1 DEF OldFrom
      <4> QED BY <3>2, <4>1, <4>2
    <3> QED BY <3>1, <3>2
  <2>5. file' = [k \in 0..(done + ChunkSize - 1) |-> Old(start + k)]
    BY <2>3, <2>4
  <2> QED BY <2>2, <2>5 DEF OldFrom
<1>14. NeighboursKept'
  BY <1>1, <1>2, Sizes DEF Collect, TypeOK, Control, NeighboursKept, InRange
<1> QED BY <1>3, <1>4, <1>5, <1>6, <1>7, <1>8, <1>9, <1>10, <1>11, <1>12, <1>13, <1>14 DEF IInv

LEMMA NextBlock_step ==
    ASSUME IInv, NextBlock
    PROVE  IInv'
<1>1. /\ op' = op /\ start' = start /\ total' = total
      /\ supported' = supported /\ done' = done /\ next' = next
      /\ junk' = junk /\ sram' = sram /\ rx' = rx /\ file' = file
      /\ flash' = flash /\ wel' = wel /\ busy' = busy
      /\ crashes' = crashes
  BY DEF NextBlock, request, chip
<1>2. /\ TypeOK /\ Control /\ Marker /\ Fits /\ OneCommand /\ Groups /\ Chip
      /\ Place /\ Order /\ Written /\ Readings /\ NeighboursKept
  BY DEF IInv
<1>3. TypeOK'
  <2>1. esize' \in {SmallErase, LargeErase} /\ esize' \in Nat
    BY Sizes DEF NextBlock
  <2>2. block' \in Nat
    BY <1>2, <2>1, ChunkFits DEF NextBlock, TypeOK, Smaller
  <2>3. Len(<<>>) = 0 /\ <<>> \in Seq(Command)
    OBVIOUS
  <2> QED BY <1>1, <1>2, <2>1, <2>2, <2>3 DEF NextBlock, TypeOK, Control
<1>4. Control'
  BY <1>1, <1>2, Sizes DEF NextBlock, TypeOK, Control, Aligned
<1>5. Marker'
  BY <1>1, <1>2, Sizes DEF NextBlock, TypeOK, Control, Marker
<1>6. Fits'
  BY <1>1, <1>2, Sizes DEF NextBlock, Fits
<1>7. OneCommand'
  BY <1>1, <1>2, Sizes DEF NextBlock, TypeOK, Control, OneCommand
<1>8. Groups'
  BY <1>1, <1>2, Sizes DEF NextBlock, TypeOK, Control, Groups
<1>9. Chip'
  BY <1>1, <1>2, Sizes DEF NextBlock, TypeOK, Control, Chip, Running
<1>10. Place'
  <2>1. /\ op = "write" /\ done = block /\ batch = <<>> /\ next = 0 /\ Aligned
        /\ done < total /\ (start + done) % SmallErase = 0
    BY <1>2 DEF NextBlock, Left, TypeOK, Control, Place
  <2>2. esize' # SmallErase => Large /\ esize' = LargeErase
    BY DEF NextBlock
  <2>3. block' = done + Smaller(esize', Left) /\ batch' = <<>> /\ pc' = "fill"
    BY DEF NextBlock
  <2>4. ((start + done) + SmallErase) % SmallErase = 0 /\ (start + done) % ProgramSize = 0
    <3>1. SmallErase % SmallErase = 0 /\ SmallErase \in Int /\ start + done \in Int
      BY <1>2, Sizes DEF TypeOK
    <3>2. ((start + done) + SmallErase) % SmallErase = 0
      BY <2>1, <3>1, Sizes, ModAdd
    <3>3. (start + done) % ProgramSize = 0
      BY <2>1, <3>1, Sizes, ModMod
    <3> QED BY <3>2, <3>3
  <2>5. ASSUME Large
        PROVE  /\ ((start + done) + LargeErase) % LargeErase = 0
               /\ ((start + done) + LargeErase) % SmallErase = 0
    <3>1. /\ LargeErase % LargeErase = 0 /\ LargeErase \in Int /\ start + done \in Int
          /\ (start + done) % LargeErase = 0
      BY <1>2, <2>5, Sizes DEF TypeOK, Large, Offset
    <3>2. ((start + done) + LargeErase) % LargeErase = 0
      BY <3>1, Sizes, ModAdd
    <3> QED BY <1>2, <3>2, Sizes, ModMod DEF TypeOK
  <2>6. CASE Large
    <3>1. esize' = LargeErase /\ block' = done + LargeErase /\ block' <= total
      BY <1>2, <2>1, <2>6, Sizes DEF NextBlock, Large, Smaller, Left, TypeOK
    <3>2. start + block' = (start + done) + LargeErase
      BY <1>2, <3>1, Sizes DEF TypeOK
    <3> QED BY <1>1, <1>2, <2>1, <2>3, <2>4, <2>5, <2>6, <3>1, <3>2, Sizes DEF Place, Aligned, TypeOK
  <2>7. CASE ~Large
    <3>1. esize' = SmallErase /\ block' <= total /\ block' <= done + SmallErase /\ block' > done
      BY <1>2, <2>1, <2>7, Sizes DEF NextBlock, Smaller, Left, TypeOK
    <3>2. block' = total \/ start + block' = (start + done) + SmallErase
      BY <1>2, <2>1, <2>7, Sizes DEF NextBlock, Smaller, Left, TypeOK
    <3> QED BY <1>1, <1>2, <2>1, <2>3, <2>4, <3>1, <3>2, Sizes DEF Place, Aligned, TypeOK
  <2> QED BY <2>6, <2>7
<1>11. Order'
  BY <1>1, <1>2, Sizes DEF NextBlock, TypeOK, Control, Order, OrderOf
<1>12. Written'
  <2>1. /\ op = "write" /\ done = block /\ batch = <<>> /\ next = 0 /\ Aligned
        /\ done < total /\ (start + done) % SmallErase = 0
    BY <1>2 DEF NextBlock, Left, TypeOK, Control, Place
  <2>2. esize' # SmallErase => Large /\ esize' = LargeErase
    BY DEF NextBlock
  <2>3. (start + done) % esize' = 0
    BY <2>1, <2>2 DEF Large, Offset
  <2>4. Len(batch) = 0 /\ Len(batch') = 0 /\ pc # "fill" /\ pc' = "fill"
    BY <2>1 DEF NextBlock
  <2>5. Front = start + done
    BY <2>1, <2>4 DEF Front, Todo, At
  <2>6. Todo' = 2 /\ Front' = start + done
    BY <1>1, <2>4 DEF Front, Todo, At
  <2>7. Working
    BY <2>1 DEF Working, NextBlock
  <2> QED BY <1>1, <1>2, <2>3, <2>4, <2>5, <2>6, <2>7 DEF Written
<1>13. Readings'
  BY <1>1, <1>2, Sizes DEF NextBlock, TypeOK, Control, Readings, Left, Offset, ChunkSize, Room
<1>14. NeighboursKept'
  BY <1>1, <1>2, Sizes DEF NextBlock, TypeOK, Control, NeighboursKept, InRange
<1> QED BY <1>3, <1>4, <1>5, <1>6, <1>7, <1>8, <1>9, <1>10, <1>11, <1>12, <1>13, <1>14 DEF IInv


\* The place of an index in its group of three.
LEMMA Thirds ==
    ASSUME NEW n \in Nat, n % 3 = 0, NEW i \in Nat
    PROVE  /\ (n + 3) % 3 = 0 /\ (n + 6) % 3 = 0
           /\ i \in (n + 1)..(n + 3) =>
                 /\ i % 3 = 1 <=> i = n + 1
                 /\ i % 3 = 2 <=> i = n + 2
                 /\ i % 3 = 0 <=> i = n + 3
           /\ i \in 1..n /\ i % 3 = 2 /\ ~(i + 3 <= n) => i + 3 = n + 2
<1>1. (n + 3) % 3 = 0 /\ (n + 6) % 3 = 0
  OBVIOUS
<1>2. (n + 1) % 3 = 1 /\ (n + 2) % 3 = 2
  OBVIOUS
<1>3. \A j \in (n + 1)..(n + 3) : j = n + 1 \/ j = n + 2 \/ j = n + 3
  OBVIOUS
<1>4. ASSUME i \in 1..n, i % 3 = 2, ~(i + 3 <= n) PROVE i + 3 = n + 2
  <2>1. i = n - 2 \/ i = n - 1 \/ i = n
    BY <1>4
  <2>2. (n - 2) % 3 = 1 /\ (n - 1) % 3 = 2
    OBVIOUS
  <2> QED BY <1>4, <2>1, <2>2
<1>5. ASSUME i \in (n + 1)..(n + 3)
      PROVE  /\ i % 3 = 1 <=> i = n + 1
             /\ i % 3 = 2 <=> i = n + 2
             /\ i % 3 = 0 <=> i = n + 3
  BY <1>1, <1>2, <1>3, <1>5
<1> QED BY <1>1, <1>4, <1>5

LEMMA ThreeMore ==
    ASSUME NEW S, NEW s \in Seq(S), NEW a \in S, NEW b \in S, NEW c \in S
    PROVE  LET t == s \o <<a, b, c>>
           IN  /\ t \in Seq(S) /\ Len(t) = Len(s) + 3
               /\ \A i \in 1..Len(s) : t[i] = s[i]
               /\ t[Len(s) + 1] = a /\ t[Len(s) + 2] = b /\ t[Len(s) + 3] = c
<1> DEFINE u == <<a, b, c>>
<1>1. u \in Seq(S) /\ Len(u) = 3 /\ u[1] = a /\ u[2] = b /\ u[3] = c
  OBVIOUS
<1> HIDE DEF u
<1>2. /\ s \o u \in Seq(S) /\ Len(s) \in Nat /\ Len(s \o u) = Len(s) + Len(u)
      /\ \A i \in 1..(Len(s) + Len(u)) :
            (s \o u)[i] = IF i <= Len(s) THEN s[i] ELSE u[i - Len(s)]
  <2>1. Len(s) \in Nat
    OBVIOUS
  <2> QED BY ONLY <1>1, <2>1, s \in Seq(S), ConcatProperties
<1>3. \A i \in 1..Len(s) : (s \o u)[i] = s[i]
  BY <1>1, <1>2
<1>4. \A i \in 1..3 : (s \o u)[Len(s) + i] = u[i]
  <2> SUFFICES ASSUME NEW i \in 1..3 PROVE (s \o u)[Len(s) + i] = u[i]
    OBVIOUS
  <2>1. /\ Len(s) + i \in 1..(Len(s) + Len(u)) /\ ~(Len(s) + i <= Len(s))
        /\ (Len(s) + i) - Len(s) = i
    BY <1>1, <1>2
  <2> QED BY <1>2, <2>1
<1> QED BY <1>1, <1>2, <1>3, <1>4 DEF u

\* What the inner loop adds to the buffer.
LEMMA PageAdded ==
    ASSUME IInv, FillPage
    PROVE  LET n == Len(batch)
               m == Len(batch')
           IN  /\ batch' \in Seq(Command) /\ n \in Nat /\ m \in Nat
               /\ \A i \in 1..n : batch'[i] = batch[i]
               /\ batch'[m - 2] = Wren /\ batch'[m] = Wait
               /\ batch'[m - 1] = Cmd("program", Offset, WriteCount, done)
               /\ ~EraseFirst => m = n + 3
               /\ EraseFirst =>
                     /\ m = n + 6 /\ batch'[n + 1] = Wren /\ batch'[n + 3] = Wait
                     /\ batch'[n + 2] = Cmd("erase", Offset, esize, 0)
<1>1. TypeOK
  BY DEF IInv
<1>2. batch \in Seq(Command) /\ Len(batch) \in Nat
  BY <1>1 DEF TypeOK
<1>3. Wren \in Command /\ Wait \in Command
  BY DEF Wren, Wait, Cmd, Command
<1>4. WriteCount \in Nat /\ Offset \in Nat /\ done \in Nat /\ esize \in Nat
  BY <1>1, Sizes, ESize DEF FillPage, WriteCount, Smaller, Offset, TypeOK
<1> DEFINE p == Cmd("program", Offset, WriteCount, done)
           e == Cmd("erase", Offset, esize, 0)
           mid == batch \o <<Wren, e, Wait>>
<1>5. p \in Command /\ e \in Command
  BY <1>4 DEF Cmd, Command
<1>6. batch' = (batch \o EraseCmds) \o <<Wren, p, Wait>>
  BY DEF FillPage, PageCmds
<1>7. CASE ~EraseFirst
  <2>1. batch' = batch \o <<Wren, p, Wait>>
    BY <1>2, <1>6, <1>7 DEF EraseCmds
  <2> HIDE DEF p
  <2> QED BY <1>2, <1>3, <1>5, <1>7, <2>1, ThreeMore DEF p
<1>8. CASE EraseFirst
  <2>1. batch' = mid \o <<Wren, p, Wait>>
    BY <1>6, <1>8 DEF EraseCmds
  <2> HIDE DEF p, e
  <2>2. /\ mid \in Seq(Command) /\ Len(mid) = Len(batch) + 3
        /\ \A i \in 1..Len(batch) : mid[i] = batch[i]
        /\ mid[Len(batch) + 1] = Wren /\ mid[Len(batch) + 2] = e
        /\ mid[Len(batch) + 3] = Wait
    BY <1>2, <1>3, <1>5, ThreeMore
  <2> HIDE DEF mid
  <2>3. /\ batch' \in Seq(Command) /\ Len(batch') = Len(mid) + 3
        /\ \A i \in 1..Len(mid) : batch'[i] = mid[i]
        /\ batch'[Len(mid) + 1] = Wren /\ batch'[Len(mid) + 2] = p
        /\ batch'[Len(mid) + 3] = Wait
    BY <1>3, <1>5, <2>1, <2>2, ThreeMore
  <2>4. /\ Len(batch') = Len(batch) + 6
        /\ \A i \in 1..(Len(batch) + 3) : batch'[i] = mid[i]
    BY <1>2, <2>2, <2>3
  <2>5. \A i \in 1..Len(batch) : batch'[i] = batch[i]
    BY <1>2, <2>2, <2>4
  <2>6. /\ batch'[Len(batch) + 1] = Wren /\ batch'[Len(batch) + 2] = e
        /\ batch'[Len(batch) + 3] = Wait
    BY <1>2, <2>2, <2>4
  <2>7. /\ batch'[Len(batch') - 2] = Wren /\ batch'[Len(batch') - 1] = p
        /\ batch'[Len(batch')] = Wait
    <3>1. Len(mid) + 1 = Len(batch') - 2 /\ Len(mid) + 2 = Len(batch') - 1
      BY <1>2, <2>2, <2>3
    <3> QED BY <1>2, <2>2, <2>3, <3>1
  <2> QED BY <1>2, <1>8, <2>3, <2>4, <2>5, <2>6, <2>7 DEF p, e
<1> QED BY <1>7, <1>8

LEMMA FillPage_step ==
    ASSUME IInv, FillPage
    PROVE  IInv'
<1>1. /\ pc' = pc /\ op' = op /\ start' = start /\ total' = total
      /\ supported' = supported /\ block' = block /\ esize' = esize
      /\ next' = next /\ junk' = junk /\ sram' = sram /\ rx' = rx
      /\ file' = file /\ flash' = flash /\ wel' = wel /\ busy' = busy
  BY DEF FillPage, request, helper, chip
<1>2. /\ TypeOK /\ Control /\ Marker /\ Fits /\ OneCommand /\ Groups /\ Chip
      /\ Place /\ Order /\ Written /\ Readings /\ NeighboursKept
  BY DEF IInv
<1>3. pc = "fill" /\ op = "write" /\ next = 0 /\ done < block /\ block <= total
  BY <1>2 DEF FillPage, Control, Place
<1>4. /\ WriteCount \in Nat /\ WriteCount > 0 /\ WriteCount <= ProgramSize
      /\ done' = done + WriteCount /\ done' <= block
      /\ done' < block => WriteCount = ProgramSize
  BY <1>2, <1>3, Sizes DEF FillPage, WriteCount, Smaller, TypeOK
<1> DEFINE n == Len(batch)
           m == Len(batch')
           c == Cmd("program", Offset, WriteCount, done)
           e == Cmd("erase", Offset, esize, 0)
<1>5. /\ batch' \in Seq(Command) /\ n \in Nat /\ m \in Nat
      /\ \A i \in 1..n : batch'[i] = batch[i]
      /\ batch'[m - 2] = Wren /\ batch'[m] = Wait /\ batch'[m - 1] = c
      /\ ~EraseFirst => m = n + 3
      /\ EraseFirst => /\ m = n + 6 /\ batch'[n + 1] = Wren
                       /\ batch'[n + 3] = Wait /\ batch'[n + 2] = e
  BY PageAdded
<1>6. /\ n % 3 = 0
      /\ \A i \in 1..n : /\ i % 3 = 1 => batch[i].cmd = "wren"
                         /\ i % 3 = 2 => batch[i].cmd \in {"erase", "program"}
                         /\ i % 3 = 0 => batch[i].cmd = "wait"
  BY <1>2, <1>3 DEF Groups
<1>7. /\ c.cmd = "program" /\ c.addr = Offset /\ c.size = WriteCount /\ c.data = done
      /\ e.cmd = "erase" /\ e.addr = Offset /\ e.size = esize
      /\ Wren.cmd = "wren" /\ Wait.cmd = "wait"
  BY DEF Cmd, Wren, Wait
<1>8. Offset = start + done /\ start \in Nat /\ done \in Nat /\ block \in Nat /\ esize \in Nat
  BY <1>2, ESize DEF Offset, TypeOK
<1> HIDE DEF c, e
<1>9. TypeOK'
  <2>1. cmd_idx' \in Nat
    BY <1>2, <1>4 DEF FillPage, TypeOK
  <2>2. next' \in 0..(m + 1)
    BY <1>1, <1>3, <1>5
  <2>3. done' \in Nat /\ done' <= total
    BY <1>2, <1>3, <1>4, <1>8 DEF TypeOK
  <2> QED BY <1>1, <1>2, <1>5, <2>1, <2>2, <2>3 DEF TypeOK
<1>10. Control'
  BY <1>1, <1>2, <1>3 DEF Control, Aligned
<1>11. Marker'
  BY <1>1, <1>2, <1>3 DEF Marker
<1>12. Fits'
  <2>1. MaxChunk - cmd_idx > ProgramSize + Slack
    BY DEF FillPage, RoomLeft
  <2>2. cmd_idx' = cmd_idx + (IF EraseFirst THEN 11 ELSE 0) + 11 + WriteCount
    BY DEF FillPage
  <2> QED BY <1>2, <1>4, <2>1, <2>2, Sizes DEF Fits, TypeOK
<1>13. OneCommand'
  BY <1>1, <1>3 DEF OneCommand
<1>14. Groups'
  <2>1. m % 3 = 0
    BY <1>5, <1>6, Thirds
  <2>2. ASSUME NEW i \in 1..m
        PROVE  /\ i % 3 = 1 => batch'[i].cmd = "wren"
               /\ i % 3 = 2 => batch'[i].cmd \in {"erase", "program"}
               /\ i % 3 = 0 => batch'[i].cmd = "wait"
    <3>1. CASE i \in 1..n
      BY <1>5, <1>6, <3>1
    <3>2. CASE i \in (m - 2)..m
      <4>1. (i = m - 2 /\ i % 3 = 1) \/ (i = m - 1 /\ i % 3 = 2) \/ (i = m /\ i % 3 = 0)
        BY <1>5, <2>1, <3>2
      <4> QED BY <1>5, <1>7, <4>1
    <3>3. CASE EraseFirst /\ i \in (n + 1)..(n + 3)
      <4>1. (i = n + 1 /\ i % 3 = 1) \/ (i = n + 2 /\ i % 3 = 2) \/ (i = n + 3 /\ i % 3 = 0)
        <5>1. i \in Nat /\ n \in Nat /\ n % 3 = 0 /\ i \in (n + 1)..(n + 3)
          BY <1>5, <1>6, <3>3
        <5>2. i = n + 1 \/ i = n + 2 \/ i = n + 3
          BY <5>1
        <5> HIDE DEF n
        <5> QED BY <5>1, <5>2, Thirds
      <4> QED BY <1>5, <1>7, <3>3, <4>1
    <3> QED BY <1>5, <3>1, <3>2, <3>3
  <2> QED BY <2>1, <2>2 DEF Groups
<1>15. Chip'
  BY <1>1, <1>2, <1>3 DEF Chip, Running
<1>16. Place'
  <2>1. (start + done) % ProgramSize = 0
    BY <1>2, <1>3 DEF Place
  <2>2. done' < block => (start + done') % ProgramSize = 0
    <3>1. ProgramSize % ProgramSize = 0 /\ start + done \in Int /\ ProgramSize \in Int
      BY <1>8, Sizes
    <3>2. ((start + done) + ProgramSize) % ProgramSize = 0
      BY <2>1, <3>1, Sizes, ModAdd
    <3>3. done' < block => start + done' = (start + done) + ProgramSize
      BY <1>4, <1>8, Sizes
    <3> QED BY <3>2, <3>3
  <2>3. block <= done + esize
    BY <1>2, <1>3 DEF Place
  <2>4. block <= done' + esize
    BY <1>4, <1>8, <2>3
  <2> QED BY <1>1, <1>2, <1>3, <1>4, <2>2, <2>4 DEF Place, Aligned
<1>17. Order'
  <2>1. /\ Offset >= start /\ Offset < start + block /\ start + block <= Offset + esize
        /\ Offset % ProgramSize = 0 /\ start + done' = Offset + WriteCount
    BY <1>2, <1>3, <1>4, <1>8 DEF Place
  <2>2. ASSUME NEW i \in 1..m, i % 3 = 2 PROVE OrderOf(i)'
    <3>1. CASE i \in 1..n
      <4>1. OrderOf(i) /\ batch'[i] = batch[i]
        BY <1>2, <1>3, <1>5, <2>2, <3>1 DEF Order
      <4>2. CASE i + 3 <= n
        <5>1. batch'[i + 3] = batch[i + 3] /\ i + 3 <= m
          BY <1>5, <3>1, <4>2
        <5> QED BY <1>1, <4>1, <4>2, <5>1 DEF OrderOf
      <4>3. CASE ~(i + 3 <= n)
        <5>1. i + 3 = n + 2
          <6>1. i \in Nat /\ n \in Nat
            BY <1>5, <3>1
          <6> QED BY <1>6, <2>2, <3>1, <4>3, <6>1, Thirds
        <5>2. batch[i].cmd = "program"
          BY <1>6, <2>2, <3>1, <4>1, <4>3 DEF OrderOf
        <5>3. /\ i + 3 <= m /\ batch'[i + 3].addr = Offset
              /\ batch'[i + 3].cmd = "program" => ~EraseFirst
          BY <1>5, <1>7, <5>1
        <5>4. start + done = batch[i].addr + batch[i].size
          BY <4>1, <4>3, <5>2 DEF OrderOf
        <5> QED BY <1>1, <1>8, <4>1, <5>2, <5>3, <5>4 DEF OrderOf, EraseFirst
      <4> QED BY <4>2, <4>3
    <3>2. CASE i = m - 1
      <4>1. batch'[i] = c /\ ~(i + 3 <= m)
        BY <1>5, <3>2
      <4> QED BY <1>1, <1>7, <1>8, <2>1, <4>1 DEF OrderOf, WriteCount
    <3>3. CASE EraseFirst /\ i = n + 2
      <4>1. batch'[i] = e /\ i + 3 <= m /\ batch'[i + 3] = c
        <5>1. i + 3 = m - 1
          BY <1>5, <3>3
        <5> QED BY <1>5, <3>3, <5>1
      <4> QED BY <1>1, <1>7, <1>8, <2>1, <3>3, <4>1 DEF OrderOf, EraseFirst
    <3>4. i \in 1..n \/ i = m - 1 \/ (EraseFirst /\ i = n + 2)
      <4>1. i \in Nat /\ (i \in 1..n \/ i \in (n + 1)..m)
        BY <1>5, <2>2
      <4>2. i \in (n + 1)..(n + 3) => i = n + 2
        BY <1>5, <1>6, <2>2, <4>1, Thirds
      <4>3. EraseFirst /\ i \in ((n + 3) + 1)..((n + 3) + 3) => i = (n + 3) + 2
        <5>1. n + 3 \in Nat /\ (n + 3) % 3 = 0
          BY <1>5, <1>6, Thirds
        <5> QED BY <2>2, <4>1, <5>1, Thirds
      <4> QED BY <1>5, <4>1, <4>2, <4>3
    <3> QED BY <3>1, <3>2, <3>3, <3>4
  <2> QED BY <2>2 DEF Order
<1>18. Written'
  <2>1. Working /\ Todo = 2 /\ Todo' = 2
    BY <1>1, <1>3 DEF Working, Todo, At
  <2>2. CASE n = 0
    <3>1. Front = start + done /\ m >= 2
      BY <1>5, <2>1, <2>2 DEF Front
    <3>2. batch'[2].addr = start + done /\ (EraseFirst => batch'[2].cmd = "erase")
      <4>1. CASE EraseFirst
        BY <1>5, <1>7, <1>8, <2>2, <4>1
      <4>2. CASE ~EraseFirst
        <5>1. m - 1 = 2
          BY <1>5, <2>2, <4>2
        <5> QED BY <1>5, <1>7, <1>8, <4>2, <5>1
      <4> QED BY <4>1, <4>2
    <3>3. Front' = start + done
      BY <2>1, <3>1, <3>2, <1>5 DEF Front
    <3>4. ~EraseFirst => \A a \in BlockFrom(start + done) : flash[a] = Erased
      BY <1>2, <1>8, <2>1, <2>2, <3>1 DEF Written, EraseFirst
    <3> QED BY <1>1, <1>2, <1>5, <2>1, <3>1, <3>2, <3>3, <3>4 DEF Written, BlockFrom
  <2>3. CASE n # 0
    <3>1. n >= 2 /\ m >= 2 /\ batch'[2] = batch[2]
      BY <1>5, <1>6, <2>3
    <3>2. Front' = Front
      BY <2>1, <3>1, <1>5 DEF Front
    <3> QED BY <1>1, <1>2, <1>5, <2>1, <3>1, <3>2 DEF Written, Working, BlockFrom
  <2> QED BY <2>2, <2>3
<1>19. Readings'
  BY <1>1, <1>3 DEF Readings
<1>20. NeighboursKept'
  BY <1>1, <1>2 DEF NeighboursKept, InRange
<1> QED BY <1>9, <1>10, <1>11, <1>12, <1>13, <1>14, <1>15, <1>16, <1>17, <1>18,
           <1>19, <1>20 DEF IInv

LEMMA Flush_step ==
    ASSUME IInv, Flush
    PROVE  IInv'
<1>1. /\ op' = op /\ start' = start /\ total' = total
      /\ supported' = supported /\ done' = done /\ block' = block
      /\ esize' = esize /\ batch' = batch /\ rx' = rx /\ file' = file
      /\ flash' = flash /\ wel' = wel /\ busy' = busy
      /\ crashes' = crashes
  BY DEF Flush, request, helper, chip
<1>2. /\ TypeOK /\ Control /\ Marker /\ Fits /\ OneCommand /\ Groups /\ Chip
      /\ Place /\ Order /\ Written /\ Readings /\ NeighboursKept
  BY DEF IInv
<1>3. TypeOK'
  BY <1>1, <1>2, Sizes DEF Flush, TypeOK
<1>4. Control'
  BY <1>1, <1>2, Sizes DEF Flush, TypeOK, Control, Aligned
<1>5. Marker'
  BY <1>1, <1>2, Sizes DEF Flush, TypeOK, Control, Marker
<1>6. Fits'
  BY <1>1, <1>2, Sizes DEF Flush, TypeOK, Control, Fits
<1>7. OneCommand'
  BY <1>1, <1>2, Sizes DEF Flush, TypeOK, Control, OneCommand
<1>8. Groups'
  BY <1>1, <1>2, Sizes DEF Flush, TypeOK, Control, Groups
<1>9. Chip'
  <2>1. busy = {} /\ next = 0 /\ op = "write"
    BY <1>2 DEF Flush, Control, Chip, Running
  <2>2. 1 <= Len(batch) => batch[1].cmd = "wren"
    BY <1>2, <2>1 DEF Groups, TypeOK
  <2> QED BY <1>1, <2>1, <2>2 DEF Flush, Chip, Running
<1>10. Place'
  BY <1>1, <1>2, Sizes DEF Flush, TypeOK, Control, Place, Aligned
<1>11. Order'
  BY <1>1, <1>2, Sizes DEF Flush, TypeOK, Control, Order, OrderOf
<1>12. Written'
  BY <1>1, <1>2, Sizes DEF Flush, TypeOK, Control, Written, Working, Front, Todo, At, BlockFrom
<1>13. Readings'
  BY <1>1, <1>2, Sizes DEF Flush, TypeOK, Control, Readings, Left, Offset, ChunkSize, Room
<1>14. NeighboursKept'
  BY <1>1, <1>2, Sizes DEF Flush, TypeOK, Control, NeighboursKept, InRange
<1> QED BY <1>3, <1>4, <1>5, <1>6, <1>7, <1>8, <1>9, <1>10, <1>11, <1>12, <1>13, <1>14 DEF IInv

LEMMA Flushed_step ==
    ASSUME IInv, Flushed
    PROVE  IInv'
<1>1. /\ op' = op /\ start' = start /\ total' = total
      /\ supported' = supported /\ done' = done /\ block' = block
      /\ esize' = esize /\ next' = next /\ junk' = junk /\ sram' = sram
      /\ rx' = rx /\ file' = file /\ flash' = flash /\ wel' = wel
      /\ busy' = busy /\ crashes' = crashes
  BY DEF Flushed, request, helper, chip
<1>2. /\ TypeOK /\ Control /\ Marker /\ Fits /\ OneCommand /\ Groups /\ Chip
      /\ Place /\ Order /\ Written /\ Readings /\ NeighboursKept
  BY DEF IInv
<1>3. TypeOK'
  BY <1>1, <1>2, Sizes DEF Flushed, TypeOK
<1>4. Control'
  BY <1>1, <1>2, Sizes DEF Flushed, TypeOK, Control, Aligned
<1>5. Marker'
  BY <1>1, <1>2, Sizes DEF Flushed, TypeOK, Control, Marker
<1>6. Fits'
  BY <1>1, <1>2, Sizes DEF Flushed, Fits
<1>7. OneCommand'
  BY <1>1, <1>2, Sizes DEF Flushed, TypeOK, Control, OneCommand
<1>8. Groups'
  BY <1>1, <1>2, Sizes DEF Flushed, TypeOK, Control, Groups
<1>9. Chip'
  BY <1>1, <1>2, Sizes DEF Flushed, TypeOK, Control, Chip, Running
<1>10. Place'
  BY <1>1, <1>2, Sizes DEF Flushed, TypeOK, Control, Place, Aligned
<1>11. Order'
  BY <1>1, <1>2, Sizes DEF Flushed, TypeOK, Control, Order, OrderOf
<1>12. Written'
  BY <1>1, <1>2, Sizes DEF Flushed, TypeOK, Control, Written, Working, Front, Todo, At, BlockFrom
<1>13. Readings'
  BY <1>1, <1>2, Sizes DEF Flushed, TypeOK, Control, Readings, Left, Offset, ChunkSize, Room
<1>14. NeighboursKept'
  BY <1>1, <1>2, Sizes DEF Flushed, TypeOK, Control, NeighboursKept, InRange
<1> QED BY <1>3, <1>4, <1>5, <1>6, <1>7, <1>8, <1>9, <1>10, <1>11, <1>12, <1>13, <1>14 DEF IInv

LEMMA LoopEnds_step ==
    ASSUME IInv, LoopEnds
    PROVE  IInv'
<1>1. /\ op' = op /\ start' = start /\ total' = total
      /\ supported' = supported /\ done' = done /\ block' = block
      /\ esize' = esize /\ batch' = batch /\ cmd_idx' = cmd_idx
      /\ next' = next /\ junk' = junk /\ sram' = sram /\ rx' = rx
      /\ file' = file /\ flash' = flash /\ wel' = wel /\ busy' = busy
      /\ crashes' = crashes
  BY DEF LoopEnds, request, helper, buffer, chip
<1>2. /\ TypeOK /\ Control /\ Marker /\ Fits /\ OneCommand /\ Groups /\ Chip
      /\ Place /\ Order /\ Written /\ Readings /\ NeighboursKept
  BY DEF IInv
<1>3. TypeOK'
  BY <1>1, <1>2, Sizes DEF LoopEnds, TypeOK
<1>4. Control'
  BY <1>1, <1>2, Sizes DEF LoopEnds, TypeOK, Control, Aligned, Left
<1>5. Marker'
  BY <1>1, <1>2, Sizes DEF LoopEnds, TypeOK, Control, Marker
<1>6. Fits'
  BY <1>1, <1>2, Sizes DEF LoopEnds, TypeOK, Control, Fits
<1>7. OneCommand'
  BY <1>1, <1>2, Sizes DEF LoopEnds, TypeOK, Control, OneCommand
<1>8. Groups'
  BY <1>1, <1>2, Sizes DEF LoopEnds, TypeOK, Control, Groups
<1>9. Chip'
  BY <1>1, <1>2, Sizes DEF LoopEnds, TypeOK, Control, Chip, Running
<1>10. Place'
  BY <1>1, <1>2, Sizes DEF LoopEnds, TypeOK, Control, Place, Aligned
<1>11. Order'
  BY <1>1, <1>2, Sizes DEF LoopEnds, TypeOK, Control, Order, OrderOf
<1>12. Written'
  BY <1>1, <1>2, Sizes DEF LoopEnds, TypeOK, Control, Written, Working, Front, Todo, At, BlockFrom
<1>13. Readings'
  BY <1>1, <1>2, Sizes DEF LoopEnds, TypeOK, Control, Readings, Left, Offset, ChunkSize, Room
<1>14. NeighboursKept'
  BY <1>1, <1>2, Sizes DEF LoopEnds, TypeOK, Control, NeighboursKept, InRange
<1> QED BY <1>3, <1>4, <1>5, <1>6, <1>7, <1>8, <1>9, <1>10, <1>11, <1>12, <1>13, <1>14 DEF IInv

LEMMA restore_sram_step ==
    ASSUME IInv, restore_sram
    PROVE  IInv'
<1>1. /\ op' = op /\ start' = start /\ total' = total
      /\ supported' = supported /\ done' = done /\ block' = block
      /\ esize' = esize /\ batch' = batch /\ cmd_idx' = cmd_idx
      /\ next' = next /\ rx' = rx /\ file' = file /\ flash' = flash
      /\ wel' = wel /\ busy' = busy /\ crashes' = crashes
  BY DEF restore_sram, request, helper, buffer, chip
<1>2. /\ TypeOK /\ Control /\ Marker /\ Fits /\ OneCommand /\ Groups /\ Chip
      /\ Place /\ Order /\ Written /\ Readings /\ NeighboursKept
  BY DEF IInv
<1>3. TypeOK'
  BY <1>1, <1>2, Sizes DEF restore_sram, TypeOK, Sram
<1>4. Control'
  BY <1>1, <1>2, Sizes DEF restore_sram, TypeOK, Control, Aligned
<1>5. Marker'
  BY <1>1, <1>2, Sizes DEF restore_sram, TypeOK, Control, Marker
<1>6. Fits'
  BY <1>1, <1>2, Sizes DEF restore_sram, TypeOK, Control, Fits
<1>7. OneCommand'
  BY <1>1, <1>2, Sizes DEF restore_sram, TypeOK, Control, OneCommand
<1>8. Groups'
  BY <1>1, <1>2, Sizes DEF restore_sram, TypeOK, Control, Groups
<1>9. Chip'
  BY <1>1, <1>2, Sizes DEF restore_sram, TypeOK, Control, Chip, Running
<1>10. Place'
  BY <1>1, <1>2, Sizes DEF restore_sram, TypeOK, Control, Place, Aligned
<1>11. Order'
  BY <1>1, <1>2, Sizes DEF restore_sram, TypeOK, Control, Order, OrderOf
<1>12. Written'
  BY <1>1, <1>2, Sizes DEF restore_sram, TypeOK, Control, Written, Working, Front, Todo, At, BlockFrom
<1>13. Readings'
  BY <1>1, <1>2, Sizes DEF restore_sram, TypeOK, Control, Readings, Left, Offset, ChunkSize, Room
<1>14. NeighboursKept'
  BY <1>1, <1>2, Sizes DEF restore_sram, TypeOK, Control, NeighboursKept, InRange
<1> QED BY <1>3, <1>4, <1>5, <1>6, <1>7, <1>8, <1>9, <1>10, <1>11, <1>12, <1>13, <1>14 DEF IInv


\* What an erase command of the buffer changes is in the user's range.
LEMMA EraseInRange ==
    ASSUME TypeOK, Place, NEW i \in 1..Len(batch), OrderOf(i), op = "write",
           batch[i].cmd = "erase", batch[i].addr \in Nat,
           NEW a \in InBlock(batch[i].addr, batch[i].size)
    PROVE  /\ InRange(a) /\ a >= batch[i].addr
           /\ a \div esize = batch[i].addr \div esize
<1> DEFINE s == batch[i].addr
<1>1. /\ s >= start /\ s < start + block /\ start + block <= s + esize
      /\ s % esize = 0 /\ batch[i].size = esize /\ s \in Int
  BY DEF OrderOf
<1>2. esize \in Nat /\ esize > 0
  BY ESize
<1>3. a \in Int /\ a \div esize = s \div esize
  BY <1>1 DEF InBlock, Flash
<1> HIDE DEF s
<1>4. s <= a /\ a < s + esize
  BY <1>1, <1>2, <1>3, BlockAt
<1>5. /\ start \in Nat /\ total \in Nat /\ block \in Nat /\ block <= total
      /\ esize # SmallErase => esize = LargeErase /\ (start + block) % LargeErase = 0
  BY DEF TypeOK, Place
<1>6. InRange(a)
  <2>1. CASE esize = SmallErase
    <3>1. s \in start..(start + total - 1)
      BY <1>1, <1>5
    <3> QED BY <1>3, <2>1, <3>1 DEF InRange
  <2>2. CASE esize # SmallErase
    <3>1. start + block = s + esize
      <4> SUFFICES ASSUME start + block < s + esize PROVE FALSE
        BY <1>1, <1>2, <1>5
      <4>1. s \div esize = (start + block) \div esize
        BY <1>1, <1>2, <1>5, BlockAt
      <4>2. (start + block) % esize = 0 /\ start + block \in Int
        BY <1>5, <2>2
      <4>3. start + block <= s
        BY <1>1, <1>2, <4>1, <4>2, BlockAt
      <4> QED BY <1>1, <1>5, <4>3
    <3>2. a \in start..(start + total - 1)
      BY <1>1, <1>2, <1>3, <1>4, <1>5, <3>1
    <3> QED BY <3>2 DEF InRange
  <2> QED BY <2>1, <2>2
<1> QED BY <1>3, <1>4, <1>6 DEF s

LEMMA ProgramInRange ==
    ASSUME TypeOK, Place, NEW i \in 1..Len(batch), OrderOf(i), op = "write",
           batch[i].cmd = "program", batch[i] \in Command
    PROVE  LET c == batch[i]
           IN  /\ c.addr \in Nat /\ c.size \in Nat /\ c.data \in Nat
               /\ c.addr % ProgramSize = 0 /\ c.addr = start + c.data
               /\ c.size > 0 /\ c.size <= ProgramSize
               /\ Programmed(c) = c.addr..(c.addr + c.size - 1)
               /\ Programmed(c) \subseteq Flash
               /\ \A a \in Programmed(c) : InRange(a)
<1> DEFINE c == batch[i]
<1>1. /\ c.addr \in Nat /\ c.size \in Nat /\ c.data \in Nat
      /\ c.addr % ProgramSize = 0 /\ c.addr = start + c.data
      /\ c.addr < start + block /\ c.size = Smaller(ProgramSize, block - c.data)
  BY DEF OrderOf, Command
<1> HIDE DEF c
<1>2. /\ start \in Nat /\ total \in Nat /\ block \in Nat /\ block <= total
      /\ start + total <= FlashSize
  BY DEF TypeOK, Place
<1>3. c.size > 0 /\ c.size <= ProgramSize /\ c.addr + c.size <= start + total
  <2>1. block - c.data \in Nat /\ block - c.data > 0
    BY <1>1, <1>2
  <2>2. c.size > 0 /\ c.size <= ProgramSize /\ c.size <= block - c.data
    BY <1>1, <2>1, Sizes DEF Smaller
  <2> QED BY <1>1, <1>2, <2>1, <2>2
<1>4. Programmed(c) = c.addr..(c.addr + c.size - 1)
  BY <1>1, <1>3, ProgrammedIs
<1>5. Programmed(c) \subseteq start..(start + total - 1)
  <2>1. c.addr >= start /\ c.addr \in Int /\ c.size \in Int
    BY <1>1, <1>2
  <2> QED BY <1>2, <1>3, <1>4, <2>1
<1>6. Programmed(c) \subseteq Flash
  <2>1. FlashSize \in Nat
    BY Sizes
  <2>2. start..(start + total - 1) \subseteq 0..(FlashSize - 1)
    BY <1>2, <2>1
  <2> QED BY <1>5, <2>2 DEF Flash
<1>7. \A a \in Programmed(c) : InRange(a)
  BY <1>5 DEF InRange
<1> QED BY <1>1, <1>3, <1>4, <1>6, <1>7 DEF c

\* The chip obeys every command that reaches it.
LEMMA Obeyed ==
    ASSUME IInv, Transfer
    PROVE  LET c == batch[next]
           IN  /\ busy = {} /\ next \in 1..Len(batch) /\ next' = next + 1
               /\ \/ /\ op # "write" /\ c.cmd \in {"read", "id"}
                     /\ next = 1 /\ Len(batch) = 1
                     /\ flash' = flash /\ wel' = wel /\ busy' = {}
                  \/ /\ op = "write" /\ c.cmd = "wren" /\ next % 3 = 1
                     /\ flash' = flash /\ wel' = TRUE /\ busy' = {}
                  \/ /\ op = "write" /\ c.cmd = "erase" /\ next % 3 = 2
                     /\ OrderOf(next)
                     /\ busy' = InBlock(c.addr, c.size) /\ wel' = wel
                     /\ flash' = [a \in Flash |-> IF a \in busy' THEN Erased ELSE flash[a]]
                  \/ /\ op = "write" /\ c.cmd = "program" /\ next % 3 = 2
                     /\ OrderOf(next)
                     /\ busy' = Programmed(c) /\ wel' = wel
                     /\ flash' = Program(c)
<1> DEFINE c == batch[next]
<1>1. /\ TypeOK /\ Control /\ OneCommand /\ Groups /\ Chip /\ Order
  BY DEF IInv
<1>2. next \in 1..Len(batch) /\ next' = next + 1 /\ c.cmd # "wait" /\ Obey(c)
  BY DEF Transfer, Running
<1>3. Len(batch) \in Nat
  BY <1>1 DEF TypeOK
<1>4. busy = {} /\ (c.cmd \in {"erase", "program"} => wel)
  BY <1>1, <1>2 DEF Chip, Running
<1> HIDE DEF c
<1>5. CASE op # "write"
  <2>1. Len(batch) <= 1 /\ (Len(batch) = 1 => batch[1].cmd \in {"read", "id"})
    BY <1>1, <1>5 DEF OneCommand
  <2>2. \A k \in Nat : k <= 1 /\ next \in 1..k => next = 1 /\ k = 1
    OBVIOUS
  <2>3. next = 1 /\ Len(batch) = 1
    BY <1>2, <1>3, <2>1, <2>2
  <2>4. c.cmd \in {"read", "id"}
    BY <2>1, <2>3 DEF c
  <2>5. flash' = flash /\ wel' = wel /\ busy' = {}
    BY <1>2, <1>4, <2>4 DEF Obey, chip
  <2> QED BY <1>2, <1>4, <1>5, <2>3, <2>4, <2>5 DEF c
<1>6. CASE op = "write"
  <2>1. /\ next % 3 = 1 => c.cmd = "wren"
        /\ next % 3 = 2 => c.cmd \in {"erase", "program"}
        /\ next % 3 = 0 => c.cmd = "wait"
        /\ next % 3 \in 0..2
    BY <1>1, <1>2, <1>3, <1>6 DEF Groups, c
  <2>2. CASE next % 3 = 1
    <3>1. flash' = flash /\ wel' = TRUE /\ busy' = {}
      BY <1>2, <1>4, <2>1, <2>2 DEF Obey, chip
    <3> QED BY <1>2, <1>4, <1>6, <2>1, <2>2, <3>1 DEF c
  <2>3. CASE next % 3 = 2
    <3>1. OrderOf(next)
      BY <1>1, <1>2, <1>6, <2>3 DEF Order
    <3>2. CASE c.cmd = "erase"
      <4>1. /\ busy' = InBlock(c.addr, c.size) /\ wel' = wel
            /\ flash' = [a \in Flash |-> IF a \in busy' THEN Erased ELSE flash[a]]
        BY <1>2, <1>4, <3>2 DEF Obey, chip
      <4> QED BY <1>2, <1>4, <1>6, <2>3, <3>1, <3>2, <4>1 DEF c
    <3>3. CASE c.cmd = "program"
      <4>1. busy' = Programmed(c) /\ wel' = wel /\ flash' = Program(c)
        BY <1>2, <1>4, <3>3 DEF Obey, chip
      <4> QED BY <1>2, <1>4, <1>6, <2>3, <3>1, <3>3, <4>1 DEF c
    <3> QED BY <2>1, <2>3, <3>2, <3>3
  <2>4. next % 3 = 1 \/ next % 3 = 2
    <3>1. next % 3 \in 0..2 /\ next % 3 # 0
      BY <1>2, <2>1
    <3> QED BY <3>1
  <2> QED BY <2>2, <2>3, <2>4
<1> QED BY <1>5, <1>6

\* What a command of a read or of info leaves alone, and what it receives.
LEMMA TransferRead ==
    ASSUME IInv, Transfer, op # "write"
    PROVE  Chip' /\ Written' /\ Readings' /\ NeighboursKept' /\ Marker' /\ TypeOK'
<1>1. /\ pc' = pc /\ op' = op /\ start' = start /\ total' = total
      /\ supported' = supported /\ done' = done /\ block' = block
      /\ esize' = esize /\ batch' = batch /\ cmd_idx' = cmd_idx
      /\ sram' = sram /\ file' = file
  BY DEF Transfer, request, helper, buffer
<1>2. /\ TypeOK /\ Control /\ Marker /\ OneCommand /\ Readings /\ NeighboursKept
  BY DEF IInv
<1>3. /\ busy = {} /\ next = 1 /\ next' = 2 /\ Len(batch) = 1
      /\ batch[1].cmd \in {"read", "id"} /\ batch[1] \in Command
      /\ flash' = flash /\ wel' = wel /\ busy' = {}
  <2>1. /\ busy = {} /\ next = 1 /\ next' = next + 1 /\ Len(batch) = 1
        /\ batch[next].cmd \in {"read", "id"}
        /\ flash' = flash /\ wel' = wel /\ busy' = {}
    BY Obeyed
  <2>2. batch \in Seq(Command)
    BY <1>2 DEF TypeOK
  <2>3. batch[1] \in Command
    BY <2>1, <2>2
  <2> QED BY <2>1, <2>3
<1>4. /\ junk' = IF batch[1].cmd = "read" THEN junk \cup 2..(batch[1].size + 5) ELSE junk
      /\ rx' = IF batch[1].cmd = "read"
                 THEN [k \in 0..(batch[1].size - 1) |-> flash[batch[1].addr + k]]
                 ELSE Nothing
  BY <1>3 DEF Transfer
<1>5. /\ batch[1].cmd = "read" => cmd_idx = batch[1].size + 8
      /\ batch[1].size + 8 <= MaxChunk /\ batch[1].size \in Nat
  BY <1>2, <1>3 DEF OneCommand, TypeOK, Command
<1>6. Chip'
  BY <1>1, <1>3 DEF Chip, Running
<1>7. Written'
  BY <1>1 DEF Written, Working
<1>8. NeighboursKept'
  BY <1>1, <1>2, <1>3 DEF NeighboursKept, InRange
<1>9. Marker'
  <2>1. ASSUME NEW x \in Int, x >= batch[1].size + 6 \/ batch[1].cmd # "read"
        PROVE  x \in junk' => x \in junk
    BY <1>4, <1>5, <2>1
  <2>2. {cmd_idx - 2, cmd_idx - 1} \cap junk' = {}
    <3>1. {cmd_idx - 2, cmd_idx - 1} \cap junk = {} /\ cmd_idx \in Nat
      BY <1>2, <1>3 DEF Marker, TypeOK
    <3> QED BY <1>5, <2>1, <3>1
  <2>3. op = "read" /\ pc \in {"init", "loop", "collect"} =>
          {MaxChunk - 2, MaxChunk - 1} \cap junk' = {}
    BY <1>2, <1>5, <2>1, Sizes DEF Marker
  <2> QED BY <1>1, <1>2, <2>2, <2>3 DEF Marker
<1>10. TypeOK'
  <2>1. junk' \subseteq Int
    <3>1. junk' \subseteq junk \cup 2..(batch[1].size + 5)
      BY <1>4
    <3>2. junk \subseteq Int
      BY <1>2 DEF TypeOK
    <3> QED BY <1>5, <3>1, <3>2
  <2>2. next' \in 0..(Len(batch) + 1)
    BY <1>3
  <2> QED BY <1>1, <1>2, <1>3, <2>1, <2>2 DEF TypeOK
<1>11. Readings'
  <2> SUFFICES ASSUME op = "read", pc = "collect" PROVE rx' = OldFrom(Offset, ChunkSize)
    BY <1>1, <1>2 DEF Readings, Left, Offset, ChunkSize
  <2>1. /\ batch[1].cmd = "read" /\ batch[1].addr = Offset /\ batch[1].size = ChunkSize
    BY <1>2 DEF Readings, Cmd
  <2>2. rx' = [k \in 0..(ChunkSize - 1) |-> flash[Offset + k]]
    BY <1>4, <2>1
  <2>3. ASSUME NEW k \in 0..(ChunkSize - 1) PROVE flash[Offset + k] = Old(Offset + k)
    <3>1. Offset + k \in Flash
      BY <1>2, ChunkFits, Sizes DEF Flash, TypeOK, Offset, Left
    <3> QED BY <1>2, <3>1 DEF NeighboursKept
  <2> QED BY <2>2, <2>3 DEF OldFrom
<1> QED BY <1>6, <1>7, <1>8, <1>9, <1>10, <1>11

\* What a command of a write does to the chip.
LEMMA TransferWrite ==
    ASSUME IInv, Transfer, op = "write"
    PROVE  Chip' /\ Written' /\ Readings' /\ NeighboursKept' /\ Marker' /\ TypeOK'
<1> DEFINE c == batch[next]
           n == Len(batch)
<1>1. /\ pc' = pc /\ op' = op /\ start' = start /\ total' = total
      /\ supported' = supported /\ done' = done /\ block' = block
      /\ esize' = esize /\ batch' = batch /\ cmd_idx' = cmd_idx
      /\ sram' = sram /\ file' = file
  BY DEF Transfer, request, helper, buffer
<1>2. /\ TypeOK /\ Control /\ Marker /\ Groups /\ Place /\ Order /\ Written
      /\ NeighboursKept
  BY DEF IInv
<1>3. /\ busy = {} /\ next \in 1..n /\ next' = next + 1 /\ n \in Nat
      /\ c \in Command /\ c.addr \in Nat
  <2>1. batch \in Seq(Command) /\ n \in Nat
    BY <1>2 DEF TypeOK
  <2>2. busy = {} /\ next \in 1..n /\ next' = next + 1
    BY Obeyed
  <2>3. c \in Command
    BY <2>1, <2>2
  <2> QED BY <2>1, <2>2, <2>3 DEF Command
<1>4. \/ /\ c.cmd = "wren" /\ next % 3 = 1
         /\ flash' = flash /\ wel' = TRUE /\ busy' = {}
      \/ /\ c.cmd = "erase" /\ next % 3 = 2 /\ OrderOf(next)
         /\ busy' = InBlock(c.addr, c.size) /\ wel' = wel
         /\ flash' = [a \in Flash |-> IF a \in busy' THEN Erased ELSE flash[a]]
      \/ /\ c.cmd = "program" /\ next % 3 = 2 /\ OrderOf(next)
         /\ busy' = Programmed(c) /\ wel' = wel /\ flash' = Program(c)
  BY Obeyed
<1>5. junk' = junk
  BY <1>4 DEF Transfer
<1>6. Marker'
  BY <1>1, <1>2, <1>3, <1>5 DEF Marker, TypeOK
<1>7. Readings'
  BY <1>1 DEF Readings
<1>8. ASSUME c.cmd = "program", OrderOf(next)
      PROVE  /\ c.addr \in Nat /\ c.size \in Nat /\ c.data \in Nat
             /\ c.addr % ProgramSize = 0 /\ c.addr = start + c.data
             /\ c.size > 0 /\ c.size <= ProgramSize
             /\ Programmed(c) = c.addr..(c.addr + c.size - 1)
             /\ Programmed(c) \subseteq Flash
             /\ \A a \in Programmed(c) : InRange(a)
  BY <1>2, <1>3, <1>8, ProgramInRange
<1>9. ASSUME c.cmd = "erase", OrderOf(next), NEW a \in InBlock(c.addr, c.size)
      PROVE  InRange(a) /\ a >= c.addr /\ a \div esize = c.addr \div esize
  BY <1>2, <1>3, <1>9, EraseInRange
<1> HIDE DEF c
<1>10. NeighboursKept'
  <2> SUFFICES ASSUME NEW a \in Flash, ~InRange(a) PROVE flash'[a] = Old(a) /\ a \notin busy'
    BY <1>1 DEF NeighboursKept, InRange
  <2>1. flash[a] = Old(a)
    BY <1>2 DEF NeighboursKept
  <2>2. CASE c.cmd = "wren"
    BY <1>4, <2>1, <2>2
  <2>3. CASE c.cmd = "erase"
    BY <1>4, <1>9, <2>1, <2>3
  <2>4. CASE c.cmd = "program"
    BY <1>4, <1>8, <2>1, <2>4, ProgramIs
  <2> QED BY <1>4, <2>2, <2>3, <2>4
<1>11. TypeOK'
  <2>1. busy' \subseteq Flash /\ wel' \in BOOLEAN
    BY <1>2, <1>4, <1>8 DEF InBlock, TypeOK
  <2>2. next' \in 0..(n + 1)
    BY <1>3
  <2> QED BY <1>1, <1>2, <1>5, <2>1, <2>2 DEF TypeOK
<1>12. Chip'
  <2>1. next + 1 \in 1..n =>
          /\ (next + 1) % 3 = 2 => batch[next + 1].cmd \in {"erase", "program"}
          /\ (next + 1) % 3 = 0 => batch[next + 1].cmd = "wait"
    BY <1>2 DEF Groups
  <2>2. next % 3 = 1 => (next + 1) % 3 = 2
    BY <1>3
  <2>3. next % 3 = 2 => (next + 1) % 3 = 0 /\ next + 1 <= n
    <3>1. n % 3 = 0
      BY <1>2 DEF Groups
    <3> QED BY <1>3, <3>1
  <2>4. CASE c.cmd = "wren"
    BY <1>1, <1>3, <1>4, <2>4 DEF Chip, Running
  <2>5. CASE c.cmd \in {"erase", "program"}
    <3>1. next + 1 \in 1..n /\ batch[next + 1].cmd = "wait"
      BY <1>3, <1>4, <2>1, <2>3, <2>5
    <3> QED BY <1>1, <1>3, <3>1 DEF Chip, Running
  <2> QED BY <1>4, <2>4, <2>5
<1>13. Written'
  <2> SUFFICES ASSUME Working PROVE Written'
    BY <1>1 DEF Written, Working
  <2>1. At = next /\ At' = next + 1
    BY <1>1, <1>2, <1>3 DEF At, Control, Working
  <2>2. CASE c.cmd = "wren"
    <3>1. Todo' = Todo
      <4>1. next % 3 = 1 => (next + 1) \div 3 = next \div 3
        BY <1>3
      <4> QED BY <1>4, <2>1, <2>2, <4>1 DEF Todo
    <3> QED BY <1>1, <1>2, <1>4, <2>2, <3>1 DEF Written, Front, BlockFrom
  <2>3. ASSUME next % 3 = 2
        PROVE  Todo = next /\ Todo' = next + 3 /\ Front = c.addr /\ next + 1 <= n
    <3>1. 3 * (next \div 3) + 2 = next /\ 3 * ((next + 1) \div 3) + 2 = next + 3
      BY <1>3, <2>3
    <3>2. Todo = next /\ Todo' = next + 3
      BY <2>1, <3>1 DEF Todo
    <3>3. n % 3 = 0
      BY <1>2 DEF Groups
    <3> QED BY <1>3, <2>3, <3>2, <3>3 DEF Front, c
  <2>4. CASE c.cmd = "erase"
    <3>1. /\ Todo = next /\ Todo' = next + 3 /\ Front = c.addr /\ next % 3 = 2
      BY <1>4, <2>3, <2>4
    <3>2. /\ next + 3 <= n /\ batch[next + 3].addr = c.addr
          /\ c.size = esize /\ c.addr >= start /\ c.addr < start + block
      BY <1>4, <2>4 DEF OrderOf, c
    <3>3. Front' = c.addr
      BY <1>1, <1>3, <3>1, <3>2 DEF Front
    <3>4. ASSUME NEW a \in start..(c.addr - 1) PROVE flash'[a] = New(a - start)
      <4>1. a \in Flash
        BY <1>2, <1>3, <3>2, Sizes DEF Flash, TypeOK, Place
      <4>2. a \notin busy'
        BY <1>2, <1>3, <1>4, <1>9, <2>4, <4>1 DEF TypeOK
      <4>3. flash[a] = New(a - start)
        BY <1>2, <3>1 DEF Written
      <4> QED BY <1>4, <2>4, <4>1, <4>2, <4>3
    <3>5. ASSUME NEW a \in BlockFrom(c.addr) PROVE flash'[a] = Erased
      <4>1. a \in Flash /\ a \in busy'
        BY <1>4, <2>4, <3>2 DEF InBlock, BlockFrom
      <4> QED BY <1>4, <2>4, <4>1
    <3>6. BlockFrom(Front)' = BlockFrom(c.addr)
      BY <1>1, <3>3 DEF BlockFrom
    <3> QED BY <1>1, <3>3, <3>4, <3>5, <3>6 DEF Written
  <2>5. CASE c.cmd = "program"
    <3> DEFINE z == c.addr + c.size
    <3>1. /\ Todo = next /\ Todo' = next + 3 /\ Front = c.addr /\ next % 3 = 2
      BY <1>4, <2>3, <2>5
    <3>2. /\ c.addr \in Nat /\ c.size \in Nat /\ c.data \in Nat
          /\ c.addr % ProgramSize = 0 /\ c.addr = start + c.data
          /\ c.size > 0 /\ c.size <= ProgramSize
          /\ Programmed(c) = c.addr..(z - 1) /\ Programmed(c) \subseteq Flash
      BY <1>4, <1>8, <2>5
    <3>3. flash' = Program(c) /\ OrderOf(next)
      BY <1>4, <2>5
    <3>4. /\ IF next + 3 <= n
               THEN /\ batch[next + 3].addr = z
                    /\ batch[next + 3].cmd = "program" => z % esize # 0
               ELSE start + done = z
      BY <2>5, <3>3 DEF OrderOf, c
    <3>5. Front' = z
      BY <1>1, <1>3, <3>1, <3>4 DEF Front
    <3>6. \A a \in BlockFrom(c.addr) : flash[a] = Erased
      BY <1>2, <1>3, <2>5, <3>1 DEF Written, c
    <3>7. /\ esize \in Nat /\ esize > 0 /\ esize % ProgramSize = 0
          /\ start \in Nat /\ total \in Nat /\ start + total <= FlashSize
      BY <1>2, ESize DEF TypeOK
    <3>8. /\ \A i \in 0..(c.size - 1) : (c.addr + i) \div esize = c.addr \div esize
          /\ (c.addr + c.size) % esize # 0 => (c.addr + c.size) \div esize = c.addr \div esize
      <4>1. c.addr \in Int /\ c.size \in Int
        BY <3>2
      <4>2. ProgramSize \in Nat /\ ProgramSize > 0
        BY Sizes
      <4>3. esize \in Nat /\ esize > 0 /\ esize % ProgramSize = 0
        BY <3>7
      <4>4. c.addr % ProgramSize = 0 /\ c.size <= ProgramSize /\ c.size > 0
        BY <3>2
      <4>5. /\ \A i \in 0..(c.size - 1) : (c.addr + i) \div esize = c.addr \div esize
            /\ c.size > 0 /\ (c.addr + c.size) % esize # 0 =>
                  (c.addr + c.size) \div esize = c.addr \div esize
        BY <4>1, <4>2, <4>3, <4>4, PageInBlock
      <4> QED BY <4>4, <4>5
    <3>9. ASSUME NEW a \in c.addr..(z - 1) PROVE a \in BlockFrom(c.addr)
      <4>1. a \in Flash /\ a >= c.addr
        BY <3>2
      <4>2. (a - c.addr) \in 0..(c.size - 1) /\ c.addr + (a - c.addr) = a
        BY <3>2
      <4>3. a \div esize = c.addr \div esize
        BY <3>8, <4>2
      <4> QED BY <4>1, <4>3 DEF BlockFrom
    <3>10. ASSUME NEW a \in start..(z - 1) PROVE flash'[a] = New(a - start)
      <4>1. CASE a >= c.addr
        <5>1. a \in c.addr..(z - 1)
          BY <3>2, <3>7, <4>1
        <5>2. a \in Programmed(c) /\ a \in Flash /\ flash[a] = Erased
          BY <3>2, <3>6, <3>9, <5>1
        <5>3. Program(c)[a] = New(c.data + (a - c.addr))
          BY <3>2, <5>2, ProgramIs
        <5>4. c.data + (a - c.addr) = a - start
          BY <3>2, <3>7
        <5> QED BY <3>3, <5>3, <5>4
      <4>2. CASE a < c.addr
        <5>1. a \in start..(c.addr - 1)
          BY <3>2, <3>7, <4>2
        <5>2. flash[a] = New(a - start)
          BY <1>2, <3>1, <5>1 DEF Written
        <5>3. a \in Flash /\ a \notin Programmed(c)
          <6>1. c.addr \in Flash
            BY <3>2
          <6> QED BY <3>2, <3>7, <4>2, <6>1, Sizes DEF Flash
        <5> QED BY <3>2, <3>3, <5>2, <5>3, ProgramIs
      <4> QED BY <3>2, <3>7, <4>1, <4>2
    <3>11. ASSUME z % esize # 0, NEW a \in BlockFrom(z) PROVE flash'[a] = Erased
      <4>1. z \div esize = c.addr \div esize
        BY <3>8, <3>11
      <4>2. a \in Flash /\ a >= z /\ a \in Int /\ a \in BlockFrom(c.addr)
        BY <3>2, <4>1 DEF BlockFrom, Flash
      <4>3. a \notin Programmed(c)
        BY <3>2, <4>2
      <4> QED BY <3>2, <3>3, <3>6, <4>2, <4>3, ProgramIs
    <3>12. BlockFrom(Front)' = BlockFrom(z)
      BY <1>1, <3>5 DEF BlockFrom
    <3>13. CASE next + 3 <= n /\ batch[next + 3].cmd = "erase"
      BY <1>1, <3>1, <3>5, <3>10, <3>13 DEF Written
    <3>14. CASE ~(next + 3 <= n) /\ z % esize = 0
      BY <1>1, <1>3, <3>1, <3>4, <3>5, <3>10, <3>14 DEF Written
    <3>15. CASE z % esize # 0
      BY <1>1, <3>5, <3>10, <3>11, <3>12, <3>15 DEF Written
    <3>16. next + 3 <= n => batch[next + 3].cmd \in {"erase", "program"}
      <4>1. (next + 3) % 3 = 2 /\ next + 3 \in Nat
        BY <1>3, <3>1
      <4> QED BY <1>2, <1>3, <4>1 DEF Groups
    <3> QED BY <3>4, <3>13, <3>14, <3>15, <3>16
  <2> QED BY <1>4, <2>2, <2>4, <2>5
<1> QED BY <1>6, <1>7, <1>10, <1>11, <1>12, <1>13

LEMMA Transfer_step ==
    ASSUME IInv, Transfer
    PROVE  IInv'
<1>1. /\ pc' = pc /\ op' = op /\ start' = start /\ total' = total
      /\ supported' = supported /\ done' = done /\ block' = block
      /\ esize' = esize /\ batch' = batch /\ cmd_idx' = cmd_idx
  BY DEF Transfer, request, helper, buffer
<1>2. /\ TypeOK /\ Control /\ Fits /\ OneCommand /\ Groups /\ Place /\ Order
  BY DEF IInv
<1>3. Chip' /\ Written' /\ Readings' /\ NeighboursKept' /\ Marker' /\ TypeOK'
  BY TransferRead, TransferWrite
<1>4. next # 0
  BY Obeyed
<1>5. Control'
  BY <1>1, <1>2, <1>4 DEF Control, Aligned
<1>6. Fits' /\ OneCommand' /\ Groups'
  BY <1>1, <1>2 DEF Fits, OneCommand, Groups
<1>7. Place' /\ Order'
  BY <1>1, <1>2 DEF Place, Order, OrderOf, Aligned
<1> QED BY <1>3, <1>5, <1>6, <1>7 DEF IInv

LEMMA WaitForCompletion_step ==
    ASSUME IInv, WaitForCompletion
    PROVE  IInv'
<1>1. /\ pc' = pc /\ op' = op /\ start' = start /\ total' = total
      /\ supported' = supported /\ done' = done /\ block' = block
      /\ esize' = esize /\ batch' = batch /\ cmd_idx' = cmd_idx
      /\ junk' = junk /\ sram' = sram /\ rx' = rx /\ file' = file
      /\ flash' = flash /\ wel' = wel /\ busy' = busy
      /\ crashes' = crashes
  BY DEF WaitForCompletion, request, helper, buffer, chip
<1>2. /\ TypeOK /\ Control /\ Marker /\ Fits /\ OneCommand /\ Groups /\ Chip
      /\ Place /\ Order /\ Written /\ Readings /\ NeighboursKept
  BY DEF IInv
<1>3. TypeOK'
  <2>1. next \in 1..Len(batch) /\ batch[next].cmd = "wait" /\ next' = next + 1
    BY DEF WaitForCompletion, Running
  <2> QED BY <1>1, <1>2, <2>1 DEF TypeOK
<1>4. Control'
  <2>1. next \in 1..Len(batch) /\ batch[next].cmd = "wait" /\ next' = next + 1
    BY DEF WaitForCompletion, Running
  <2> QED BY <1>1, <1>2, <2>1 DEF Control, Aligned, TypeOK
<1>5. Marker'
  <2>1. next \in 1..Len(batch) /\ batch[next].cmd = "wait" /\ next' = next + 1
    BY DEF WaitForCompletion, Running
  <2> QED BY <1>1, <1>2, <2>1 DEF Marker, TypeOK
<1>6. Fits'
  BY <1>1, <1>2, Sizes DEF WaitForCompletion, TypeOK, Control, Fits
<1>7. OneCommand'
  BY <1>1, <1>2, Sizes DEF WaitForCompletion, TypeOK, Control, OneCommand
<1>8. Groups'
  BY <1>1, <1>2, Sizes DEF WaitForCompletion, TypeOK, Control, Groups
<1>9. Chip'
  <2>1. next \in 1..Len(batch) /\ batch[next].cmd = "wait" /\ next' = next + 1
    BY DEF WaitForCompletion, Running
  <2>2. op = "write" /\ next % 3 = 0 /\ Len(batch) \in Nat
    <3>1. Len(batch) \in Nat
      BY <1>2 DEF TypeOK
    <3>2. op = "write"
      <4> SUFFICES ASSUME op # "write" PROVE FALSE
        OBVIOUS
      <4>1. Len(batch) <= 1 /\ (Len(batch) = 1 => batch[1].cmd \in {"read", "id"})
        BY <1>2 DEF OneCommand
      <4>2. \A k \in Nat : k <= 1 /\ next \in 1..k => next = 1 /\ k = 1
        OBVIOUS
      <4>3. next = 1 /\ Len(batch) = 1
        BY <2>1, <3>1, <4>1, <4>2
      <4> QED BY <2>1, <4>1, <4>3
    <3>3. next % 3 \in 0..2 /\ next % 3 # 1 /\ next % 3 # 2
      BY <1>2, <2>1, <3>1, <3>2 DEF Groups
    <3> QED BY <3>1, <3>2, <3>3
  <2>3. busy = {}
    BY DEF WaitForCompletion, StillBusy
  <2>4. next + 1 <= Len(batch) => batch[next + 1].cmd = "wren"
    BY <1>2, <2>1, <2>2 DEF Groups
  <2> QED BY <1>1, <2>1, <2>3, <2>4 DEF Chip, Running
<1>10. Place'
  BY <1>1, <1>2, Sizes DEF WaitForCompletion, TypeOK, Control, Place, Aligned
<1>11. Order'
  BY <1>1, <1>2, Sizes DEF WaitForCompletion, TypeOK, Control, Order, OrderOf
<1>12. Written'
  <2>1. next \in 1..Len(batch) /\ batch[next].cmd = "wait" /\ next' = next + 1
    BY DEF WaitForCompletion, Running
  <2>2. op = "write" /\ next % 3 = 0 /\ Len(batch) \in Nat
    <3>1. Len(batch) \in Nat
      BY <1>2 DEF TypeOK
    <3>2. op = "write"
      <4> SUFFICES ASSUME op # "write" PROVE FALSE
        OBVIOUS
      <4>1. Len(batch) <= 1 /\ (Len(batch) = 1 => batch[1].cmd \in {"read", "id"})
        BY <1>2 DEF OneCommand
      <4>2. \A k \in Nat : k <= 1 /\ next \in 1..k => next = 1 /\ k = 1
        OBVIOUS
      <4>3. next = 1 /\ Len(batch) = 1
        BY <2>1, <3>1, <4>1, <4>2
      <4> QED BY <2>1, <4>1, <4>3
    <3>3. next % 3 \in 0..2 /\ next % 3 # 1 /\ next % 3 # 2
      BY <1>2, <2>1, <3>1, <3>2 DEF Groups
    <3> QED BY <3>1, <3>2, <3>3
  <2>3. Todo' = Todo
    <3>1. At = next /\ At' = next + 1
      BY <1>1, <1>2, <2>1 DEF At, Control
    <3> QED BY <2>1, <2>2, <3>1 DEF Todo
  <2> QED BY <1>1, <1>2, <2>3 DEF Written, Working, Front, BlockFrom
<1>13. Readings'
  <2>1. next \in 1..Len(batch) /\ batch[next].cmd = "wait" /\ next' = next + 1
    BY DEF WaitForCompletion, Running
  <2>2. op = "write" /\ next % 3 = 0 /\ Len(batch) \in Nat
    <3>1. Len(batch) \in Nat
      BY <1>2 DEF TypeOK
    <3>2. op = "write"
      <4> SUFFICES ASSUME op # "write" PROVE FALSE
        OBVIOUS
      <4>1. Len(batch) <= 1 /\ (Len(batch) = 1 => batch[1].cmd \in {"read", "id"})
        BY <1>2 DEF OneCommand
      <4>2. \A k \in Nat : k <= 1 /\ next \in 1..k => next = 1 /\ k = 1
        OBVIOUS
      <4>3. next = 1 /\ Len(batch) = 1
        BY <2>1, <3>1, <4>1, <4>2
      <4> QED BY <2>1, <4>1, <4>3
    <3>3. next % 3 \in 0..2 /\ next % 3 # 1 /\ next % 3 # 2
      BY <1>2, <2>1, <3>1, <3>2 DEF Groups
    <3> QED BY <3>1, <3>2, <3>3
  <2> QED BY <1>1, <2>2 DEF Readings
<1>14. NeighboursKept'
  BY <1>1, <1>2, Sizes DEF WaitForCompletion, TypeOK, Control, NeighboursKept, InRange
<1> QED BY <1>3, <1>4, <1>5, <1>6, <1>7, <1>8, <1>9, <1>10, <1>11, <1>12, <1>13, <1>14 DEF IInv

LEMMA EndOfData_step ==
    ASSUME IInv, EndOfData
    PROVE  IInv'
<1>1. /\ pc' = pc /\ op' = op /\ start' = start /\ total' = total
      /\ supported' = supported /\ done' = done /\ block' = block
      /\ esize' = esize /\ batch' = batch /\ cmd_idx' = cmd_idx
      /\ junk' = junk /\ sram' = sram /\ rx' = rx /\ file' = file
      /\ flash' = flash /\ wel' = wel /\ busy' = busy
      /\ crashes' = crashes
  BY DEF EndOfData, request, helper, buffer, chip
<1>2. /\ TypeOK /\ Control /\ Marker /\ Fits /\ OneCommand /\ Groups /\ Chip
      /\ Place /\ Order /\ Written /\ Readings /\ NeighboursKept
  BY DEF IInv
<1>3. TypeOK'
  <2>1. next = Len(batch) + 1 /\ next' = 0 /\ Len(batch) \in Nat
    BY <1>2 DEF EndOfData, TypeOK, Marker
  <2> QED BY <1>1, <1>2, <2>1 DEF TypeOK
<1>4. Control'
  BY <1>1, <1>2, Sizes DEF EndOfData, TypeOK, Control, Aligned
<1>5. Marker'
  BY <1>1, <1>2, Sizes DEF EndOfData, TypeOK, Control, Marker
<1>6. Fits'
  BY <1>1, <1>2, Sizes DEF EndOfData, TypeOK, Control, Fits
<1>7. OneCommand'
  BY <1>1, <1>2, Sizes DEF EndOfData, TypeOK, Control, OneCommand
<1>8. Groups'
  BY <1>1, <1>2, Sizes DEF EndOfData, TypeOK, Control, Groups
<1>9. Chip'
  BY <1>1, <1>2, Sizes DEF EndOfData, TypeOK, Control, Chip, Running
<1>10. Place'
  BY <1>1, <1>2, Sizes DEF EndOfData, TypeOK, Control, Place, Aligned
<1>11. Order'
  BY <1>1, <1>2, Sizes DEF EndOfData, TypeOK, Control, Order, OrderOf
<1>12. Written'
  <2>1. next = Len(batch) + 1 /\ next' = 0 /\ Len(batch) \in Nat
    BY <1>2 DEF EndOfData, TypeOK, Marker
  <2>2. Todo' = Todo
    BY <1>1, <1>2, <2>1 DEF Todo, At, Control
  <2> QED BY <1>1, <1>2, <2>2 DEF Written, Working, Front, BlockFrom
<1>13. Readings'
  <2>1. next = Len(batch) + 1 /\ next' = 0 /\ Len(batch) \in Nat
    BY <1>2 DEF EndOfData, TypeOK, Marker
  <2>2. op = "read" /\ pc = "collect" => Len(batch) = 1
    BY <1>2 DEF Readings
  <2>3. op = "read" /\ pc = "collect" => rx = OldFrom(Offset, ChunkSize)
    BY <1>2, <2>1, <2>2 DEF Readings
  <2> QED BY <1>1, <1>2, <2>3 DEF Readings, Left, Offset, ChunkSize
<1>14. NeighboursKept'
  BY <1>1, <1>2, Sizes DEF EndOfData, TypeOK, Control, NeighboursKept, InRange
<1> QED BY <1>3, <1>4, <1>5, <1>6, <1>7, <1>8, <1>9, <1>10, <1>11, <1>12, <1>13, <1>14 DEF IInv

LEMMA Complete_step ==
    ASSUME IInv, Complete
    PROVE  IInv'
<1>1. /\ pc' = pc /\ op' = op /\ start' = start /\ total' = total
      /\ supported' = supported /\ done' = done /\ block' = block
      /\ esize' = esize /\ batch' = batch /\ cmd_idx' = cmd_idx
      /\ next' = next /\ junk' = junk /\ sram' = sram /\ rx' = rx
      /\ file' = file /\ flash' = flash /\ crashes' = crashes
  BY DEF Complete, request, helper, buffer
<1>2. /\ TypeOK /\ Control /\ Marker /\ Fits /\ OneCommand /\ Groups /\ Chip
      /\ Place /\ Order /\ Written /\ Readings /\ NeighboursKept
  BY DEF IInv
<1>3. TypeOK'
  BY <1>1, <1>2, Sizes DEF Complete, TypeOK
<1>4. Control'
  BY <1>1, <1>2, Sizes DEF Complete, TypeOK, Control, Aligned
<1>5. Marker'
  BY <1>1, <1>2, Sizes DEF Complete, TypeOK, Control, Marker
<1>6. Fits'
  BY <1>1, <1>2, Sizes DEF Complete, TypeOK, Control, Fits
<1>7. OneCommand'
  BY <1>1, <1>2, Sizes DEF Complete, TypeOK, Control, OneCommand
<1>8. Groups'
  BY <1>1, <1>2, Sizes DEF Complete, TypeOK, Control, Groups
<1>9. Chip'
  BY <1>1, <1>2, Sizes DEF Complete, TypeOK, Control, Chip, Running
<1>10. Place'
  BY <1>1, <1>2, Sizes DEF Complete, TypeOK, Control, Place, Aligned
<1>11. Order'
  BY <1>1, <1>2, Sizes DEF Complete, TypeOK, Control, Order, OrderOf
<1>12. Written'
  BY <1>1, <1>2, Sizes DEF Complete, TypeOK, Control, Written, Working, Front, Todo, At, BlockFrom
<1>13. Readings'
  BY <1>1, <1>2, Sizes DEF Complete, TypeOK, Control, Readings, Left, Offset, ChunkSize, Room
<1>14. NeighboursKept'
  BY <1>1, <1>2, Sizes DEF Complete, TypeOK, Control, NeighboursKept, InRange
<1> QED BY <1>3, <1>4, <1>5, <1>6, <1>7, <1>8, <1>9, <1>10, <1>11, <1>12, <1>13, <1>14 DEF IInv

LEMMA UsbError_step ==
    ASSUME IInv, UsbError
    PROVE  IInv'
<1>1. /\ op' = op /\ start' = start /\ total' = total
      /\ supported' = supported /\ done' = done /\ block' = block
      /\ esize' = esize /\ batch' = batch /\ cmd_idx' = cmd_idx
      /\ next' = next /\ junk' = junk /\ sram' = sram /\ rx' = rx
      /\ file' = file /\ flash' = flash /\ wel' = wel /\ busy' = busy
  BY DEF UsbError, request, helper, buffer, chip
<1>2. /\ TypeOK /\ Control /\ Marker /\ Fits /\ OneCommand /\ Groups /\ Chip
      /\ Place /\ Order /\ Written /\ Readings /\ NeighboursKept
  BY DEF IInv
<1>3. TypeOK'
  BY <1>1, <1>2, Sizes DEF UsbError, TypeOK
<1>4. Control'
  BY <1>1, <1>2, Sizes DEF UsbError, TypeOK, Control, Aligned
<1>5. Marker'
  BY <1>1, <1>2, Sizes DEF UsbError, TypeOK, Control, Marker
<1>6. Fits'
  BY <1>1, <1>2, Sizes DEF UsbError, TypeOK, Control, Fits
<1>7. OneCommand'
  BY <1>1, <1>2, Sizes DEF UsbError, TypeOK, Control, OneCommand
<1>8. Groups'
  BY <1>1, <1>2, Sizes DEF UsbError, TypeOK, Control, Groups
<1>9. Chip'
  BY <1>1, <1>2, Sizes DEF UsbError, TypeOK, Control, Chip, Running
<1>10. Place'
  BY <1>1, <1>2, Sizes DEF UsbError, TypeOK, Control, Place, Aligned
<1>11. Order'
  BY <1>1, <1>2, Sizes DEF UsbError, TypeOK, Control, Order, OrderOf
<1>12. Written'
  BY <1>1, <1>2, Sizes DEF UsbError, TypeOK, Control, Written, Working, Front, Todo, At, BlockFrom
<1>13. Readings'
  BY <1>1, <1>2, Sizes DEF UsbError, TypeOK, Control, Readings, Left, Offset, ChunkSize, Room
<1>14. NeighboursKept'
  BY <1>1, <1>2, Sizes DEF UsbError, TypeOK, Control, NeighboursKept, InRange
<1> QED BY <1>3, <1>4, <1>5, <1>6, <1>7, <1>8, <1>9, <1>10, <1>11, <1>12, <1>13, <1>14 DEF IInv

LEMMA PowerCycle_step ==
    ASSUME IInv, PowerCycle
    PROVE  IInv'
<1>1. /\ op' = op /\ start' = start /\ total' = total
      /\ supported' = supported
  BY DEF PowerCycle, request
<1>2. /\ TypeOK /\ Control /\ Marker /\ Fits /\ OneCommand /\ Groups /\ Chip
      /\ Place /\ Order /\ Written /\ Readings /\ NeighboursKept
  BY DEF IInv
<1>3. TypeOK'
  <2>1. batch' \in Seq(Command) /\ Len(batch') = 0 /\ next' = 0
    BY DEF PowerCycle
  <2>2. next' \in 0..(Len(batch') + 1)
    BY <2>1
  <2>3. junk' \subseteq Int
    BY DEF PowerCycle, Sram
  <2>4. /\ pc' = "idle" /\ done' = 0 /\ block' = 0 /\ esize' = SmallErase
        /\ cmd_idx' = 0 /\ wel' = FALSE /\ busy' = {}
    BY DEF PowerCycle
  <2>5. done' \in Nat /\ done' <= total' /\ block' \in Nat /\ cmd_idx' \in Nat
    BY <1>1, <1>2, <2>4 DEF TypeOK
  <2>6. wel' \in BOOLEAN /\ busy' \subseteq Flash
    BY <2>4
  <2> QED BY <1>1, <1>2, <2>1, <2>2, <2>3, <2>4, <2>5, <2>6 DEF TypeOK
<1>4. Control'
  BY <1>1, <1>2, Sizes DEF PowerCycle, TypeOK, Control, Aligned
<1>5. Marker'
  BY <1>1, <1>2, Sizes DEF PowerCycle, TypeOK, Control, Marker
<1>6. Fits'
  BY <1>1, <1>2, Sizes DEF PowerCycle, TypeOK, Control, Fits
<1>7. OneCommand'
  BY <1>1, <1>2, Sizes DEF PowerCycle, TypeOK, Control, OneCommand
<1>8. Groups'
  BY <1>1, <1>2, Sizes DEF PowerCycle, TypeOK, Control, Groups
<1>9. Chip'
  BY <1>1, <1>2, Sizes DEF PowerCycle, TypeOK, Control, Chip, Running
<1>10. Place'
  BY <1>1, <1>2, Sizes DEF PowerCycle, TypeOK, Control, Place, Aligned
<1>11. Order'
  BY <1>1, <1>2, Sizes DEF PowerCycle, TypeOK, Control, Order, OrderOf
<1>12. Written'
  BY <1>1, <1>2, Sizes DEF PowerCycle, TypeOK, Control, Written, Working, Front, Todo, At, BlockFrom
<1>13. Readings'
  <2>1. file' = OldFrom(start, 0)
    BY DEF PowerCycle, OldFrom, Nothing
  <2> QED BY <1>1, <2>1 DEF PowerCycle, Readings
<1>14. NeighboursKept'
  BY <1>1, <1>2, Sizes DEF PowerCycle, TypeOK, Control, NeighboursKept, InRange
<1> QED BY <1>3, <1>4, <1>5, <1>6, <1>7, <1>8, <1>9, <1>10, <1>11, <1>12, <1>13, <1>14 DEF IInv


LEMMA InitIInv == Init => IInv
<1> SUFFICES ASSUME Init PROVE IInv
  OBVIOUS
<1>1. /\ pc = "idle" /\ op \in {"read", "write", "info"} /\ done = 0 /\ block = 0
      /\ esize = SmallErase /\ batch = <<>> /\ cmd_idx = 0 /\ next = 0
      /\ junk = Sram /\ sram = "user" /\ file = Nothing /\ wel = FALSE /\ busy = {}
      /\ flash = [a \in Flash |-> Old(a)]
  BY DEF Init
<1>2. start \in Nat /\ total \in Nat /\ start + total <= FlashSize
  <2>1. CASE op = "info"
    BY <2>1, Sizes DEF Init
  <2>2. CASE op # "info"
    <3>1. start \in Starts /\ total \in ReadLens \cup WriteLens
      BY <1>1, <2>2 DEF Init
    <3>2. start \in Nat /\ total \in Nat
      BY <3>1, SizesNest
    <3> QED BY <3>1, <3>2, SizesNest
  <2> QED BY <2>1, <2>2
<1>3. TypeOK
  <2>1. batch \in Seq(Command) /\ Len(batch) = 0
    BY <1>1
  <2>2. next \in 0..(Len(batch) + 1)
    BY <1>1, <2>1
  <2>3. junk \subseteq Int
    BY <1>1 DEF Sram
  <2>4. done \in Nat /\ done <= total /\ block \in Nat /\ cmd_idx \in Nat
    BY <1>1, <1>2
  <2>5. wel \in BOOLEAN /\ busy \subseteq Flash
    BY <1>1
  <2> QED BY <1>1, <1>2, <2>1, <2>2, <2>3, <2>4, <2>5 DEF TypeOK
<1>4. Control /\ Marker
  BY <1>1 DEF Control, Marker
<1>5. Fits /\ OneCommand /\ Groups /\ Chip /\ Order
  BY <1>1, Sizes DEF Fits, OneCommand, Groups, Chip, Running, Order
<1>6. Place
  BY <1>1, <1>2 DEF Place, Aligned
<1>7. Written
  BY <1>1 DEF Written, Working
<1>8. Readings
  <2>1. file = OldFrom(start, done)
    BY <1>1 DEF OldFrom, Nothing
  <2> QED BY <1>1, <2>1 DEF Readings
<1>9. NeighboursKept
  BY <1>1 DEF NeighboursKept
<1> QED BY <1>3, <1>4, <1>5, <1>6, <1>7, <1>8, <1>9 DEF IInv

LEMMA NextIInv == IInv /\ [Next]_vars => IInv'
<1> SUFFICES ASSUME IInv, [Next]_vars PROVE IInv'
  OBVIOUS
<1>1. CASE Tool
  BY <1>1, aw_fel_spiflash_read_step, aw_fel_spiflash_write_step,
     aw_fel_spiflash_info_step, spi0_init_step, ReadId_step, ReadChunk_step,
     Collect_step, NextBlock_step, FillPage_step, Flush_step, Flushed_step,
     LoopEnds_step, restore_sram_step DEF Tool
<1>2. CASE spi_batch_data_transfer
  BY <1>2, Transfer_step, WaitForCompletion_step, EndOfData_step
     DEF spi_batch_data_transfer
<1>3. CASE Complete \/ UsbError \/ PowerCycle
  BY <1>3, Complete_step, UsbError_step, PowerCycle_step
<1>4. CASE UNCHANGED vars
  <2>1. /\ pc' = pc /\ op' = op /\ start' = start /\ total' = total
        /\ supported' = supported /\ done' = done /\ block' = block
        /\ esize' = esize /\ batch' = batch /\ cmd_idx' = cmd_idx
        /\ next' = next /\ junk' = junk /\ sram' = sram /\ rx' = rx
        /\ file' = file /\ flash' = flash /\ wel' = wel /\ busy' = busy
    BY <1>4 DEF vars, request, helper, buffer, chip
  <2>2. /\ TypeOK' = TypeOK /\ Control' = Control /\ Marker' = Marker /\ Fits' = Fits
        /\ OneCommand' = OneCommand /\ Groups' = Groups /\ Chip' = Chip
    BY <2>1 DEF TypeOK, Control, Aligned, Marker, Fits, OneCommand, Groups, Chip, Running
  <2>3. Place' = Place /\ Order' = Order
    BY <2>1 DEF Place, Aligned, Order, OrderOf
  <2>4. Written' = Written
    BY <2>1 DEF Written, Working, Front, Todo, At, BlockFrom
  <2>5. Readings' = Readings /\ NeighboursKept' = NeighboursKept
    BY <2>1 DEF Readings, Left, Offset, ChunkSize, NeighboursKept, InRange
  <2> QED BY <2>2, <2>3, <2>4, <2>5 DEF IInv
<1> QED BY <1>1, <1>2, <1>3, <1>4 DEF Next

-----------------------------------------------------------------------------
(* The theorems                                                            *)

\* The chip, the buffer and the interpreter keep the invariant above in every
\* behaviour of fel-spiflash.c, USB errors and power cycles included.
THEOREM Invariance == Spec => []IInv
<1>1. Init => IInv
  BY InitIInv
<1>2. IInv /\ [Next]_vars => IInv'
  BY NextIInv
<1> QED BY <1>1, <1>2, PTL DEF Spec

\* aw_fel_spiflash_read() hands over what the chip held, for every chunk
\* size, offset and length.
THEOREM ReadsAreExact == Spec => []ReadExact
<1>1. IInv => ReadExact
  BY DEF IInv, ReadExact, Readings, Control, OldFrom
<1> QED BY <1>1, Invariance, PTL

\* After aw_fel_spiflash_write() has returned, the chip holds the file and the
\* rest of its last block is erased, for every page, block and buffer size and
\* whatever a try before it has left.
THEOREM WritesAreExact == Spec => []WriteExact
<1>1. IInv => WriteExact
  <2> SUFFICES ASSUME IInv, pc = "done", op = "write", NEW a \in Flash
               PROVE  /\ a \in start..(start + total - 1) => flash[a] = New(a - start)
                      /\ a >= start + total /\ total > 0
                           /\ a \div SmallErase = (start + total - 1) \div SmallErase
                             => flash[a] = Erased
    BY DEF WriteExact
  <2>1. TypeOK /\ Control /\ Place /\ Written
    BY DEF IInv
  <2>2. done = total /\ done = block /\ batch = <<>> /\ next = 0
    BY <2>1 DEF Control, Place
  <2>3. Working /\ Len(batch) = 0 /\ Todo = 2
    BY <2>2 DEF Working, Todo, At
  <2>4. Front = start + total
    BY <2>2, <2>3 DEF Front
  <2>5. a \in start..(start + total - 1) => flash[a] = New(a - start)
    <3>1. \A b \in start..(Front - 1) : flash[b] = New(b - start)
      BY <2>1, <2>3 DEF Written
    <3>2. Front - 1 = start + total - 1
      BY <2>1, <2>4 DEF TypeOK
    <3> QED BY <3>1, <3>2
  <2>6. ASSUME a >= start + total,
               a \div SmallErase = (start + total - 1) \div SmallErase
        PROVE  flash[a] = Erased
    <3>1. a \in Int /\ start + total \in Int
      BY <2>1 DEF TypeOK, Flash
    <3> DEFINE e == start + total
    <3>2. /\ e % SmallErase # 0 => (e - 1) \div SmallErase = e \div SmallErase
          /\ e % SmallErase = 0 =>
                \A b \in Int : b >= e => b \div SmallErase # (e - 1) \div SmallErase
      <4>1. e \in Int /\ SmallErase \in Nat /\ SmallErase > 0
        BY <3>1, Sizes
      <4> HIDE DEF e
      <4> QED BY <4>1, BeforeBlock
    <3>3. e - 1 = start + total - 1
      BY <2>1 DEF TypeOK
    <3>4. (start + total) % SmallErase # 0
      BY <2>6, <3>1, <3>2, <3>3
    <3>5. a \div SmallErase = (start + total) \div SmallErase
      BY <2>6, <3>2, <3>4, <3>3
    <3>6. esize = SmallErase
      <4>1. esize # SmallErase => esize = LargeErase /\ (start + total) % LargeErase = 0
        BY <2>1, <2>2 DEF TypeOK, Place
      <4>2. (start + total) % LargeErase = 0 => (start + total) % SmallErase = 0
        BY <3>1, Sizes, ModMod
      <4> QED BY <3>4, <4>1, <4>2
    <3>7. a \in BlockFrom(Front)
      BY <2>4, <2>6, <3>5, <3>6 DEF BlockFrom
    <3> QED BY <2>1, <2>2, <2>3, <3>4, <3>6, <3>7 DEF Written
  <2> QED BY <2>5, <2>6
<1> QED BY <1>1, Invariance, PTL

\* No byte outside the small blocks of the user's range is erased or
\* programmed by aw_fel_spiflash_write_helper(), not even by a large erase or
\* a failure in the middle, and none at all by a read.
THEOREM NeighboursAreKept == Spec => []NeighboursKept
<1>1. IInv => NeighboursKept
  BY DEF IInv
<1> QED BY <1>1, Invariance, PTL

\* No command of a batch reaches a busy chip, and every erase and program
\* command finds the write enable latch set.
THEOREM ChipIsReady == Spec => []ChipReady
<1>1. IInv => ChipReady
  BY DEF IInv, Chip, ChipReady
<1> QED BY <1>1, Invariance, PTL

\* cmd_idx never passes max_chunk_size: "program_size + 64" is room enough for
\* a page, an erase and the end marker.
THEOREM CommandsFit == Spec => []CmdFits
<1>1. IInv => CmdFits
  BY DEF IInv, Fits, CmdFits
<1> QED BY <1>1, Invariance, PTL

\* The interpreter never runs past the end marker, although a chunk of full
\* size is sent without one, and a command that got as far as the controller
\* gives the SRAM back.
THEOREM EndIsFound == Spec => []EndFound
<1>1. IInv => EndFound
  BY DEF IInv, TypeOK, Marker, EndFound
<1> QED BY <1>1, Invariance, PTL

=============================================================================
