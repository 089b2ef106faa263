-------------------------- MODULE NandPart_proofs --------------------------
(***************************************************************************)
(* sunxi-nand-part never leaves a good copy of a table that nobody asked   *)
(* for, and the table in effect switches once, for any tables, arguments,  *)
(* number of runs and number of faults.                                    *)
(*                                                                         *)
(* The properties speak of the device only.  What makes them inductive is  *)
(* what is known of the running tool: that the arguments were accepted     *)
(* (RunOk), that the block in memory holds the announced table (MemOk),    *)
(* what the backup says (BackupOk), and what the copies behind the loop    *)
(* hold (CopiesOk).                                                        *)
(***************************************************************************)
EXTENDS NandPart, TLAPS, WellFoundedInduction

Magics == Formats \cup {"junk"}
Crcs == {<<>>} \cup (Magics \X Nat \X Seq(Partitions))
MBRs == [magic : Magics, index : Nat, parts : Seq(Partitions), crc32 : Crcs]

TypeOK ==
    /\ dev \in [Formats -> [Copies -> MBRs]]
    /\ pc \in {"idle", "read", "backup", "ask", "write"}
    /\ run \in [format : Formats, force : BOOLEAN, start : Int,
                lens : Seq(U32), partoffset : {0, 1}]
    /\ mbr \in MBRs
    /\ copy \in 0..MBR_COPY_NUM
    /\ base \in Seq(Partitions)
    /\ known \subseteq (Seq(Partitions) \ {<<>>})

\* A table whose first partition lies behind the copies.
Starting(f, p) == p # <<>> /\ p[1].addrlo >= MinStart(f)

\* A table the tool has laid out.
LaidOut(f, p) == Contiguous(p) /\ \A k \in 1..Len(p) : ClearOfCopies(f, p, k)

RunOk ==
    pc # "idle" =>
        /\ run.lens # <<>>
        /\ run.partoffset = IF run.start = NoStart THEN 1 ELSE 0
        /\ run.force => run.start # NoStart
        /\ run.start # NoStart => run.start \in U32 /\ run.start >= MinStart(run.format)

MemOk ==
    /\ pc = "backup" =>
          /\ ~bypassed => base = mbr.parts
          /\ run.partoffset = 1 => Starting(run.format, mbr.parts)
    /\ pc \in {"ask", "write"} =>
          /\ mbr.parts = announced
          /\ Starting(run.format, announced) /\ LaidOut(run.format, announced)
    /\ pc = "write" => announced \in known

BackupOk ==
    pc \in {"ask", "write"} /\ "backup" \notin failed /\ ~bypassed =>
        backup = BackupOf(base)

\* The copies behind the loop hold the new table, or are bad if the block in
\* memory has lost its header.
CopiesOk ==
    pc = "write" /\ "device" \notin failed =>
        \A j \in Copies : j < copy =>
            IF mbr.magic = run.format
            THEN /\ get_mbr(run.format, dev[run.format][j])
                 /\ dev[run.format][j].parts = announced
            ELSE ~get_mbr(run.format, dev[run.format][j])

IInv == TypeOK /\ RunOk /\ MemOk /\ BackupOk /\ CopiesOk /\ GoodCopiesSound

-----------------------------------------------------------------------------
(* Induction: a set of natural numbers has a least element. *)

LEMMA LeastElement ==
    ASSUME NEW T \in SUBSET Nat, T # {}
    PROVE  \E n \in T : \A m \in T : n <= m
<1> DEFINE Less == {ss \in Nat \X Nat : ss[1] < ss[2]}
<1>1. IsWellFoundedOn(Less, Nat)
  <2>1. OpToRel(<, Nat) = Less
    BY DEF OpToRel
  <2> QED BY <2>1, NatLessThanWellFounded
<1> HIDE DEF Less
<1>2. PICK x \in T : \A y \in T : <<y, x>> \notin Less
  BY <1>1, WFMin
<1>3. ASSUME NEW y \in T PROVE x <= y
  <2>1. x \in Nat /\ y \in Nat
    OBVIOUS
  <2>2. ~(<<y, x>>[1] < <<y, x>>[2])
    BY <1>2, <2>1 DEF Less
  <2> QED BY <2>1, <2>2
<1> QED BY <1>3

-----------------------------------------------------------------------------
(* 32-bit addition. *)

LEMMA ModBelow ==
    ASSUME NEW n \in Nat \ {0}, NEW x \in Nat
    PROVE  x % n \in 0..(n - 1) /\ (x < n => x % n = x)
OBVIOUS

LEMMA Add32Is ==
    ASSUME NEW x \in U32, NEW y \in U32
    PROVE  /\ Add32(x, y) \in U32
           /\ x + y < WORD => Add32(x, y) = x + y
           /\ x \in Nat /\ y \in Nat
<1>1. x \in Nat /\ y \in Nat /\ x + y \in Nat /\ WORD \in Nat \ {0}
  BY WordAssumption DEF U32
<1> DEFINE z == x + y
<1>2. z \in Nat
  BY <1>1
<1> HIDE DEF z
<1>3. z % WORD \in 0..(WORD - 1) /\ (z < WORD => z % WORD = z)
  BY ONLY <1>1, <1>2, ModBelow
<1> QED BY <1>1, <1>3 DEF z, Add32, U32

LEMMA ZeroU32 == 0 \in U32
BY WordAssumption DEF U32

\* A table without gaps that starts behind the copies is clear of them as far
\* as the sector numbers do not wrap.
LEMMA ContiguousClear ==
    ASSUME NEW f \in Formats, NEW p \in Seq(Partitions), Contiguous(p), Starting(f, p)
    PROVE  LaidOut(f, p)
<1>1. /\ Len(p) \in Nat /\ Len(p) > 0 /\ DOMAIN p = 1..Len(p)
      /\ MinStart(f) \in Nat
  BY DEF Starting, MinStart, MBR_SIZE, MBR_COPY_NUM, Formats
<1>2. \A i \in 1..Len(p) : p[i].addrlo \in U32 /\ p[i].lenlo \in U32
  <2> TAKE i \in 1..Len(p)
  <2>1. p[i] \in Partitions
    BY <1>1
  <2> QED BY <2>1 DEF Partitions
<1> DEFINE T == {i \in 1..Len(p) : ~ClearOfCopies(f, p, i)}
<1>3. T = {}
  <2> SUFFICES ASSUME T # {} PROVE FALSE
    OBVIOUS
  <2>1. T \in SUBSET Nat
    BY <1>1
  <2>2. PICK m \in T : \A k \in T : m <= k
    BY <2>1, LeastElement
  <2>3. m \in 1..Len(p) /\ ~ClearOfCopies(f, p, m)
    OBVIOUS
  <2>4. m # 1
    BY <2>3 DEF ClearOfCopies, Starting
  <2>5. m \in 2..Len(p) /\ m - 1 \in 1..Len(p) /\ m - 1 \in 1..(m - 1)
    BY <1>1, <2>3, <2>4
  <2>6. m - 1 \notin T
    BY <1>1, <2>2, <2>3, <2>5
  <2>7. ClearOfCopies(f, p, m - 1)
    BY <2>5, <2>6
  <2>8. ~(p[m - 1].addrlo + p[m - 1].lenlo >= WORD)
    BY <2>3, <2>5 DEF ClearOfCopies
  <2>9. p[m - 1].addrlo >= MinStart(f)
    <3> SUFFICES ASSUME NEW j \in 1..((m - 1) - 1), p[j].addrlo + p[j].lenlo >= WORD
                 PROVE  FALSE
      BY <2>7 DEF ClearOfCopies
    <3>1. j \in 1..(m - 1)
      BY <2>5
    <3> QED BY <2>3, <3>1 DEF ClearOfCopies
  <2> DEFINE x == p[m - 1].addrlo
             y == p[m - 1].lenlo
  <2>10. x \in U32 /\ y \in U32
    BY <1>2, <2>5
  <2>11. p[m].addrlo = Add32(x, y)
    BY <2>5 DEF Contiguous
  <2>12. ~(p[m].addrlo >= MinStart(f))
    BY <2>3 DEF ClearOfCopies
  <2> HIDE DEF x, y
  <2>13. x \in Nat /\ y \in Nat /\ (x + y < WORD => Add32(x, y) = x + y)
    BY <2>10, Add32Is
  <2>14. ~(x + y >= WORD) /\ x >= MinStart(f)
    BY <2>8, <2>9 DEF x, y
  <2>15. p[m].addrlo = x + y
    BY <2>11, <2>13, <2>14, WordAssumption
  <2> QED BY <1>1, <2>12, <2>13, <2>14, <2>15
<1> QED BY <1>3 DEF LaidOut

-----------------------------------------------------------------------------
(* What Consecutive() computes: its recursive function exists, and is the  *)
(* only one that starts at start and adds a length at each place.          *)

At(f, start, lens) ==
    f = [i \in 1..Len(lens) |-> IF i = 1 THEN start ELSE Add32(f[i - 1], lens[i - 1])]

LEMMA AtExists ==
    ASSUME NEW start, NEW lens \in Seq(U32)
    PROVE  \E f : At(f, start, lens)
<1> DEFINE P(m) == \E f : f = [i \in 1..m |-> IF i = 1 THEN start
                                              ELSE Add32(f[i - 1], lens[i - 1])]
           T == {m \in Nat : ~P(m)}
<1>1. P(0)
  <2> DEFINE f == [i \in 1..0 |-> 0]
  <2>1. f = [i \in 1..0 |-> IF i = 1 THEN start ELSE Add32(f[i - 1], lens[i - 1])]
    OBVIOUS
  <2> QED BY <2>1
<1>2. ASSUME NEW m \in Nat, P(m) PROVE P(m + 1)
  <2>1. PICK f : f = [i \in 1..m |-> IF i = 1 THEN start
                                     ELSE Add32(f[i - 1], lens[i - 1])]
    BY <1>2
  <2> DEFINE g == [i \in 1..(m + 1) |-> IF i = 1 THEN start
                                        ELSE Add32(f[i - 1], lens[i - 1])]
  <2>2. \A i \in 1..m : g[i] = f[i]
    BY <2>1
  <2>3. \A i \in 1..(m + 1) : i # 1 => i - 1 \in 1..m
    OBVIOUS
  <2>4. g = [i \in 1..(m + 1) |-> IF i = 1 THEN start ELSE Add32(g[i - 1], lens[i - 1])]
    BY <2>2, <2>3
  <2> QED BY <2>4
<1> HIDE DEF P
<1>3. T = {}
  <2> SUFFICES ASSUME T # {} PROVE FALSE
    OBVIOUS
  <2>1. T \in SUBSET Nat
    OBVIOUS
  <2>2. PICK m \in T : \A k \in T : m <= k
    BY <2>1, LeastElement
  <2>3. m \in Nat /\ ~P(m)
    OBVIOUS
  <2>4. m # 0
    BY <1>1, <2>3
  <2>5. m - 1 \in Nat /\ m - 1 \notin T
    BY <2>2, <2>3, <2>4
  <2>6. P(m - 1)
    BY <2>5
  <2>7. P((m - 1) + 1)
    BY <1>2, <2>5, <2>6
  <2>8. (m - 1) + 1 = m
    BY <2>3
  <2> QED BY <2>3, <2>7, <2>8
<1>4. Len(lens) \in Nat
  OBVIOUS
<1>5. P(Len(lens))
  BY <1>3, <1>4
<1> QED BY <1>5 DEF At, P

LEMMA AtIs ==
    ASSUME NEW start \in U32, NEW lens \in Seq(U32), NEW f, At(f, start, lens)
    PROVE  /\ f \in [1..Len(lens) -> U32]
           /\ Len(lens) > 0 => f[1] = start
           /\ \A i \in 2..Len(lens) : f[i] = Add32(f[i - 1], lens[i - 1])
<1>1. \A i \in 1..Len(lens) :
         f[i] = IF i = 1 THEN start ELSE Add32(f[i - 1], lens[i - 1])
  BY DEF At
<1> DEFINE T == {i \in 1..Len(lens) : f[i] \notin U32}
<1>2. T = {}
  <2> SUFFICES ASSUME T # {} PROVE FALSE
    OBVIOUS
  <2>1. T \in SUBSET Nat
    OBVIOUS
  <2>2. PICK m \in T : \A k \in T : m <= k
    BY <2>1, LeastElement
  <2>3. m \in 1..Len(lens) /\ f[m] \notin U32
    OBVIOUS
  <2>4. m # 1
    BY <1>1, <2>3
  <2>5. m - 1 \in 1..Len(lens) /\ m - 1 \notin T
    BY <2>2, <2>3, <2>4
  <2>6. f[m - 1] \in U32 /\ lens[m - 1] \in U32
    BY <2>5
  <2>7. Add32(f[m - 1], lens[m - 1]) \in U32
    BY <2>6, Add32Is
  <2> QED BY <1>1, <2>3, <2>4, <2>7
<1>3. f = [i \in 1..Len(lens) |-> f[i]]
  BY DEF At
<1>4. f \in [1..Len(lens) -> U32]
  BY <1>2, <1>3
<1>5. Len(lens) \in Nat
  OBVIOUS
<1>6. Len(lens) > 0 => f[1] = start
  BY <1>1, <1>5
<1>7. ASSUME NEW i \in 2..Len(lens) PROVE f[i] = Add32(f[i - 1], lens[i - 1])
  BY <1>1, <1>5
<1> QED BY <1>4, <1>6, <1>7

LEMMA ConsecutiveIs ==
    ASSUME NEW start \in U32, NEW lens \in Seq(U32)
    PROVE  \E f : /\ At(f, start, lens)
                  /\ Consecutive(start, lens)
                       = [i \in 1..Len(lens) |-> PARTITION(f[i], lens[i])]
<1> DEFINE D(f) == f = [i \in 1..Len(lens) |->
                           IF i = 1 THEN start ELSE Add32(f[i - 1], lens[i - 1])]
           at == CHOOSE f : D(f)
<1>1. Consecutive(start, lens)
        = [i \in 1..Len(lens) |-> PARTITION(at[i], lens[i])]
  BY DEF Consecutive
<1>2. At(at, start, lens)
  <2>1. \E f : D(f)
    <3>1. PICK f : At(f, start, lens)
      BY AtExists
    <3>2. D(f)
      BY <3>1 DEF At
    <3> HIDE DEF D
    <3> QED BY <3>2
  <2> HIDE DEF D
  <2>2. D(at)
    BY <2>1
  <2> HIDE DEF at
  <2> QED BY <2>2 DEF At, D
<1> HIDE DEF at
<1> QED BY <1>1, <1>2

\* The tool's own tables: they start where they should, without gaps.
LEMMA ConsecutiveTable ==
    ASSUME NEW start \in U32, NEW lens \in Seq(U32)
    PROVE  /\ Consecutive(start, lens) \in Seq(Partitions)
           /\ Len(Consecutive(start, lens)) = Len(lens)
           /\ Len(lens) > 0 => Consecutive(start, lens)[1].addrlo = start
           /\ Contiguous(Consecutive(start, lens))
<1>1. PICK f : /\ At(f, start, lens)
               /\ Consecutive(start, lens)
                    = [i \in 1..Len(lens) |-> PARTITION(f[i], lens[i])]
  BY ConsecutiveIs
<1>2. /\ f \in [1..Len(lens) -> U32]
      /\ Len(lens) > 0 => f[1] = start
      /\ \A i \in 2..Len(lens) : f[i] = Add32(f[i - 1], lens[i - 1])
  BY <1>1, AtIs
<1> DEFINE c == [i \in 1..Len(lens) |-> PARTITION(f[i], lens[i])]
<1>3. Len(lens) \in Nat /\ \A i \in 1..Len(lens) : lens[i] \in U32
  OBVIOUS
<1>4. \A i \in 1..Len(lens) :
         /\ c[i] \in Partitions
         /\ c[i].addrlo = f[i] /\ c[i].lenlo = lens[i]
  BY <1>2, <1>3 DEF PARTITION, Partitions
<1>5. c \in Seq(Partitions) /\ Len(c) = Len(lens)
  BY <1>3, <1>4
<1>6. Contiguous(c)
  <2> SUFFICES ASSUME NEW k \in 2..Len(lens)
               PROVE  c[k].addrlo = Add32(c[k-1].addrlo, c[k-1].lenlo)
    BY <1>5 DEF Contiguous
  <2>1. k \in 1..Len(lens) /\ k - 1 \in 1..Len(lens)
    BY <1>3
  <2> QED BY <1>2, <1>4, <2>1
<1>7. Len(lens) > 0 => c[1].addrlo = start
  BY <1>2, <1>3, <1>4
<1> QED BY <1>1, <1>5, <1>6, <1>7

\* The line of arguments in the backup yields the table it was made from.
LEMMA BackupRestores ==
    ASSUME NEW p \in Seq(Partitions), Contiguous(p)
    PROVE  Consecutive(BackupOf(p).start, BackupOf(p).lens) = p
<1>1. CASE p = <<>>
  <2>1. BackupOf(p).start = 0 /\ BackupOf(p).lens = <<>>
    BY <1>1 DEF BackupOf, Backup, NoTable
  <2>2. <<>> \in Seq(U32) /\ Len(<<>>) = 0
    OBVIOUS
  <2>3. Consecutive(0, <<>>) \in Seq(Partitions) /\ Len(Consecutive(0, <<>>)) = 0
    BY <2>2, ZeroU32, ConsecutiveTable
  <2> QED BY <1>1, <2>1, <2>3
<1>2. CASE p # <<>>
  <2> DEFINE start == p[1].addrlo
             lens == [i \in DOMAIN p |-> p[i].lenlo]
  <2>1. BackupOf(p).start = start /\ BackupOf(p).lens = lens
    BY <1>2 DEF BackupOf, Backup, NoTable
  <2>2. Len(p) \in Nat /\ Len(p) > 0 /\ DOMAIN p = 1..Len(p)
    BY <1>2
  <2>3. ASSUME NEW i \in 1..Len(p)
        PROVE  /\ p[i].addrlo \in U32 /\ p[i].lenlo \in U32
               /\ p[i] = PARTITION(p[i].addrlo, p[i].lenlo)
    <3>1. p[i] \in Partitions
      BY <2>2
    <3> QED BY <3>1 DEF Partitions, PARTITION
  <2>4. start \in U32
    BY <2>2, <2>3
  <2>5. lens \in Seq(U32) /\ Len(lens) = Len(p) /\ \A i \in 1..Len(p) : lens[i] = p[i].lenlo
    BY <2>2, <2>3
  <2> HIDE DEF lens, start
  <2>6. PICK f : /\ At(f, start, lens)
                 /\ Consecutive(start, lens)
                      = [i \in 1..Len(lens) |-> PARTITION(f[i], lens[i])]
    BY <2>4, <2>5, ConsecutiveIs
  <2>7. /\ f \in [1..Len(lens) -> U32]
        /\ Len(lens) > 0 => f[1] = start
        /\ \A i \in 2..Len(lens) : f[i] = Add32(f[i - 1], lens[i - 1])
    BY <2>4, <2>5, <2>6, AtIs
  <2> DEFINE T == {i \in 1..Len(p) : f[i] # p[i].addrlo}
  <2>8. T = {}
    <3> SUFFICES ASSUME T # {} PROVE FALSE
      OBVIOUS
    <3>1. T \in SUBSET Nat
      BY <2>2
    <3>2. PICK m \in T : \A k \in T : m <= k
      BY <3>1, LeastElement
    <3>3. m \in 1..Len(p) /\ f[m] # p[m].addrlo
      OBVIOUS
    <3>4. m # 1
      BY <2>2, <2>5, <2>7, <3>3 DEF start
    <3>5. m - 1 \in 1..Len(p) /\ m - 1 \notin T
      BY <2>2, <3>2, <3>3, <3>4
    <3>6. f[m - 1] = p[m - 1].addrlo
      BY <3>5
    <3>7. m \in 2..Len(p)
      BY <2>2, <3>3, <3>4
    <3>8. f[m] = Add32(f[m - 1], lens[m - 1]) /\ lens[m - 1] = p[m - 1].lenlo
      BY <2>5, <2>7, <3>5, <3>7
    <3>9. p[m].addrlo = Add32(p[m - 1].addrlo, p[m - 1].lenlo)
      BY <3>7 DEF Contiguous
    <3> QED BY <3>3, <3>6, <3>8, <3>9
  <2>9. \A i \in 1..Len(p) : PARTITION(f[i], lens[i]) = p[i]
    BY <2>3, <2>5, <2>8
  <2>10. [i \in 1..Len(lens) |-> PARTITION(f[i], lens[i])] = p
    BY <2>2, <2>5, <2>9
  <2> QED BY <2>1, <2>6, <2>10
<1> QED BY <1>1, <1>2

-----------------------------------------------------------------------------
(* The copies on the device. *)

\* d2 is d with copy i of format f replaced by m, and perhaps some copies of
\* the other format destroyed.
Rewrites(d, d2, f, i, m) ==
    /\ d2 \in [Formats -> [Copies -> MBRs]]
    /\ d2[f][i] = m
    /\ \A j \in Copies : j # i => d2[f][j] = d[f][j]
    /\ \A g \in Formats : g # f => \A j \in Copies : d2[g][j] \in {d[g][j], Junk}

LEMMA JunkIsBad == Junk \in MBRs /\ \A f \in Formats : ~get_mbr(f, Junk)
<1>1. <<>> \in Seq(Partitions)
  OBVIOUS
<1> QED BY <1>1 DEF Junk, MBR, MBRs, Magics, Crcs, get_mbr, Formats

LEMMA WrittenRewrites ==
    ASSUME NEW d \in [Formats -> [Copies -> MBRs]], NEW f \in Formats,
           NEW i \in Copies, NEW m \in MBRs
    PROVE  Rewrites(d, Written(d, f, i, m), f, i, m)
<1> DEFINE own == [d EXCEPT ![f][i] = m]
<1>1. Rewrites(d, own, f, i, m)
  BY DEF Rewrites
<1>2. Junk \in MBRs
  BY JunkIsBad
<1>3. 0 \in Copies
  BY DEF Copies, MBR_COPY_NUM
<1>4. CASE f = "a10"
  <2> DEFINE w == [own EXCEPT !.a20[0] = Junk]
  <2>1. Written(d, f, i, m) = w
    BY <1>4 DEF Written
  <2>2. w["a10"] = own["a10"] /\ w \in [Formats -> [Copies -> MBRs]]
    BY <1>2, <1>3 DEF Formats
  <2>3. \A j \in Copies : w["a20"][j] \in {d["a20"][j], Junk}
    BY <1>3, <1>4 DEF Formats
  <2> QED BY <1>1, <1>4, <2>1, <2>2, <2>3 DEF Rewrites, Formats
<1>5. CASE f = "a20" /\ i = 0
  <2> DEFINE w == [own EXCEPT !.a10 = [j \in Copies |-> Junk]]
  <2>1. Written(d, f, i, m) = w
    BY <1>5 DEF Written
  <2>2. w["a20"] = own["a20"] /\ w \in [Formats -> [Copies -> MBRs]]
    BY <1>2 DEF Formats
  <2>3. \A j \in Copies : w["a10"][j] \in {d["a10"][j], Junk}
    BY DEF Formats
  <2> HIDE DEF own, w
  <2> QED BY <1>1, <1>5, <2>1, <2>2, <2>3 DEF Rewrites, Formats
<1>6. CASE f = "a20" /\ i # 0
  BY <1>1, <1>6 DEF Written
<1> QED BY <1>4, <1>5, <1>6 DEF Formats

LEMMA WrittenHeadRewrites ==
    ASSUME NEW d \in [Formats -> [Copies -> MBRs]], NEW f \in Formats,
           NEW i \in Copies, NEW m \in MBRs
    PROVE  Rewrites(d, WrittenHead(d, f, i, m), f, i, m)
<1>1. Junk \in MBRs
  BY JunkIsBad
<1>2. 0 \in Copies
  BY DEF Copies, MBR_COPY_NUM
<1> DEFINE other == IF f = "a10" THEN "a20" ELSE "a10"
           w == [d EXCEPT ![f][i] = m, ![other][0] = Junk]
<1>3. other \in Formats /\ other # f /\ \A g \in Formats : g # f => g = other
  BY DEF Formats
<1> HIDE DEF other
<1>4. CASE f = "a10" \/ i = 0
  <2>1. WrittenHead(d, f, i, m) = w
    BY <1>4 DEF WrittenHead, other
  <2>2. w \in [Formats -> [Copies -> MBRs]]
    BY <1>1, <1>2, <1>3
  <2>3. w[f][i] = m /\ \A j \in Copies : j # i => w[f][j] = d[f][j]
    BY <1>2, <1>3
  <2>4. \A j \in Copies : w[other][j] \in {d[other][j], Junk}
    BY <1>2, <1>3
  <2> QED BY <1>3, <2>1, <2>2, <2>3, <2>4 DEF Rewrites
<1>5. CASE ~(f = "a10" \/ i = 0)
  <2>1. WrittenHead(d, f, i, m) = [d EXCEPT ![f][i] = m]
    BY <1>5 DEF WrittenHead
  <2> QED BY <2>1 DEF Rewrites
<1> QED BY <1>4, <1>5

LEMMA StampedIs ==
    ASSUME NEW m \in MBRs, NEW i \in Nat
    PROVE  /\ Stamped(m, i) \in MBRs
           /\ Stamped(m, i).parts = m.parts
           /\ Stamped(m, i).magic = m.magic
           /\ Stamped(m, i).crc32 = calc_crc32(Stamped(m, i))
<1> DEFINE mi == [m EXCEPT !.index = i]
<1>1. mi \in MBRs /\ mi.parts = m.parts /\ mi.magic = m.magic
  BY DEF MBRs
<1>2. calc_crc32(mi) \in Crcs
  BY <1>1 DEF MBRs, calc_crc32, Crcs
<1>3. Stamped(m, i) = [mi EXCEPT !.crc32 = calc_crc32(mi)]
  BY DEF Stamped
<1> HIDE DEF mi
<1> QED BY <1>1, <1>2, <1>3 DEF MBRs, calc_crc32

\* A copy torn in the middle is bad, or complete after all.
LEMMA TornIs ==
    ASSUME NEW m \in MBRs, m.crc32 = calc_crc32(m), NEW old \in MBRs,
           NEW t \in Torn(m, old), NEW f \in Formats
    PROVE  /\ t \in MBRs
           /\ t.magic = m.magic
           /\ get_mbr(f, t) => t.parts = m.parts
<1>1. PICK k \in 0..Len(m.parts) :
         t = [m EXCEPT !.parts = [i \in DOMAIN m.parts |->
                IF i <= k THEN m.parts[i]
                ELSE IF i \in DOMAIN old.parts THEN old.parts[i]
                ELSE PARTITION(0, 0)]]
  BY DEF Torn
<1> DEFINE q == [i \in DOMAIN m.parts |->
                IF i <= k THEN m.parts[i]
                ELSE IF i \in DOMAIN old.parts THEN old.parts[i]
                ELSE PARTITION(0, 0)]
<1>2. m.parts \in Seq(Partitions) /\ old.parts \in Seq(Partitions)
  BY DEF MBRs
<1>3. \A i \in DOMAIN m.parts : m.parts[i] \in Partitions
  BY <1>2
<1>4. \A i \in DOMAIN old.parts : old.parts[i] \in Partitions
  BY <1>2
<1>5. PARTITION(0, 0) \in Partitions
  BY ZeroU32 DEF PARTITION, Partitions
<1>6. \A i \in DOMAIN m.parts : q[i] \in Partitions
  BY <1>3, <1>4, <1>5
<1>7. q \in Seq(Partitions)
  <2>1. DOMAIN m.parts = 1..Len(m.parts) /\ Len(m.parts) \in Nat
    BY <1>2
  <2>2. q \in [1..Len(m.parts) -> Partitions]
    BY <1>6, <2>1
  <2> QED BY <2>1, <2>2
<1> HIDE DEF q
<1>8. t = [m EXCEPT !.parts = q]
  BY <1>1 DEF q
<1>9. t \in MBRs /\ t.magic = m.magic /\ t.index = m.index /\ t.crc32 = m.crc32
  BY <1>7, <1>8 DEF MBRs
<1>10. get_mbr(f, t) => t.parts = m.parts
  BY <1>9 DEF get_mbr, calc_crc32
<1> QED BY <1>9, <1>10

LEMMA MaxCopy ==
    ASSUME NEW S \in SUBSET Copies, S # {}
    PROVE  Max(S) \in S /\ \A j \in S : j <= Max(S)
<1>1. \A x \in S : x \in 0..3
  BY DEF Copies, MBR_COPY_NUM
<1>2. \E x \in S : \A y \in S : x >= y
  <2>1. CASE 3 \in S  BY <1>1, <2>1
  <2>2. CASE 3 \notin S /\ 2 \in S  BY <1>1, <2>2
  <2>3. CASE 3 \notin S /\ 2 \notin S /\ 1 \in S  BY <1>1, <2>3
  <2>4. CASE 3 \notin S /\ 2 \notin S /\ 1 \notin S
    <3>1. \A x \in S : x = 0  BY <1>1, <2>4
    <3> QED BY <3>1
  <2> QED BY <2>1, <2>2, <2>3, <2>4
<1> QED BY <1>1, <1>2 DEF Max

LEMMA LastGoodIs ==
    ASSUME NEW d, NEW f
    PROVE  \/ Good(d, f) = {} /\ LastGood(d, f) = NoTable
           \/ \E i \in Good(d, f) : /\ \A j \in Good(d, f) : j <= i
                                    /\ LastGood(d, f) = d[f][i].parts
<1>1. Good(d, f) \in SUBSET Copies
  BY DEF Good
<1> QED BY <1>1, MaxCopy DEF LastGood

-----------------------------------------------------------------------------
(* The invariant. *)

LEMMA InitInv == Init => IInv
<1> SUFFICES ASSUME Init PROVE IInv
  OBVIOUS
<1>1. PICK f \in Formats, t \in Tables, good \in {Copies, {0}, {0, 3}, {1, 2}} :
         /\ t[1].addrlo >= MinStart(f)
         /\ dev = Formatted(f, t, good)
         /\ known = {t}
  BY DEF Init
<1>2. t \in Seq(Partitions) /\ t # <<>>
  BY TablesAssumption
<1>3. ASSUME NEW g \in Formats, NEW i \in Copies
      PROVE  /\ dev[g][i] \in MBRs
             /\ get_mbr(g, dev[g][i]) => g = f /\ dev[g][i].parts = t
  <2>1. CASE g = f /\ i \in good
    <3>1. dev[g][i] = MBR(f, i, t, <<f, i, t>>)
      BY <1>1, <2>1 DEF Formatted
    <3>2. i \in Nat /\ f \in Magics
      BY DEF Copies, MBR_COPY_NUM, Magics
    <3>3. <<f, i, t>> \in Crcs
      BY <1>2, <3>2 DEF Crcs
    <3> QED BY <1>2, <2>1, <3>1, <3>2, <3>3 DEF MBR, MBRs
  <2>2. CASE ~(g = f /\ i \in good)
    <3>1. dev[g][i] = Junk
      BY <1>1, <2>2 DEF Formatted
    <3> QED BY <3>1, JunkIsBad
  <2> QED BY <2>1, <2>2
<1>4. dev \in [Formats -> [Copies -> MBRs]]
  BY <1>1, <1>3 DEF Formatted
<1>5. TypeOK
  <2>1. <<>> \in Seq(U32) /\ <<>> \in Seq(Partitions)
    OBVIOUS
  <2>2. run \in [format : Formats, force : BOOLEAN, start : Int,
                 lens : Seq(U32), partoffset : {0, 1}]
    BY <2>1 DEF Init, NoRun, NoStart, Formats
  <2>3. known \subseteq (Seq(Partitions) \ {<<>>})
    BY <1>1, <1>2
  <2>4. /\ mbr \in MBRs /\ base \in Seq(Partitions) /\ copy \in 0..MBR_COPY_NUM
        /\ pc \in {"idle", "read", "backup", "ask", "write"}
    BY <2>1, JunkIsBad DEF Init, NoTable, MBR_COPY_NUM
  <2> QED BY <1>4, <2>2, <2>3, <2>4 DEF TypeOK
<1>6. GoodCopiesSound
  BY <1>1, <1>3 DEF GoodCopiesSound, Good
<1>7. RunOk /\ MemOk /\ BackupOk /\ CopiesOk
  BY DEF Init, RunOk, MemOk, BackupOk, CopiesOk
<1> QED BY <1>5, <1>6, <1>7 DEF IInv

LEMMA NandPartInv ==
    ASSUME IInv, NEW force \in BOOLEAN, NEW f \in Formats,
           NEW st \in Starts \cup {NoStart}, NEW l \in ArgLens,
           nand_part(force, f, st, l)
    PROVE  IInv'
<1>1. st \in Int /\ (st # NoStart => st \in U32)
  BY ArgsAssumption DEF NoStart, U32
<1>2. l \in Seq(U32) /\ l # <<>>
  BY ArgsAssumption DEF nand_part, ArgsOk
<1>3. TypeOK'
  BY <1>1, <1>2 DEF IInv, TypeOK, nand_part, NoTable
<1>4. RunOk'
  BY <1>1, <1>2 DEF nand_part, RunOk, ArgsOk
<1>5. MemOk' /\ BackupOk' /\ CopiesOk'
  BY DEF nand_part, MemOk, BackupOk, CopiesOk
<1>6. GoodCopiesSound'
  BY DEF IInv, nand_part, GoodCopiesSound, Good
<1> QED BY <1>3, <1>4, <1>5, <1>6 DEF IInv

LEMMA NandPartEndsInv ==
    ASSUME IInv, NEW force, NEW f, NEW st, NEW l, nand_partEnds(force, f, st, l)
    PROVE  IInv'
BY DEF IInv, TypeOK, RunOk, MemOk, BackupOk, CopiesOk, GoodCopiesSound, Good,
   nand_partEnds

\* What LastGood() finds on a device is a table, and the one in the last copy
\* if that one is good.
LEMMA LastGoodTable ==
    ASSUME TypeOK, NEW f \in Formats
    PROVE  /\ LastGood(dev, f) \in Seq(Partitions)
           /\ (MBR_COPY_NUM - 1) \in Good(dev, f) =>
                 LastGood(dev, f) = dev[f][MBR_COPY_NUM - 1].parts
<1>1. Good(dev, f) \in SUBSET Copies
  BY DEF Good
<1>2. CASE Good(dev, f) = {}
  BY <1>2 DEF LastGood, NoTable
<1>3. CASE Good(dev, f) # {}
  <2> DEFINE k == Max(Good(dev, f))
  <2>1. k \in Good(dev, f) /\ \A j \in Good(dev, f) : j <= k
    BY <1>1, <1>3, MaxCopy
  <2>2. LastGood(dev, f) = dev[f][k].parts
    BY <1>3 DEF LastGood
  <2> HIDE DEF k
  <2>3. dev[f][k] \in MBRs
    BY <1>1, <2>1 DEF TypeOK
  <2>4. k \in 0..3
    BY <1>1, <2>1 DEF Copies, MBR_COPY_NUM
  <2>5. (MBR_COPY_NUM - 1) \in Good(dev, f) => k = MBR_COPY_NUM - 1
    BY <2>1, <2>4 DEF MBR_COPY_NUM
  <2> QED BY <2>2, <2>3, <2>5 DEF MBRs
<1> QED BY <1>2, <1>3

LEMMA ReadMbrsInv == ASSUME IInv, ReadMbrs PROVE IInv'
<1> USE DEF IInv
<1>1. GoodCopiesSound'
  BY DEF ReadMbrs, GoodCopiesSound, Good
<1>2. CASE pc' = "idle" /\ UNCHANGED <<mbr, base, bypassed, backup>>
  BY <1>1, <1>2 DEF ReadMbrs, TypeOK, RunOk, MemOk, BackupOk, CopiesOk
<1>f. run.format \in Formats
  BY DEF TypeOK
<1>b. LastGood(dev, run.format) \in Seq(Partitions)
  BY <1>f, LastGoodTable
<1>3. CASE run.force /\ mbr' = [dev[run.format][MBR_COPY_NUM - 1] EXCEPT !.magic = run.format]
           /\ base' = LastGood(dev, run.format) /\ pc' = "backup"
           /\ bypassed' = (run.force /\ (MBR_COPY_NUM - 1) \notin Good(dev, run.format))
  <2>1. MBR_COPY_NUM - 1 \in Copies
    BY DEF Copies, MBR_COPY_NUM
  <2>2. dev[run.format][MBR_COPY_NUM - 1] \in MBRs
    BY <1>f, <2>1 DEF TypeOK
  <2>3. mbr' \in MBRs /\ mbr'.parts = dev[run.format][MBR_COPY_NUM - 1].parts
    BY <1>3, <1>f, <2>2 DEF MBRs, Magics
  <2>4. TypeOK'
    BY <1>3, <1>b, <2>3 DEF ReadMbrs, TypeOK
  <2>5. RunOk' /\ BackupOk' /\ CopiesOk'
    BY <1>3 DEF ReadMbrs, RunOk, BackupOk, CopiesOk
  <2>6. ~bypassed' => base' = mbr'.parts
    BY <1>3, <1>f, <2>3, LastGoodTable
  <2>7. MemOk'
    BY <1>3, <2>6 DEF ReadMbrs, RunOk, MemOk
  <2> QED BY <1>1, <2>4, <2>5, <2>7
<1>4. CASE ~run.force /\ checkmbrs(dev, run.format)
           /\ mbr' = dev[run.format][Max(Good(dev, run.format))]
           /\ base' = LastGood(dev, run.format) /\ pc' = "backup"
  <2> DEFINE k == Max(Good(dev, run.format))
  <2>2. k \in Good(dev, run.format) /\ k \in Copies
    BY <1>4, MaxCopy DEF checkmbrs, Good
  <2>3. mbr' \in MBRs
    BY <1>4, <1>f, <2>2 DEF TypeOK
  <2>4. Starting(run.format, mbr'.parts)
    BY <1>4, <1>f, <2>2 DEF GoodCopiesSound, Starting, TypeOK
  <2>5. base' = mbr'.parts
    BY <1>4 DEF LastGood, checkmbrs
  <2>6. TypeOK'
    BY <1>4, <1>b, <2>3 DEF ReadMbrs, TypeOK
  <2>7. RunOk' /\ BackupOk' /\ CopiesOk'
    BY <1>4 DEF ReadMbrs, RunOk, BackupOk, CopiesOk
  <2>8. MemOk'
    BY <1>4, <2>4, <2>5 DEF ReadMbrs, MemOk, Starting
  <2> QED BY <1>1, <2>6, <2>7, <2>8
<1> QED BY <1>2, <1>3, <1>4 DEF ReadMbrs

\* The new table, whatever the arguments are.
LEMMA NewPartsIs ==
    ASSUME IInv, pc = "backup"
    PROVE  LET p == NewParts(mbr, run)
           IN  p \in Seq(Partitions) /\ Starting(run.format, p) /\ LaidOut(run.format, p)
<1> DEFINE p == NewParts(mbr, run)
<1>1. /\ run.lens \in Seq(U32) /\ run.lens # <<>> /\ Len(run.lens) \in Nat
      /\ Len(run.lens) > 0
      /\ mbr.parts \in Seq(Partitions)
  BY DEF IInv, TypeOK, RunOk, MBRs
<1>f. run.format \in Formats
  BY DEF IInv, TypeOK
<1>2. CASE run.partoffset = 1
  <2> DEFINE old0 == mbr.parts[1]
             c == Consecutive(Add32(old0.addrlo, old0.lenlo), run.lens)
  <2>1. Starting(run.format, mbr.parts)
    BY <1>2 DEF IInv, MemOk
  <2>2. 1 \in 1..Len(mbr.parts)
    BY <1>1, <2>1 DEF Starting
  <2>3. old0 \in Partitions
    BY <1>1, <2>2
  <2>4. Add32(old0.addrlo, old0.lenlo) \in U32
    BY <2>3, Add32Is DEF Partitions
  <2>5. p = <<old0>> \o c
    BY <1>2 DEF NewParts
  <2>6. /\ c \in Seq(Partitions) /\ Len(c) = Len(run.lens)
        /\ c[1].addrlo = Add32(old0.addrlo, old0.lenlo) /\ Contiguous(c)
    BY <1>1, <2>4, ConsecutiveTable
  <2> HIDE DEF old0, c
  <2>7. /\ p \in Seq(Partitions) /\ Len(p) = Len(c) + 1 /\ p[1] = old0
        /\ \A i \in 1..Len(c) : p[i + 1] = c[i]
    BY <2>3, <2>5, <2>6
  <2>8. Starting(run.format, p)
    BY <2>1, <2>6, <2>7, <1>1 DEF Starting, old0
  <2>9. Contiguous(p)
    <3> SUFFICES ASSUME NEW k \in 2..Len(p)
                 PROVE  p[k].addrlo = Add32(p[k-1].addrlo, p[k-1].lenlo)
      BY DEF Contiguous
    <3>1. CASE k = 2
      <4>1. 1 \in 1..Len(c)
        BY <1>1, <2>6
      <4>2. p[2] = c[1]
        BY <2>7, <4>1
      <4> QED BY <2>6, <2>7, <3>1, <4>2
    <3>2. CASE k > 2
      <4>1. k - 1 \in 2..Len(c) /\ k - 2 \in 1..Len(c) /\ k - 1 \in 1..Len(c)
        BY <1>1, <2>6, <2>7, <3>2
      <4>2. p[(k - 1) + 1] = c[k - 1] /\ p[(k - 2) + 1] = c[k - 2]
        BY <2>7, <4>1
      <4>3. (k - 1) + 1 = k /\ (k - 2) + 1 = k - 1 /\ (k - 1) - 1 = k - 2
        OBVIOUS
      <4>4. c[k - 1].addrlo = Add32(c[(k - 1) - 1].addrlo, c[(k - 1) - 1].lenlo)
        BY <2>6, <4>1 DEF Contiguous
      <4> QED BY <4>2, <4>3, <4>4
    <3> QED BY <3>1, <3>2
  <2> QED BY <1>f, <2>7, <2>8, <2>9, ContiguousClear
<1>3. CASE run.partoffset # 1
  <2>1. p = Consecutive(run.start, run.lens)
    BY <1>3 DEF NewParts
  <2>2. run.start \in U32 /\ run.start >= MinStart(run.format)
    BY <1>3 DEF IInv, RunOk
  <2>3. /\ p \in Seq(Partitions) /\ Len(p) = Len(run.lens)
        /\ p[1].addrlo = run.start /\ Contiguous(p)
    BY <1>1, <2>1, <2>2, ConsecutiveTable
  <2>4. p # <<>>
    BY <1>1, <2>3
  <2>5. Starting(run.format, p)
    BY <2>2, <2>3, <2>4 DEF Starting
  <2> QED BY <1>f, <2>3, <2>5, ContiguousClear
<1> QED BY <1>2, <1>3

LEMMA BackupInv == ASSUME IInv, BackupAndAnnounce PROVE IInv'
<1> DEFINE p == NewParts(mbr, run)
<1>1. p \in Seq(Partitions) /\ Starting(run.format, p) /\ LaidOut(run.format, p)
  BY NewPartsIs DEF BackupAndAnnounce
<1>2. announced' = p /\ mbr' \in AfterFree([mbr EXCEPT !.parts = p])
  <2>1. mbr \in MBRs
    BY DEF IInv, TypeOK
  <2>2. [mbr EXCEPT !.parts = p].parts = p
    BY <2>1 DEF MBRs
  <2> QED BY <2>2 DEF BackupAndAnnounce
<1> HIDE DEF p
<1>3. mbr' \in MBRs /\ mbr'.parts = p
  <2>1. mbr \in MBRs
    BY DEF IInv, TypeOK
  <2>2. [mbr EXCEPT !.parts = p] \in MBRs /\ [mbr EXCEPT !.parts = p].parts = p
    BY <1>1, <2>1 DEF MBRs
  <2>3. "junk" \in Magics
    BY DEF Magics
  <2> QED BY <1>2, <2>2, <2>3 DEF AfterFree, MBRs
<1>4. TypeOK'
  BY <1>3 DEF IInv, TypeOK, BackupAndAnnounce
<1>5. RunOk'
  BY DEF IInv, RunOk, BackupAndAnnounce
<1>6. MemOk'
  BY <1>1, <1>2, <1>3 DEF MemOk, BackupAndAnnounce, Starting
<1>7. BackupOk'
  BY DEF IInv, MemOk, BackupOk, BackupAndAnnounce
<1>8. CopiesOk'
  BY DEF CopiesOk, BackupAndAnnounce
<1>9. GoodCopiesSound'
  BY DEF IInv, GoodCopiesSound, Good, BackupAndAnnounce
<1> QED BY <1>4, <1>5, <1>6, <1>7, <1>8, <1>9 DEF IInv

LEMMA AnswerInv ==
    ASSUME IInv, NEW yes \in BOOLEAN, Answer(yes)
    PROVE  IInv'
<1>1. announced \in Seq(Partitions) \ {<<>>}
  BY DEF IInv, TypeOK, MemOk, MBRs, Starting, Answer
<1>2. TypeOK'
  BY <1>1 DEF IInv, TypeOK, Answer, MBR_COPY_NUM
<1>3. RunOk' /\ MemOk' /\ BackupOk'
  BY DEF IInv, RunOk, MemOk, BackupOk, Answer
<1>4. CopiesOk'
  BY DEF CopiesOk, Answer, Copies
<1>5. known \subseteq known'
  BY DEF Answer
<1>6. GoodCopiesSound'
  BY <1>5 DEF IInv, GoodCopiesSound, Good, Answer
<1> QED BY <1>2, <1>3, <1>4, <1>6 DEF IInv

\* What a copy written from the announced table leaves sound.
LEMMA RewriteSound ==
    ASSUME IInv, pc = "write", copy \in Copies, NEW m \in MBRs,
           Rewrites(dev, dev', run.format, copy, m),
           get_mbr(run.format, m) => m.parts = announced,
           UNCHANGED known
    PROVE  GoodCopiesSound'
<1> SUFFICES ASSUME NEW f \in Formats, NEW i \in Copies, get_mbr(f, dev'[f][i])
             PROVE  LET p == dev'[f][i].parts
                    IN  /\ p \in known
                        /\ p[1].addrlo >= MinStart(f)
                        /\ p \in Tables \/ LaidOut(f, p)
  BY DEF GoodCopiesSound, Good, LaidOut
<1>1. CASE f = run.format /\ i = copy
  <2>1. dev'[f][i].parts = announced
    BY <1>1 DEF Rewrites
  <2> QED BY <1>1, <2>1 DEF IInv, MemOk, Starting
<1>2. CASE ~(f = run.format /\ i = copy)
  <2>1. dev'[f][i] = dev[f][i]
    BY <1>2, JunkIsBad DEF Rewrites
  <2> QED BY <2>1 DEF IInv, GoodCopiesSound, Good, LaidOut
<1> QED BY <1>1, <1>2

LEMMA WriteCopyInv == ASSUME IInv, WriteCopy PROVE IInv'
<1>1. /\ copy \in Copies /\ copy \in Nat /\ run.format \in Formats
      /\ mbr \in MBRs /\ dev \in [Formats -> [Copies -> MBRs]]
  BY DEF IInv, TypeOK, WriteCopy, Copies, MBR_COPY_NUM
<1>2. /\ mbr' \in MBRs /\ mbr'.parts = mbr.parts /\ mbr'.magic = mbr.magic
      /\ mbr'.crc32 = calc_crc32(mbr')
  BY <1>1, StampedIs DEF WriteCopy
<1>3. mbr'.parts = announced
  BY <1>2 DEF IInv, MemOk, WriteCopy
<1>4. RunOk' /\ MemOk' /\ BackupOk'
  BY <1>2 DEF IInv, RunOk, MemOk, BackupOk, WriteCopy
<1>5. copy' \in 0..MBR_COPY_NUM /\ copy' = copy + 1
  BY <1>1 DEF WriteCopy, Copies, MBR_COPY_NUM
<1>6. CASE dev' = Written(dev, run.format, copy, mbr') /\ UNCHANGED failed
  <2>1. Rewrites(dev, dev', run.format, copy, mbr')
    BY <1>1, <1>2, <1>6, WrittenRewrites
  <2>2. GoodCopiesSound'
    BY <1>1, <1>2, <1>3, <2>1, RewriteSound DEF WriteCopy
  <2>3. TypeOK'
    BY <1>2, <1>5, <2>1 DEF IInv, TypeOK, Rewrites, WriteCopy
  <2>4. CopiesOk'
    <3> SUFFICES ASSUME "device" \notin failed, NEW j \in Copies, j < copy + 1
                 PROVE  IF mbr'.magic = run.format
                        THEN /\ get_mbr(run.format, dev'[run.format][j])
                             /\ dev'[run.format][j].parts = announced
                        ELSE ~get_mbr(run.format, dev'[run.format][j])
      BY <1>5, <1>6 DEF CopiesOk, WriteCopy
    <3>1. CASE j = copy
      BY <1>2, <1>3, <2>1, <3>1 DEF Rewrites, get_mbr
    <3>2. CASE j # copy
      <4>1. j < copy
        BY <1>1, <3>2 DEF Copies, MBR_COPY_NUM
      <4>2. dev'[run.format][j] = dev[run.format][j]
        BY <2>1, <3>2 DEF Rewrites
      <4> QED BY <1>2, <4>1, <4>2 DEF IInv, CopiesOk, WriteCopy
    <3> QED BY <3>1, <3>2
  <2> QED BY <1>4, <2>2, <2>3, <2>4 DEF IInv
<1>7. CASE UNCHANGED dev /\ failed' = failed \cup {"device"}
  <2>1. TypeOK'
    BY <1>2, <1>5, <1>7 DEF IInv, TypeOK, WriteCopy
  <2>2. CopiesOk'
    BY <1>7 DEF CopiesOk
  <2>3. GoodCopiesSound'
    BY <1>7 DEF IInv, GoodCopiesSound, Good, WriteCopy
  <2> QED BY <1>4, <2>1, <2>2, <2>3 DEF IInv
<1> QED BY <1>6, <1>7 DEF WriteCopy

LEMMA VerifyInv == ASSUME IInv, Verify PROVE IInv'
BY DEF IInv, TypeOK, RunOk, MemOk, BackupOk, CopiesOk, GoodCopiesSound, Good, Verify

\* What a crash in the middle of a copy has written.
LEMMA CrashWrites ==
    ASSUME IInv, Crash, dev' # dev
    PROVE  /\ pc = "write" /\ copy \in Copies
           /\ \E m \in MBRs : /\ Rewrites(dev, dev', run.format, copy, m)
                              /\ get_mbr(run.format, m) => m.parts = announced
                              /\ m.magic = mbr.magic
<1>1. pc = "write" /\ copy < MBR_COPY_NUM
  BY DEF Crash
<1>2. /\ copy \in Copies /\ copy \in Nat /\ run.format \in Formats
      /\ mbr \in MBRs /\ dev \in [Formats -> [Copies -> MBRs]]
  BY <1>1 DEF IInv, TypeOK, Copies, MBR_COPY_NUM
<1> DEFINE m0 == Stamped(mbr, copy)
<1>3. /\ m0 \in MBRs /\ m0.parts = mbr.parts /\ m0.magic = mbr.magic
      /\ m0.crc32 = calc_crc32(m0)
  BY <1>2, StampedIs
<1>4. m0.parts = announced
  BY <1>1, <1>3 DEF IInv, MemOk
<1>5. PICK m \in Torn(m0, dev[run.format][copy]) :
         dev' \in {Written(dev, run.format, copy, m),
                   WrittenHead(dev, run.format, copy, m)}
  BY DEF Crash
<1> HIDE DEF m0
<1>6. dev[run.format][copy] \in MBRs
  BY <1>2
<1>7. m \in MBRs /\ m.magic = mbr.magic /\ (get_mbr(run.format, m) => m.parts = announced)
  BY <1>2, <1>3, <1>4, <1>6, TornIs
<1>8. Rewrites(dev, dev', run.format, copy, m)
  BY <1>2, <1>5, <1>7, WrittenRewrites, WrittenHeadRewrites
<1> QED BY <1>1, <1>2, <1>7, <1>8

LEMMA CrashInv == ASSUME IInv, Crash PROVE IInv'
<1>1. RunOk' /\ MemOk' /\ BackupOk' /\ CopiesOk'
  BY DEF RunOk, MemOk, BackupOk, CopiesOk, Crash
<1>2. CASE dev' = dev
  <2>1. TypeOK' /\ GoodCopiesSound'
    BY <1>2 DEF IInv, TypeOK, GoodCopiesSound, Good, Crash
  <2> QED BY <1>1, <2>1 DEF IInv
<1>3. CASE dev' # dev
  <2>1. PICK m \in MBRs : /\ Rewrites(dev, dev', run.format, copy, m)
                          /\ get_mbr(run.format, m) => m.parts = announced
    BY <1>3, CrashWrites
  <2>2. GoodCopiesSound'
    BY <1>3, <2>1, CrashWrites, RewriteSound DEF Crash
  <2>3. TypeOK'
    BY <2>1 DEF IInv, TypeOK, Crash, Rewrites
  <2> QED BY <1>1, <2>2, <2>3 DEF IInv
<1> QED BY <1>2, <1>3

LEMMA NextInv == IInv /\ [Next]_vars => IInv'
<1> SUFFICES ASSUME IInv, [Next]_vars PROVE IInv'
  OBVIOUS
<1>1. CASE UNCHANGED vars
  BY <1>1 DEF IInv, TypeOK, RunOk, MemOk, BackupOk, CopiesOk, GoodCopiesSound,
     Good, vars
<1>2. CASE Next
  BY <1>2, NandPartInv, NandPartEndsInv, ReadMbrsInv, BackupInv, AnswerInv, WriteCopyInv,
     VerifyInv, CrashInv DEF Next
<1> QED BY <1>1, <1>2

(***************************************************************************)
(* The invariant holds over all runs of nand_part(), crashes included, for *)
(* tables, copies and arguments of any size.                               *)
(***************************************************************************)
THEOREM Invariance == Spec => []IInv
BY InitInv, NextInv, PTL DEF Spec

(***************************************************************************)
(* Every copy that checkmbrs() accepts holds a table that the device came  *)
(* with or that a user confirmed, whatever writembrs() left behind.  It    *)
(* starts behind the copies, and a table the tool has laid out follows on  *)
(* modulo 2^32 and is clear of the copies as long as no partition reaches  *)
(* the last sector number.                                                 *)
(***************************************************************************)
THEOREM CopiesStaySound == Spec => []GoodCopiesSound
<1>1. IInv => GoodCopiesSound
  BY DEF IInv
<1> QED BY <1>1, Invariance, PTL

(***************************************************************************)
(* The backup that writembrs() saves gives back the table that was in      *)
(* effect, unless -f took a last copy that was not good, and four copies   *)
(* written without an error hold the table that the user was shown.        *)
(***************************************************************************)
THEOREM RunsAreHonest == Spec => []RunHonest
<1>1. ASSUME IInv PROVE RunHonest
  <2>1. ASSUME pc \in {"ask", "write"}, "backup" \notin failed, Contiguous(base),
               ~bypassed
        PROVE  Consecutive(backup.start, backup.lens) = base
    <3>1. backup = BackupOf(base) /\ base \in Seq(Partitions)
      BY <1>1, <2>1 DEF IInv, BackupOk, TypeOK
    <3> QED BY <2>1, <3>1, BackupRestores
  <2>2. ASSUME pc = "write", copy = MBR_COPY_NUM, "device" \notin failed,
               mbr.magic = run.format
        PROVE  LastGood(dev, run.format) = announced
    <3>1. \A j \in Copies : /\ get_mbr(run.format, dev[run.format][j])
                            /\ dev[run.format][j].parts = announced
      BY <1>1, <2>2 DEF IInv, CopiesOk, Copies, MBR_COPY_NUM
    <3>2. 0 \in Good(dev, run.format) /\ Good(dev, run.format) \subseteq Copies
      BY <3>1 DEF Good, Copies, MBR_COPY_NUM
    <3> QED BY <3>1, <3>2, LastGoodIs
  <2> QED BY <2>1, <2>2 DEF RunHonest
<1> QED BY <1>1, Invariance, PTL

-----------------------------------------------------------------------------
(* The switch.  Before it, the copies behind the loop are those of CopiesOk *)
(* and the others are old; one more of them is replaced.                    *)

LEMMA SwitchByRewrite ==
    ASSUME IInv, pc = "write", copy \in Copies, NEW m \in MBRs,
           Rewrites(dev, dev', run.format, copy, m),
           get_mbr(run.format, m) => m.parts = announced,
           m.magic = mbr.magic, "device" \notin failed,
           LastGood(dev', run.format) # LastGood(dev, run.format)
    PROVE  \/ LastGood(dev', run.format) = announced
           \/ /\ LastGood(dev', run.format) = NoTable
              /\ mbr.magic # run.format \/ copy = 0
<1> DEFINE f == run.format
<1>1. /\ \A j \in Good(dev', f) : j \in Copies /\ get_mbr(f, dev'[f][j])
      /\ \A j \in Good(dev, f) : j \in Copies /\ get_mbr(f, dev[f][j])
      /\ \A j \in Copies : get_mbr(f, dev'[f][j]) => j \in Good(dev', f)
      /\ \A j \in Copies : get_mbr(f, dev[f][j]) => j \in Good(dev, f)
  BY DEF Good
<1>2. \A j \in Copies : j # copy => dev'[f][j] = dev[f][j]
  BY DEF Rewrites
<1>3. dev'[f][copy] = m
  BY DEF Rewrites
<1>4. \A j \in Copies : j < copy =>
         IF mbr.magic = f
         THEN get_mbr(f, dev[f][j]) /\ dev[f][j].parts = announced
         ELSE ~get_mbr(f, dev[f][j])
  BY DEF IInv, CopiesOk
<1>5. \A j \in Copies : j \in Int
  BY DEF Copies, MBR_COPY_NUM
<1>6. CASE Good(dev', f) = {}
  <2>1. LastGood(dev', f) = NoTable
    BY <1>6 DEF LastGood
  <2>2. ASSUME mbr.magic = f, copy # 0 PROVE FALSE
    <3>1. 0 \in Copies /\ 0 < copy
      BY <2>2 DEF Copies, MBR_COPY_NUM
    <3> QED BY <1>1, <1>2, <1>4, <1>6, <2>2, <3>1
  <2> QED BY <2>1, <2>2
<1>7. CASE Good(dev', f) # {}
  <2>1. PICK i \in Good(dev', f) : /\ \A j \in Good(dev', f) : j <= i
                                   /\ LastGood(dev', f) = dev'[f][i].parts
    BY <1>7, LastGoodIs
  <2>2. CASE i = copy
    BY <1>1, <1>3, <2>1, <2>2
  <2>3. CASE i < copy
    BY <1>1, <1>2, <1>4, <1>5, <2>1, <2>3
  <2>4. CASE i > copy
    <3>1. i \in Good(dev, f) /\ dev'[f][i] = dev[f][i]
      BY <1>1, <1>2, <1>5, <2>4
    <3>2. PICK k \in Good(dev, f) : /\ \A j \in Good(dev, f) : j <= k
                                    /\ LastGood(dev, f) = dev[f][k].parts
      BY <3>1, LastGoodIs
    <3>3. k >= i
      BY <1>1, <1>5, <3>1, <3>2
    <3>4. k \in Good(dev', f)
      BY <1>1, <1>2, <1>5, <2>4, <3>2, <3>3
    <3>5. k = i
      BY <1>1, <1>5, <2>1, <3>3, <3>4
    <3> QED BY <2>1, <3>1, <3>2, <3>5
  <2> QED BY <1>1, <1>5, <2>2, <2>3, <2>4
<1> QED BY <1>6, <1>7

(***************************************************************************)
(* Through the loop of writembrs(), and over a crash in it, the table that *)
(* the next reader finds changes only from the old to the announced one.   *)
(***************************************************************************)
THEOREM TableSwitchesOnce == Spec => SwitchOnce
<1>1. IInv /\ [Next]_vars => [SwitchStep]_vars
  <2> SUFFICES ASSUME IInv, Next PROVE SwitchStep
    OBVIOUS
  <2> SUFFICES ASSUME pc = "write", "device" \notin failed',
                      LastGood(dev', run.format) # LastGood(dev, run.format)
               PROVE  \/ LastGood(dev', run.format) = announced
                      \/ /\ LastGood(dev', run.format) = NoTable
                         /\ mbr.magic # run.format \/ copy = 0
    BY DEF SwitchStep
  <2>1. dev' # dev
    OBVIOUS
  <2>2. CASE WriteCopy
    <3>1. /\ copy \in Copies /\ copy \in Nat /\ run.format \in Formats
          /\ mbr \in MBRs /\ dev \in [Formats -> [Copies -> MBRs]]
      BY <2>2 DEF IInv, TypeOK, WriteCopy, Copies, MBR_COPY_NUM
    <3>2. mbr' \in MBRs /\ mbr'.parts = mbr.parts /\ mbr'.magic = mbr.magic
      BY <2>2, <3>1, StampedIs DEF WriteCopy
    <3>3. mbr'.parts = announced
      BY <3>2 DEF IInv, MemOk
    <3>4. dev' = Written(dev, run.format, copy, mbr') /\ failed' = failed
      BY <2>1, <2>2 DEF WriteCopy
    <3>5. Rewrites(dev, dev', run.format, copy, mbr')
      BY <3>1, <3>2, <3>4, WrittenRewrites
    <3> QED BY <3>1, <3>2, <3>3, <3>4, <3>5, SwitchByRewrite
  <2>3. CASE Crash
    <3>1. failed' = failed
      BY <2>3 DEF Crash
    <3> QED BY <2>1, <2>3, <3>1, CrashWrites, SwitchByRewrite
  <2> QED BY <2>1, <2>2, <2>3 DEF Next, nand_part, nand_partEnds, ReadMbrs,
        BackupAndAnnounce, Answer, Verify
<1> QED BY <1>1, Invariance, PTL DEF Spec, SwitchOnce
=============================================================================
