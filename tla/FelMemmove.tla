----------------------------- MODULE FelMemmove -----------------------------
(***************************************************************************)
(* fel_memmove() of fel_lib.c and the two pieces of ARM code it uploads.   *)
(* fel_memcpy_up() copies towards higher addresses and advances both       *)
(* pointers; fel_memcpy_down() indexes both regions by the bytes that are  *)
(* left.  Each moves bytes until it reaches a word boundary ("head"), then *)
(* words ("loop"), then the bytes that are left ("tail").                  *)
(*                                                                         *)
(* A byte of memory is named by the address at which it was before the     *)
(* call.  The scratch area that holds the code is not part of Addr.        *)
(***************************************************************************)
EXTENDS Integers

CONSTANT MaxAddr   \* device memory that is copied from and to: 0..MaxAddr

ASSUME MaxAddrAssumption == MaxAddr \in Nat

Addr == 0..MaxAddr

VARIABLES
    pc,     \* label the ARM code is at
    dst,    \* dst_addr
    src,    \* src_addr
    size,   \* size, at most 2^31 - 1
    r0,     \* destination pointer
    r1,     \* source pointer
    r2,     \* bytes left; negative for a moment
    mem     \* device memory

vars == <<pc, dst, src, size, r0, r1, r2, mem>>

UpLabels == {"copyup_head", "copyup_loop", "copyup_tail"}
DownLabels == {"copydn_head", "copydn_loop", "copydn_tail"}

\* ldr and str, or ldrb and strb: n bytes go from b to a.
CopyBytes(a, b, n) ==
    mem' = [x \in Addr |-> IF x \in a .. (a + n - 1) THEN mem[b + (x - a)] ELSE mem[x]]

-----------------------------------------------------------------------------
(* The host.                                                               *)

\* Mutant: the direction is chosen the wrong way round.
OverlapsNot(d, s, n) == d < s

\* The destination starts inside the source.
Overlaps(d, s, n) == d >= s /\ d < s + n

\* The code starts: words are only moved if both pointers agree modulo 4.
Start(up) ==
    pc' = IF (dst' - src') % 4 # 0 THEN IF up THEN "copyup_tail" ELSE "copydn_tail"
                                   ELSE IF up THEN "copyup_head" ELSE "copydn_head"

\* fel_memcpy_up() and fel_memcpy_down() return at once if there is nothing to do.
fel_memmove(d, s, n) ==
    /\ pc = "idle"
    /\ dst' = d /\ src' = s /\ size' = n
    /\ r0' = d /\ r1' = s /\ r2' = n
    /\ IF n = 0 THEN pc' = "done" ELSE Start(~Overlaps(d, s, n))
    /\ UNCHANGED mem

-----------------------------------------------------------------------------
(* fel_memcpy_up()                                                         *)

UpByte ==
    /\ CopyBytes(r0, r1, 1)
    /\ r0' = r0 + 1 /\ r1' = r1 + 1 /\ r2' = r2 - 1

\* "bpl copyup_head" looks at r2 after the byte was moved.
copyup_head ==
    /\ pc = "copyup_head"
    /\ IF r1 % 4 = 0
       THEN pc' = "copyup_loop" /\ UNCHANGED <<r0, r1, r2, mem>>
       ELSE /\ UpByte
            /\ pc' = IF r2' >= 0 THEN "copyup_head" ELSE "done"
    /\ UNCHANGED <<dst, src, size>>

\* r2 is decremented first, and put right when the loop ends.
copyup_loop ==
    /\ pc = "copyup_loop"
    /\ IF r2 - 4 >= 0
       THEN /\ CopyBytes(r0, r1, 4)
            /\ r0' = r0 + 4 /\ r1' = r1 + 4 /\ r2' = r2 - 4
            /\ UNCHANGED pc
       ELSE pc' = "copyup_tail" /\ UNCHANGED <<r0, r1, r2, mem>>
    /\ UNCHANGED <<dst, src, size>>

copyup_tail ==
    /\ pc = "copyup_tail"
    /\ IF r2 - 1 >= 0
       THEN UpByte /\ UNCHANGED pc
       ELSE pc' = "done" /\ r2' = r2 - 1 /\ UNCHANGED <<r0, r1, mem>>
    /\ UNCHANGED <<dst, src, size>>

-----------------------------------------------------------------------------
(* fel_memcpy_down()                                                       *)

\* r2 - n is the index of the n bytes that are moved.
DownBytes(n) ==
    /\ r2' = r2 - n
    /\ IF r2' >= 0 THEN CopyBytes(r0 + r2', r1 + r2', n) ELSE UNCHANGED mem

\* Mutant: the start of the source is looked at, not its end.
AtBoundaryStart == r1 % 4 = 0

\* The end of what is left is a word boundary.
AtBoundary == (r1 + r2) % 4 = 0

copydn_head ==
    /\ pc = "copydn_head"
    /\ IF AtBoundary
       THEN pc' = "copydn_loop" /\ UNCHANGED <<r2, mem>>
       ELSE /\ DownBytes(1)
            /\ pc' = IF r2' >= 0 THEN "copydn_head" ELSE "done"
    /\ UNCHANGED <<dst, src, size, r0, r1>>

copydn_loop ==
    /\ pc = "copydn_loop"
    /\ IF r2 - 4 >= 0
       THEN DownBytes(4) /\ UNCHANGED pc
       ELSE pc' = "copydn_tail" /\ UNCHANGED <<r2, mem>>
    /\ UNCHANGED <<dst, src, size, r0, r1>>

\* Mutant: the byte count is never decremented.
copydn_tail_stuck ==
    /\ pc = "copydn_tail"
    /\ IF r2 - 1 >= 0
       THEN CopyBytes(r0 + r2 - 1, r1 + r2 - 1, 1) /\ UNCHANGED <<r2, pc>>
       ELSE pc' = "done" /\ UNCHANGED <<r2, mem>>
    /\ UNCHANGED <<dst, src, size, r0, r1>>

copydn_tail ==
    /\ pc = "copydn_tail"
    /\ DownBytes(1)
    /\ pc' = IF r2' >= 0 THEN "copydn_tail" ELSE "done"
    /\ UNCHANGED <<dst, src, size, r0, r1>>

-----------------------------------------------------------------------------

Init ==
    /\ pc = "idle"
    /\ dst = 0 /\ src = 0 /\ size = 0
    /\ r0 = 0 /\ r1 = 0 /\ r2 = 0
    /\ mem = [a \in Addr |-> a]

\* Both regions lie in memory, with at least one more byte behind each.
Command ==
    \E d, s, n \in Addr : d + n <= MaxAddr /\ s + n <= MaxAddr /\ fel_memmove(d, s, n)

ArmStep ==
    \/ copyup_head \/ copyup_loop \/ copyup_tail
    \/ copydn_head \/ copydn_loop \/ copydn_tail

Next == Command \/ ArmStep

\* The CPU goes on as long as there is an instruction to execute.
Spec == Init /\ [][Next]_vars /\ WF_vars(ArmStep)

-----------------------------------------------------------------------------
(* Properties.                                                             *)

\* Every label, register and byte of memory is in range; the byte count is
\* negative only when the code has returned.
TypeOK ==
    /\ pc \in UpLabels \cup DownLabels \cup {"idle", "done"}
    /\ dst \in Addr /\ src \in Addr /\ size \in Addr
    /\ dst + size <= MaxAddr /\ src + size <= MaxAddr
    /\ r0 \in 0 .. (MaxAddr + 1) /\ r1 \in 0 .. (MaxAddr + 1)
    /\ r2 \in -1 .. size
    /\ pc # "done" => r2 >= 0
    /\ mem \in [Addr -> Addr]

\* What memory holds at a after a correct copy.
Wanted(a) == IF a \in dst .. (dst + size - 1) THEN src + (a - dst) ELSE a

\* Both pointers agree modulo 4, and the source does not reach a word boundary
\* before or at its end.
ShortHead ==
    /\ (dst - src) % 4 = 0
    /\ ~Overlaps(dst, src, size)
    /\ \A k \in 0..size : (src + k) % 4 # 0

\* The copy is exact, however the regions overlap and whatever their alignment:
\* no source byte is overwritten before it is read, nothing else is written.
\* The one exception is the byte behind a copy that ends within its head
\* (fel_memmove(), fel_memcpy_up(), fel_memcpy_down()).
MoveExact ==
    pc = "done" =>
        \A a \in Addr : (ShortHead /\ size > 0 /\ a = dst + size) \/ mem[a] = Wanted(a)

\* Word accesses are aligned, at both ends: the comment above fel_memcpy_up()
\* is about hardware registers, and the code may run with the MMU off.
WordsAligned ==
    /\ pc = "copyup_loop" => r0 % 4 = 0 /\ r1 % 4 = 0
    /\ pc = "copydn_loop" => (r0 + r2) % 4 = 0 /\ (r1 + r2) % 4 = 0

\* Every copy ends.
CopyReturns == pc \in UpLabels \cup DownLabels ~> pc = "done"

\* What "sunxi-fel --help" promises: "Copy <size> bytes within device memory",
\* and so no others.
CopiesSizeBytes == pc = "done" => \A a \in Addr : mem[a] = Wanted(a)

=============================================================================
