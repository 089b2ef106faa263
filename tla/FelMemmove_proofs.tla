-------------------------- MODULE FelMemmove_proofs --------------------------
(***************************************************************************)
(* fel_memmove() copies exactly what it is asked to, for memories of any   *)
(* size and all addresses and sizes, the byte behind a short head apart.   *)
(* The inductive invariant says, for each direction, how the pointers      *)
(* depend on the number of bytes moved so far, and that exactly these      *)
(* bytes have been moved; the bytes about to be read are then not among    *)
(* them, because of the direction that fel_memmove() has chosen.           *)
(***************************************************************************)
EXTENDS FelMemmove, TLAPS

\* Exactly the bytes from l to h - 1 have been moved.
Moved(l, h) ==
    \A a \in Addr : mem[a] = IF dst + l <= a /\ a < dst + h THEN src + (a - dst) ELSE a

\* Upwards: r0 - dst bytes have been moved.
UpInv ==
    pc \in UpLabels =>
        /\ size > 0
        /\ dst < src \/ dst >= src + size
        /\ dst <= r0 /\ r0 <= dst + size
        /\ r1 = src + (r0 - dst)
        /\ r2 = size - (r0 - dst)
        /\ Moved(0, r0 - dst)
        /\ pc # "copyup_tail" => (dst - src) % 4 = 0
        /\ pc = "copyup_head" => \A k \in Nat : src + k < r1 => (src + k) % 4 # 0
        /\ pc = "copyup_loop" => r1 % 4 = 0

\* Downwards: the bytes from dst + r2 on have been moved.
DownInv ==
    pc \in DownLabels =>
        /\ dst >= src
        /\ r0 = dst
        /\ r1 = src
        /\ Moved(r2, size)
        /\ pc # "copydn_tail" => (dst - src) % 4 = 0
        /\ pc = "copydn_loop" => (src + r2) % 4 = 0

IdleInv == pc = "idle" => mem = [a \in Addr |-> a]

IInv == TypeOK /\ IdleInv /\ UpInv /\ DownInv /\ MoveExact

LEMMA AddrIs == \A a : a \in Addr <=> a \in Int /\ 0 <= a /\ a <= MaxAddr
BY MaxAddrAssumption DEF Addr

\* What TypeOK says, as inequalities.
LEMMA Ranges ==
    ASSUME TypeOK
    PROVE  /\ MaxAddr \in Int
           /\ dst \in Int /\ 0 <= dst
           /\ src \in Int /\ 0 <= src
           /\ size \in Int /\ 0 <= size
           /\ dst + size <= MaxAddr /\ src + size <= MaxAddr
           /\ r0 \in Int /\ r1 \in Int /\ r2 \in Int
           /\ r2 <= size
           /\ pc # "done" => r2 >= 0
<1>1. MaxAddr \in Int /\ dst \in Int /\ src \in Int /\ size \in Int
  BY MaxAddrAssumption, AddrIs DEF TypeOK
<1>2. 0 <= dst /\ 0 <= src /\ 0 <= size
  BY AddrIs DEF TypeOK
<1>3. r0 \in Int /\ r1 \in Int /\ r2 \in Int /\ r2 <= size
  BY <1>1 DEF TypeOK
<1> QED BY <1>1, <1>2, <1>3 DEF TypeOK

LEMMA InitIInv == Init => IInv
<1> SUFFICES ASSUME Init PROVE IInv
  OBVIOUS
<1>1. mem \in [Addr -> Addr]
  BY DEF Init
<1>2. TypeOK
  BY <1>1, MaxAddrAssumption, AddrIs DEF Init, TypeOK
<1> QED BY <1>2 DEF Init, IInv, IdleInv, UpInv, DownInv, MoveExact, UpLabels, DownLabels

\* A move of n bytes: the bytes at b are still the ones of the source.
LEMMA CopyMoves ==
    ASSUME TypeOK, UNCHANGED <<dst, src, size>>,
           NEW a \in Int, NEW b \in Int, NEW n \in Nat, NEW l \in Int, NEW h \in Int,
           dst <= a, a + n <= MaxAddr + 1, src <= b, b + n <= MaxAddr + 1,
           b - src = a - dst,
           CopyBytes(a, b, n),
           Moved(l, h)
    PROVE  /\ mem' \in [Addr -> Addr]
           /\ \A x \in Addr : ~(a <= x /\ x < a + n) => mem'[x] = mem[x]
           /\ \A x \in Addr :
                 a <= x /\ x < a + n /\ ~(dst + l <= b + (x - a) /\ b + (x - a) < dst + h)
                    => mem'[x] = src + (x - dst)
<1>1. MaxAddr \in Int /\ dst \in Int /\ src \in Int /\ 0 <= dst /\ 0 <= src
  BY Ranges
<1>2. mem' = [x \in Addr |-> IF x \in a .. (a + n - 1) THEN mem[b + (x - a)] ELSE mem[x]]
  BY DEF CopyBytes
<1>3. mem \in [Addr -> Addr]
  BY DEF TypeOK
<1>4. ASSUME NEW x \in Addr
      PROVE  x \in a .. (a + n - 1) <=> a <= x /\ x < a + n
  BY AddrIs
<1>5. ASSUME NEW x \in Addr, a <= x, x < a + n
      PROVE  b + (x - a) \in Addr
  BY <1>1, <1>5, AddrIs
<1>6. mem' \in [Addr -> Addr]
  BY <1>2, <1>3, <1>4, <1>5
<1>7. ASSUME NEW x \in Addr, ~(a <= x /\ x < a + n) PROVE mem'[x] = mem[x]
  BY <1>2, <1>4, <1>7
<1>8. ASSUME NEW x \in Addr, a <= x, x < a + n,
             ~(dst + l <= b + (x - a) /\ b + (x - a) < dst + h)
      PROVE  mem'[x] = src + (x - dst)
  <2>1. mem'[x] = mem[b + (x - a)]
    BY <1>2, <1>4, <1>8
  <2>2. mem[b + (x - a)] = b + (x - a)
    BY <1>5, <1>8 DEF Moved
  <2>3. x \in Int
    BY AddrIs
  <2> QED BY <1>1, <2>1, <2>2, <2>3
<1> QED BY <1>6, <1>7, <1>8

LEMMA CommandStep == IInv /\ Command => IInv'
<1> SUFFICES ASSUME IInv, Command PROVE IInv'
  OBVIOUS
<1> USE MaxAddrAssumption
<1>1. PICK d \in Addr, s \in Addr, n \in Addr :
          d + n <= MaxAddr /\ s + n <= MaxAddr /\ fel_memmove(d, s, n)
  BY DEF Command
<1>2. /\ d \in Int /\ s \in Int /\ n \in Int /\ MaxAddr \in Int
      /\ 0 <= d /\ 0 <= s /\ 0 <= n
  BY AddrIs
<1>3. /\ dst' = d /\ src' = s /\ size' = n /\ r0' = d /\ r1' = s /\ r2' = n
      /\ mem' = [a \in Addr |-> a]
  BY <1>1 DEF fel_memmove, IInv, IdleInv
<1>4. IF n = 0 THEN pc' = "done" ELSE Start(~Overlaps(d, s, n))
  BY <1>1 DEF fel_memmove
<1>5. pc' \in UpLabels \cup DownLabels \cup {"done"}
  BY <1>4 DEF Start, UpLabels, DownLabels
<1>6. TypeOK'
  BY <1>1, <1>2, <1>3, <1>5 DEF TypeOK
<1>7. IdleInv'
  BY <1>5 DEF IdleInv, UpLabels, DownLabels
<1>8. Moved(0, 0)' /\ Moved(n, n)'
  BY <1>2, <1>3, AddrIs DEF Moved
<1>9. UpInv'
  <2> SUFFICES ASSUME pc' \in UpLabels PROVE UpInv'
    BY DEF UpInv
  <2>1. n # 0 /\ ~Overlaps(d, s, n) /\ pc' # "copyup_loop"
        /\ (pc' # "copyup_tail" => (d - s) % 4 = 0)
    BY <1>3, <1>4 DEF Start, UpLabels
  <2> QED BY <1>2, <1>3, <1>8, <2>1 DEF UpInv, Overlaps
<1>10. DownInv'
  <2> SUFFICES ASSUME pc' \in DownLabels PROVE DownInv'
    BY DEF DownInv
  <2>1. Overlaps(d, s, n) /\ pc' # "copydn_loop"
        /\ (pc' # "copydn_tail" => (d - s) % 4 = 0)
    BY <1>3, <1>4 DEF Start, DownLabels
  <2> QED BY <1>2, <1>3, <1>8, <2>1 DEF DownInv, Overlaps
<1>11. MoveExact'
  <2> SUFFICES ASSUME pc' = "done" PROVE MoveExact'
    BY DEF MoveExact
  <2>1. n = 0
    BY <1>4 DEF Start
  <2>2. d .. (d + n - 1) = {}
    BY <2>1, <1>2
  <2> QED BY <1>3, <2>2 DEF MoveExact, Wanted
<1> QED BY <1>6, <1>7, <1>9, <1>10, <1>11 DEF IInv

\* Upward steps that go on: n bytes were moved and the pointers advanced.
LEMMA UpMove ==
    ASSUME IInv, pc \in UpLabels, NEW n \in Nat, n <= r2, CopyBytes(r0, r1, n),
           UNCHANGED <<dst, src, size>>
    PROVE  /\ mem' \in [Addr -> Addr]
           /\ \A a \in Addr :
                 mem'[a] = IF dst <= a /\ a < r0 + n THEN src + (a - dst) ELSE a
<1>1. /\ MaxAddr \in Int /\ dst \in Int /\ src \in Int /\ size \in Int
      /\ 0 <= dst /\ 0 <= src
      /\ dst + size <= MaxAddr /\ src + size <= MaxAddr
      /\ r0 \in Int /\ r1 \in Int /\ r2 \in Int
  BY Ranges DEF IInv
<1>2. /\ dst < src \/ dst >= src + size
      /\ dst <= r0 /\ r0 <= dst + size
      /\ r1 = src + (r0 - dst)
      /\ r2 = size - (r0 - dst)
      /\ Moved(0, r0 - dst)
  BY DEF IInv, UpInv
<1>3. /\ mem' \in [Addr -> Addr]
      /\ \A x \in Addr : ~(r0 <= x /\ x < r0 + n) => mem'[x] = mem[x]
      /\ \A x \in Addr :
            r0 <= x /\ x < r0 + n /\ ~(dst + 0 <= r1 + (x - r0) /\ r1 + (x - r0) < dst + (r0 - dst))
               => mem'[x] = src + (x - dst)
  <2>1. r0 + n <= MaxAddr + 1 /\ r1 + n <= MaxAddr + 1 /\ src <= r1 /\ r1 - src = r0 - dst
    BY <1>1, <1>2
  <2>2. TypeOK /\ r0 - dst \in Int
    BY <1>1 DEF IInv
  <2> HIDE DEF Moved
  <2> QED BY <1>1, <1>2, <2>1, <2>2, CopyMoves
<1>4. ASSUME NEW a \in Addr
      PROVE  mem'[a] = IF dst <= a /\ a < r0 + n THEN src + (a - dst) ELSE a
  <2>1. a \in Int
    BY AddrIs
  <2>2. CASE r0 <= a /\ a < r0 + n
    BY <1>1, <1>2, <1>3, <2>1, <2>2
  <2>3. CASE ~(r0 <= a /\ a < r0 + n)
    <3>1. mem'[a] = mem[a]
      BY <1>3, <2>3
    <3>2. mem[a] = IF dst + 0 <= a /\ a < dst + (r0 - dst) THEN src + (a - dst) ELSE a
      BY <1>2 DEF Moved
    <3> QED BY <1>1, <1>2, <2>1, <2>3, <3>1, <3>2
  <2> QED BY <2>2, <2>3
<1> QED BY <1>3, <1>4

\* A step upwards of n bytes, from a place where as many are left.
LEMMA UpStep ==
    ASSUME IInv, pc \in UpLabels, NEW n \in {1, 4}, n <= r2, CopyBytes(r0, r1, n),
           r0' = r0 + n, r1' = r1 + n, r2' = r2 - n,
           UNCHANGED <<dst, src, size, pc>>,
           pc = "copyup_loop" => n = 4,
           pc = "copyup_head" => n = 1 /\ r1 % 4 # 0
    PROVE  IInv'
<1>1. /\ MaxAddr \in Int /\ dst \in Int /\ src \in Int /\ size \in Int
      /\ 0 <= dst /\ 0 <= src /\ 0 <= size
      /\ dst + size <= MaxAddr /\ src + size <= MaxAddr
      /\ r0 \in Int /\ r1 \in Int /\ r2 \in Int
  BY Ranges DEF IInv
<1>2. /\ size > 0
      /\ dst < src \/ dst >= src + size
      /\ dst <= r0 /\ r0 <= dst + size
      /\ r1 = src + (r0 - dst)
      /\ r2 = size - (r0 - dst)
      /\ pc # "copyup_tail" => (dst - src) % 4 = 0
  BY DEF IInv, UpInv
<1>3. pc = "copyup_head" => \A k \in Nat : src + k < r1 => (src + k) % 4 # 0
  BY DEF IInv, UpInv
<1>4. pc = "copyup_loop" => r1 % 4 = 0
  BY DEF IInv, UpInv
<1>5. n \in Nat
  OBVIOUS
<1>6. /\ mem' \in [Addr -> Addr]
      /\ \A a \in Addr : mem'[a] = IF dst <= a /\ a < r0 + n THEN src + (a - dst) ELSE a
  BY <1>5, UpMove
<1>7. Moved(0, r0 - dst)'
  BY <1>1, <1>6, AddrIs DEF Moved
<1>8. pc = "copyup_head" => \A k \in Nat : src + k < r1' => (src + k) % 4 # 0
  <2> SUFFICES ASSUME pc = "copyup_head", NEW k \in Nat, src + k < r1 + 1
               PROVE  (src + k) % 4 # 0
    OBVIOUS
  <2>1. CASE src + k < r1
    BY <1>3, <2>1
  <2>2. CASE src + k = r1
    BY <2>2
  <2> QED BY <1>1, <2>1, <2>2
<1>9. pc = "copyup_loop" => r1' % 4 = 0
  BY <1>1, <1>4
<1>10. UpInv'
  BY <1>1, <1>2, <1>7, <1>8, <1>9 DEF UpInv
<1>11. TypeOK'
  <2>1. pc' \in UpLabels \cup DownLabels \cup {"idle", "done"}
    OBVIOUS
  <2>2. r0' \in 0 .. (MaxAddr + 1) /\ r1' \in 0 .. (MaxAddr + 1) /\ r2' \in -1 .. size /\ r2' >= 0
    BY <1>1, <1>2
  <2> QED BY <1>6, <2>1, <2>2 DEF IInv, TypeOK
<1>12. pc # "done" /\ pc # "idle" /\ pc \notin DownLabels
  BY DEF UpLabels, DownLabels
<1> QED BY <1>10, <1>11, <1>12 DEF IInv, IdleInv, DownInv, MoveExact

\* Steps that only change the label.
LEMMA Relabel ==
    ASSUME IInv, UNCHANGED <<dst, src, size, r0, r1, r2, mem>>,
           \/ pc = "copyup_head" /\ r1 % 4 = 0 /\ pc' = "copyup_loop"
           \/ pc = "copyup_loop" /\ pc' = "copyup_tail"
           \/ pc = "copydn_head" /\ (r1 + r2) % 4 = 0 /\ pc' = "copydn_loop"
           \/ pc = "copydn_loop" /\ pc' = "copydn_tail"
    PROVE  IInv'
<1>1. TypeOK'
  BY DEF IInv, TypeOK, UpLabels, DownLabels
<1>2. UpInv'
  BY DEF IInv, UpInv, UpLabels, DownLabels, Moved
<1>3. DownInv'
  BY DEF IInv, DownInv, UpLabels, DownLabels, Moved
<1> QED BY <1>1, <1>2, <1>3 DEF IInv, IdleInv, MoveExact

\* The head moves one more byte when none is left, and returns.
LEMMA HeadReturns ==
    ASSUME IInv, pc = "copyup_head", r1 % 4 # 0, r2 = 0, UpByte, pc' = "done",
           UNCHANGED <<dst, src, size>>
    PROVE  IInv'
<1>1. /\ MaxAddr \in Int /\ dst \in Int /\ src \in Int /\ size \in Int
      /\ 0 <= dst /\ 0 <= src /\ 0 <= size
      /\ dst + size <= MaxAddr /\ src + size <= MaxAddr
      /\ r0 \in Int /\ r1 \in Int /\ r2 \in Int
  BY Ranges DEF IInv
<1>2. /\ size > 0
      /\ dst < src \/ dst >= src + size
      /\ dst <= r0 /\ r0 <= dst + size
      /\ r1 = src + (r0 - dst)
      /\ r2 = size - (r0 - dst)
      /\ Moved(0, r0 - dst)
      /\ (dst - src) % 4 = 0
  BY DEF IInv, UpInv, UpLabels
<1>3. \A k \in Nat : src + k < r1 => (src + k) % 4 # 0
  BY DEF IInv, UpInv, UpLabels
<1>4. r0 = dst + size /\ r1 = src + size
  BY <1>1, <1>2
<1>5. CopyBytes(r0, r1, 1) /\ r0' = r0 + 1 /\ r1' = r1 + 1 /\ r2' = r2 - 1
  BY DEF UpByte
<1>6. /\ mem' \in [Addr -> Addr]
      /\ \A x \in Addr : ~(r0 <= x /\ x < r0 + 1) => mem'[x] = mem[x]
  <2>1. TypeOK /\ r0 - dst \in Int /\ 1 \in Nat /\ 0 \in Int
    BY <1>1 DEF IInv
  <2>2. /\ dst <= r0 /\ r0 + 1 <= MaxAddr + 1 /\ src <= r1 /\ r1 + 1 <= MaxAddr + 1
        /\ r1 - src = r0 - dst
    BY <1>1, <1>4
  <2> QED BY <1>1, <1>2, <1>5, <2>1, <2>2, CopyMoves
<1>7. TypeOK'
  <2>1. r0' \in 0 .. (MaxAddr + 1) /\ r1' \in 0 .. (MaxAddr + 1) /\ r2' \in -1 .. size
    BY <1>1, <1>4, <1>5
  <2> QED BY <1>6, <2>1 DEF IInv, TypeOK
<1>8. ShortHead'
  <2>1. ASSUME NEW k \in 0..size PROVE (src + k) % 4 # 0
    <3>1. CASE k < size
      BY <1>1, <1>3, <1>4, <3>1
    <3>2. CASE k = size
      BY <1>4, <3>2
    <3> QED BY <1>1, <3>1, <3>2
  <2>2. ~Overlaps(dst, src, size)
    BY <1>1, <1>2 DEF Overlaps
  <2> QED BY <1>2, <2>1, <2>2 DEF ShortHead
<1>9. ASSUME NEW a \in Addr, a # dst + size PROVE mem'[a] = Wanted(a)'
  <2>1. a \in Int
    BY AddrIs
  <2>2. mem'[a] = mem[a]
    BY <1>1, <1>4, <1>6, <1>9, <2>1
  <2>3. mem[a] = IF dst + 0 <= a /\ a < dst + (r0 - dst) THEN src + (a - dst) ELSE a
    BY <1>2 DEF Moved
  <2>4. a \in dst .. (dst + size - 1) <=> dst <= a /\ a < dst + size
    BY <1>1, <2>1
  <2> QED BY <1>1, <1>4, <2>1, <2>2, <2>3, <2>4 DEF Wanted
<1>10. MoveExact'
  BY <1>2, <1>8, <1>9 DEF MoveExact
<1> QED BY <1>7, <1>10 DEF IInv, IdleInv, UpInv, DownInv, UpLabels, DownLabels

\* A tail, or a downward head, that finds nothing left returns.
LEMMA Returns ==
    ASSUME IInv, r2 = 0, r2' = -1, pc' = "done",
           UNCHANGED <<dst, src, size, r0, r1, mem>>,
           pc \in DownLabels \cup {"copyup_tail"}
    PROVE  IInv'
<1>1. /\ MaxAddr \in Int /\ dst \in Int /\ src \in Int /\ size \in Int
      /\ 0 <= dst /\ 0 <= src /\ 0 <= size /\ r0 \in Int
  BY Ranges DEF IInv
<1>2. TypeOK'
  BY <1>1 DEF IInv, TypeOK
<1>3. Moved(0, size)
  <2>1. CASE pc \in DownLabels
    BY <2>1 DEF IInv, DownInv, Moved
  <2>2. CASE pc = "copyup_tail"
    <3>1. r0 - dst = size /\ Moved(0, r0 - dst)
      BY <1>1, <2>2 DEF IInv, UpInv, UpLabels
    <3> QED BY <3>1 DEF Moved
  <2> QED BY <2>1, <2>2
<1>4. \A a \in Addr : mem[a] = IF a \in dst .. (dst + size - 1) THEN src + (a - dst) ELSE a
  <2> TAKE a \in Addr
  <2>1. a \in Int
    BY AddrIs
  <2>2. a \in dst .. (dst + size - 1) <=> dst <= a /\ a < dst + size
    BY <1>1, <2>1
  <2>3. mem[a] = IF dst + 0 <= a /\ a < dst + size THEN src + (a - dst) ELSE a
    BY <1>3 DEF Moved
  <2> QED BY <1>1, <2>1, <2>2, <2>3
<1>5. MoveExact'
  BY <1>4 DEF MoveExact, Wanted
<1> QED BY <1>2, <1>5 DEF IInv, IdleInv, UpInv, DownInv, UpLabels, DownLabels

\* A step downwards of n bytes, from a place where as many are left.
LEMMA DownStep ==
    ASSUME IInv, pc \in DownLabels, NEW n \in {1, 4}, n <= r2, DownBytes(n),
           UNCHANGED <<dst, src, size, r0, r1, pc>>,
           pc = "copydn_loop" => n = 4
    PROVE  IInv'
<1>1. /\ MaxAddr \in Int /\ dst \in Int /\ src \in Int /\ size \in Int
      /\ 0 <= dst /\ 0 <= src /\ 0 <= size
      /\ dst + size <= MaxAddr /\ src + size <= MaxAddr
      /\ r2 \in Int /\ r2 <= size
  BY Ranges DEF IInv
<1>2. /\ dst >= src /\ r0 = dst /\ r1 = src
      /\ Moved(r2, size)
      /\ pc # "copydn_tail" => (dst - src) % 4 = 0
      /\ pc = "copydn_loop" => (src + r2) % 4 = 0
  BY DEF IInv, DownInv
<1>3. n \in Nat /\ n > 0 /\ r2' = r2 - n /\ r2' \in Int /\ 0 <= r2' /\ r2' <= size
  BY <1>1 DEF DownBytes
<1>4. CopyBytes(dst + r2', src + r2', n)
  BY <1>1, <1>2, <1>3 DEF DownBytes
<1> DEFINE p == dst + r2'
           q == src + r2'
<1>5. /\ mem' \in [Addr -> Addr]
      /\ \A x \in Addr : ~(p <= x /\ x < p + n) => mem'[x] = mem[x]
      /\ \A x \in Addr :
            p <= x /\ x < p + n /\ ~(dst + r2 <= q + (x - p) /\ q + (x - p) < dst + size)
               => mem'[x] = src + (x - dst)
  <2>1. TypeOK /\ p \in Int /\ q \in Int
    BY <1>1, <1>3 DEF IInv
  <2>2. dst <= p /\ p + n <= MaxAddr + 1 /\ src <= q /\ q + n <= MaxAddr + 1 /\ q - src = p - dst
    BY <1>1, <1>3
  <2>3. CopyBytes(p, q, n)
    BY <1>4
  <2> HIDE DEF p, q
  <2> QED BY <1>1, <1>2, <1>3, <2>1, <2>2, <2>3, CopyMoves
<1>6. ASSUME NEW a \in Addr
      PROVE  mem'[a] = IF dst + r2' <= a /\ a < dst + size THEN src + (a - dst) ELSE a
  <2>1. a \in Int
    BY AddrIs
  <2>2. CASE dst + r2' <= a /\ a < (dst + r2') + n
    BY <1>1, <1>2, <1>3, <1>5, <2>1, <2>2
  <2>3. CASE ~(dst + r2' <= a /\ a < (dst + r2') + n)
    <3>1. mem'[a] = mem[a]
      BY <1>5, <2>3
    <3>2. mem[a] = IF dst + r2 <= a /\ a < dst + size THEN src + (a - dst) ELSE a
      BY <1>2 DEF Moved
    <3> QED BY <1>1, <1>3, <2>1, <2>3, <3>1, <3>2
  <2> QED BY <2>2, <2>3
<1>7. Moved(r2, size)'
  BY <1>6 DEF Moved
<1>8. pc = "copydn_loop" => (src + r2') % 4 = 0
  BY <1>1, <1>2, <1>3
<1>9. DownInv'
  BY <1>2, <1>7, <1>8 DEF DownInv
<1>10. TypeOK'
  <2>1. r2' \in -1 .. size
    BY <1>1, <1>3
  <2> QED BY <1>3, <1>5, <2>1 DEF IInv, TypeOK
<1>11. pc # "done" /\ pc # "idle" /\ pc \notin UpLabels
  BY DEF UpLabels, DownLabels
<1> QED BY <1>9, <1>10, <1>11 DEF IInv, IdleInv, UpInv, MoveExact

LEMMA ArmStepIInv == IInv /\ ArmStep => IInv'
<1> SUFFICES ASSUME IInv, ArmStep PROVE IInv'
  OBVIOUS
<1>1. r2 \in Int /\ (pc # "done" => r2 >= 0)
  BY Ranges DEF IInv
<1>2. CASE copyup_head
  <2>1. pc = "copyup_head" /\ pc \in UpLabels /\ UNCHANGED <<dst, src, size>>
    BY <1>2 DEF copyup_head, UpLabels
  <2>2. CASE r1 % 4 = 0
    <3>1. pc' = "copyup_loop" /\ UNCHANGED <<dst, src, size, r0, r1, r2, mem>>
      BY <1>2, <2>2 DEF copyup_head
    <3> QED BY <2>1, <2>2, <3>1, Relabel
  <2>3. CASE r1 % 4 # 0
    <3>1. /\ CopyBytes(r0, r1, 1) /\ UpByte
          /\ r0' = r0 + 1 /\ r1' = r1 + 1 /\ r2' = r2 - 1
          /\ pc' = IF r2' >= 0 THEN "copyup_head" ELSE "done"
      BY <1>2, <2>3 DEF copyup_head, UpByte
    <3>2. CASE r2 = 0
      BY <2>1, <2>3, <3>1, <3>2, HeadReturns
    <3>3. CASE r2 >= 1
      <4>1. pc' = pc
        BY <1>1, <2>1, <3>1, <3>3
      <4> QED BY <1>1, <2>1, <2>3, <3>1, <3>3, <4>1, UpStep
    <3> QED BY <1>1, <2>1, <3>2, <3>3
  <2> QED BY <2>2, <2>3
<1>3. CASE copyup_loop
  <2>1. pc = "copyup_loop" /\ pc \in UpLabels /\ UNCHANGED <<dst, src, size>>
    BY <1>3 DEF copyup_loop, UpLabels
  <2>2. CASE r2 - 4 >= 0
    <3>1. /\ CopyBytes(r0, r1, 4) /\ pc' = pc
          /\ r0' = r0 + 4 /\ r1' = r1 + 4 /\ r2' = r2 - 4
      BY <1>3, <2>2 DEF copyup_loop
    <3>2. 4 <= r2
      BY <1>1, <2>2
    <3> QED BY <2>1, <3>1, <3>2, UpStep
  <2>3. CASE ~(r2 - 4 >= 0)
    <3>1. pc' = "copyup_tail" /\ UNCHANGED <<dst, src, size, r0, r1, r2, mem>>
      BY <1>3, <2>3 DEF copyup_loop
    <3> QED BY <2>1, <3>1, Relabel
  <2> QED BY <2>2, <2>3
<1>4. CASE copyup_tail
  <2>1. pc = "copyup_tail" /\ pc \in UpLabels /\ UNCHANGED <<dst, src, size>>
    BY <1>4 DEF copyup_tail, UpLabels
  <2>2. CASE r2 - 1 >= 0
    <3>1. /\ CopyBytes(r0, r1, 1) /\ pc' = pc
          /\ r0' = r0 + 1 /\ r1' = r1 + 1 /\ r2' = r2 - 1
      BY <1>4, <2>2 DEF copyup_tail, UpByte
    <3>2. 1 <= r2
      BY <1>1, <2>2
    <3> QED BY <2>1, <3>1, <3>2, UpStep
  <2>3. CASE ~(r2 - 1 >= 0)
    <3>1. pc' = "done" /\ r2' = r2 - 1 /\ UNCHANGED <<dst, src, size, r0, r1, mem>>
      BY <1>4, <2>3 DEF copyup_tail
    <3>2. r2 = 0 /\ r2' = -1
      BY <1>1, <2>1, <2>3, <3>1
    <3> QED BY <2>1, <3>1, <3>2, Returns
  <2> QED BY <2>2, <2>3
<1>5. CASE copydn_head
  <2>1. pc = "copydn_head" /\ pc \in DownLabels /\ UNCHANGED <<dst, src, size, r0, r1>>
    BY <1>5 DEF copydn_head, DownLabels
  <2>2. CASE AtBoundary
    <3>1. pc' = "copydn_loop" /\ UNCHANGED <<dst, src, size, r0, r1, r2, mem>>
      BY <1>5, <2>2 DEF copydn_head
    <3> QED BY <2>1, <2>2, <3>1, Relabel DEF AtBoundary
  <2>3. CASE ~AtBoundary
    <3>1. DownBytes(1) /\ r2' = r2 - 1 /\ pc' = IF r2' >= 0 THEN "copydn_head" ELSE "done"
      BY <1>5, <2>3 DEF copydn_head, DownBytes
    <3>2. CASE r2 = 0
      <4>1. r2' = -1 /\ pc' = "done" /\ mem' = mem
        BY <3>1, <3>2 DEF DownBytes
      <4> QED BY <2>1, <3>2, <4>1, Returns
    <3>3. CASE r2 >= 1
      <4>1. pc' = pc
        BY <1>1, <2>1, <3>1, <3>3
      <4> QED BY <1>1, <2>1, <3>1, <3>3, <4>1, DownStep
    <3> QED BY <1>1, <2>1, <3>2, <3>3
  <2> QED BY <2>2, <2>3
<1>6. CASE copydn_loop
  <2>1. pc = "copydn_loop" /\ pc \in DownLabels /\ UNCHANGED <<dst, src, size, r0, r1>>
    BY <1>6 DEF copydn_loop, DownLabels
  <2>2. CASE r2 - 4 >= 0
    <3>1. DownBytes(4) /\ pc' = pc /\ 4 <= r2
      BY <1>1, <1>6, <2>2 DEF copydn_loop
    <3> QED BY <2>1, <3>1, DownStep
  <2>3. CASE ~(r2 - 4 >= 0)
    <3>1. pc' = "copydn_tail" /\ UNCHANGED <<dst, src, size, r0, r1, r2, mem>>
      BY <1>6, <2>3 DEF copydn_loop
    <3> QED BY <2>1, <3>1, Relabel
  <2> QED BY <2>2, <2>3
<1>7. CASE copydn_tail
  <2>1. pc = "copydn_tail" /\ pc \in DownLabels /\ UNCHANGED <<dst, src, size, r0, r1>>
    BY <1>7 DEF copydn_tail, DownLabels
  <2>2. DownBytes(1) /\ r2' = r2 - 1 /\ pc' = IF r2' >= 0 THEN "copydn_tail" ELSE "done"
    BY <1>7 DEF copydn_tail, DownBytes
  <2>3. CASE r2 = 0
    <3>1. r2' = -1 /\ pc' = "done" /\ mem' = mem
      BY <2>2, <2>3 DEF DownBytes
    <3> QED BY <2>1, <2>3, <3>1, Returns
  <2>4. CASE r2 >= 1
    <3>1. pc' = pc
      BY <1>1, <2>1, <2>2, <2>4
    <3> QED BY <1>1, <2>1, <2>2, <2>4, <3>1, DownStep
  <2> QED BY <1>1, <2>1, <2>3, <2>4
<1> QED BY <1>2, <1>3, <1>4, <1>5, <1>6, <1>7 DEF ArmStep

LEMMA NextIInv == IInv /\ [Next]_vars => IInv'
<1> SUFFICES ASSUME IInv, [Next]_vars PROVE IInv'
  OBVIOUS
<1>1. CASE UNCHANGED vars
  BY <1>1 DEF vars, IInv, TypeOK, IdleInv, UpInv, DownInv, MoveExact, ShortHead, Wanted, Moved
<1>2. CASE Next
  BY <1>2, CommandStep, ArmStepIInv DEF Next
<1> QED BY <1>1, <1>2

\* The invariant holds in every reachable state of fel_memmove().
THEOREM Invariance == Spec => []IInv
BY InitIInv, NextIInv, PTL DEF Spec

\* Registers, sizes and memory keep their ranges, for memories of any size.
THEOREM TypeCorrect == Spec => []TypeOK
BY Invariance, PTL DEF IInv

\* fel_memmove() copies exactly the bytes it is asked to copy, whatever the
\* overlap and the alignment, the byte behind a short head apart.
THEOREM MoveIsExact == Spec => []MoveExact
BY Invariance, PTL DEF IInv

\* The word accesses of both pieces of code are aligned.
THEOREM WordsAreAligned == Spec => []WordsAligned
<1>1. IInv => WordsAligned
  <2> SUFFICES ASSUME IInv PROVE WordsAligned
    OBVIOUS
  <2>1. dst \in Int /\ src \in Int /\ size \in Int /\ r0 \in Int /\ r1 \in Int /\ r2 \in Int
    BY Ranges DEF IInv
  <2>2. pc = "copyup_loop" => r0 % 4 = 0 /\ r1 % 4 = 0
    BY <2>1 DEF IInv, UpInv, UpLabels
  <2>3. pc = "copydn_loop" => (r0 + r2) % 4 = 0 /\ (r1 + r2) % 4 = 0
    BY <2>1 DEF IInv, DownInv, DownLabels
  <2> QED BY <2>2, <2>3 DEF WordsAligned
<1> QED BY <1>1, Invariance, PTL

=============================================================================
