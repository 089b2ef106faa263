--------------------------- MODULE FelCmd_proofs ---------------------------
(***************************************************************************)
(* Proofs about sunxi-fel: the device it talks to, the image it starts,    *)
(* the guard of U-Boot and the progress of an upload, for any number of    *)
(* ports and boards, any files and images, and any command line.           *)
(***************************************************************************)
EXTENDS FelCmd, SequenceTheorems, WellFoundedInduction, TLAPS

-----------------------------------------------------------------------------
(* The least and the greatest of some numbers. *)

LEMMA LeastElement ==
    ASSUME NEW T \in SUBSET Nat, T # {}
    PROVE  \E n \in T : \A m \in T : n <= m
<1> DEFINE Less == {ss \in Nat \X Nat : ss[1] < ss[2]}
<1>1. IsWellFoundedOn(Less, Nat)
  <2>1. OpToRel(<, Nat) = Less
    BY DEF OpToRel
  <2> QED BY <2>1, NatLessThanWellFounded
<1> HIDE DEF Less
<1>2. PICK x \in T : \A y \in T : <<y, x>> \notin Less
  BY <1>1, WFMin
<1>3. ASSUME NEW y \in T PROVE x <= y
  <2>1. x \in Nat /\ y \in Nat
    OBVIOUS
  <2>2. ~(<<y, x>>[1] < <<y, x>>[2])
    BY <1>2, <2>1 DEF Less
  <2> QED BY <2>1, <2>2
<1> QED BY <1>3

LEMMA MinIs ==
    ASSUME NEW T \in SUBSET Nat, T # {}
    PROVE  Min(T) \in T /\ \A y \in T : Min(T) <= y
<1>1. \E x \in T : \A y \in T : x <= y
  BY LeastElement
<1> QED BY <1>1 DEF Min

LEMMA MaxIs ==
    ASSUME NEW n \in Nat, NEW T \in SUBSET (1..n), T # {}
    PROVE  Max(T) \in T /\ \A y \in T : Max(T) >= y
<1> DEFINE D == {n - y : y \in T}
<1>1. D \in SUBSET Nat /\ D # {}
  OBVIOUS
<1>2. PICK d \in D : \A e \in D : d <= e
  BY <1>1, LeastElement
<1>3. PICK x \in T : d = n - x
  OBVIOUS
<1>4. ASSUME NEW y \in T PROVE x >= y
  <2>1. d <= n - y
    BY <1>2
  <2> QED BY <1>3, <2>1
<1>5. \E z \in T : \A y \in T : z >= y
  BY <1>4
<1> QED BY <1>5 DEF Max

-----------------------------------------------------------------------------
(* Sum() adds the numbers of a sequence one by one. *)

SumFun(f, s, n) == f = [i \in 0..n |-> IF i = 0 THEN 0 ELSE f[i - 1] + s[i]]

LEMMA SumExists ==
    ASSUME NEW s, NEW n \in Nat
    PROVE  \E f : SumFun(f, s, n)
<1> DEFINE P(m) == \E f : SumFun(f, s, m)
           T == {m \in Nat : ~P(m)}
<1>1. P(0)
  <2> DEFINE f == [i \in 0..0 |-> 0]
  <2>1. SumFun(f, s, 0)
    BY DEF SumFun
  <2> QED BY <2>1
<1>2. ASSUME NEW m \in Nat, P(m) PROVE P(m + 1)
  <2>1. PICK f : SumFun(f, s, m)
    BY <1>2
  <2> DEFINE g == [i \in 0..(m + 1) |-> IF i = 0 THEN 0 ELSE f[i - 1] + s[i]]
  <2>2. \A i \in 0..m : g[i] = f[i]
    BY <2>1 DEF SumFun
  <2>3. \A i \in 0..(m + 1) : i # 0 => i - 1 \in 0..m
    OBVIOUS
  <2>4. SumFun(g, s, m + 1)
    BY <2>2, <2>3 DEF SumFun
  <2> QED BY <2>4
<1> HIDE DEF P
<1>3. T = {}
  <2> SUFFICES ASSUME T # {} PROVE FALSE
    OBVIOUS
  <2>1. T \in SUBSET Nat
    OBVIOUS
  <2>2. PICK m \in T : \A k \in T : m <= k
    BY <2>1, LeastElement
  <2>3. m \in Nat /\ ~P(m)
    OBVIOUS
  <2>4. m # 0
    BY <1>1, <2>3
  <2>5. m - 1 \in Nat /\ m - 1 \notin T
    BY <2>2, <2>3, <2>4
  <2>6. P(m - 1)
    BY <2>5
  <2>7. P((m - 1) + 1)
    BY <1>2, <2>5, <2>6
  <2>8. (m - 1) + 1 = m
    BY <2>3
  <2> QED BY <2>3, <2>7, <2>8
<1>4. P(n)
  BY <1>3
<1> QED BY <1>4 DEF P

LEMMA SumIs ==
    ASSUME NEW s \in Seq(Nat)
    PROVE  \E f \in [0..Len(s) -> Nat] :
              /\ f[0] = 0
              /\ \A i \in 1..Len(s) : f[i] = f[i - 1] + s[i]
              /\ \A i \in 0..Len(s) : f[i] <= Sum(s)
              /\ Sum(s) = f[Len(s)]
<1> DEFINE n == Len(s)
           sum == CHOOSE f : SumFun(f, s, n)
<1>1. n \in Nat /\ s \in [1..n -> Nat]
  OBVIOUS
<1>2. SumFun(sum, s, n)
  <2>1. \E f : SumFun(f, s, n)
    BY <1>1, SumExists
  <2> QED BY <2>1
<1>3. Sum(s) = sum[n]
  BY DEF Sum, SumFun
<1> HIDE DEF sum, n
<1>4. sum[0] = 0
  BY <1>1, <1>2 DEF SumFun
<1>5. \A i \in 1..n : sum[i] = sum[i - 1] + s[i]
  BY <1>1, <1>2 DEF SumFun
<1> DEFINE T == {i \in 0..n : sum[i] \notin Nat}
<1>6. T = {}
  <2> SUFFICES ASSUME T # {} PROVE FALSE
    OBVIOUS
  <2>1. T \in SUBSET Nat
    BY <1>1
  <2>2. PICK m \in T : \A k \in T : m <= k
    BY <2>1, LeastElement
  <2>3. m \in 1..n /\ sum[m] \notin Nat
    BY <1>1, <1>4
  <2>4. m - 1 \in 0..n /\ m - 1 \notin T
    BY <1>1, <2>2, <2>3
  <2>5. sum[m - 1] \in Nat /\ s[m] \in Nat
    BY <1>1, <2>3, <2>4
  <2> QED BY <1>5, <2>3, <2>5
<1>7. sum = [i \in 0..n |-> sum[i]]
  BY <1>2 DEF SumFun
<1>8. sum \in [0..n -> Nat]
  BY <1>6, <1>7
<1> DEFINE B == {k \in 0..n : ~(sum[n - k] <= sum[n])}
<1>9. B = {}
  <2> SUFFICES ASSUME B # {} PROVE FALSE
    OBVIOUS
  <2>1. B \in SUBSET Nat
    BY <1>1
  <2>2. PICK m \in B : \A k \in B : m <= k
    BY <2>1, LeastElement
  <2>3. m \in 0..n /\ ~(sum[n - m] <= sum[n])
    OBVIOUS
  <2>4. m # 0
    BY <1>1, <1>8, <2>3
  <2>5. m - 1 \in 0..n /\ m - 1 \notin B
    <3>1. m - 1 \in 0..n /\ ~(m <= m - 1)
      BY <1>1, <2>3, <2>4
    <3> HIDE DEF B
    <3> QED BY <2>2, <3>1
  <2>6. sum[n - (m - 1)] <= sum[n]
    BY <2>5
  <2>7. n - (m - 1) \in 1..n /\ (n - (m - 1)) - 1 = n - m /\ n - m \in 0..n
    BY <1>1, <2>3, <2>4
  <2>8. sum[n - (m - 1)] = sum[n - m] + s[n - (m - 1)]
    BY <1>5, <2>7
  <2>9. /\ sum[n - m] \in Nat /\ sum[n] \in Nat /\ sum[n - (m - 1)] \in Nat
        /\ s[n - (m - 1)] \in Nat
    BY <1>1, <1>8, <2>7
  <2> QED BY <2>3, <2>6, <2>8, <2>9
<1>10. ASSUME NEW i \in 0..n PROVE sum[i] <= sum[n]
  <2>1. n - i \in 0..n /\ n - (n - i) = i
    BY <1>1
  <2>2. n - i \notin B
    BY <1>9
  <2> QED BY <2>1, <2>2
<1> QED BY <1>3, <1>4, <1>5, <1>8, <1>10 DEF n

-----------------------------------------------------------------------------
(* load_fit_images() loads one image after the other. *)

LoadFun(f, fit, names, n) ==
    f = [i \in 0..n |-> IF i = 0 THEN NothingLoaded
                        ELSE LoadNamed(fit, f[i - 1], names[i])]

LEMMA LoadExists ==
    ASSUME NEW fit, NEW names, NEW n \in Nat
    PROVE  \E f : LoadFun(f, fit, names, n)
<1> DEFINE P(m) == \E f : LoadFun(f, fit, names, m)
           T == {m \in Nat : ~P(m)}
<1>1. P(0)
  <2> DEFINE f == [i \in 0..0 |-> NothingLoaded]
  <2>1. LoadFun(f, fit, names, 0)
    BY DEF LoadFun
  <2> QED BY <2>1
<1>2. ASSUME NEW m \in Nat, P(m) PROVE P(m + 1)
  <2>1. PICK f : LoadFun(f, fit, names, m)
    BY <1>2
  <2> DEFINE g == [i \in 0..(m + 1) |-> IF i = 0 THEN NothingLoaded
                                        ELSE LoadNamed(fit, f[i - 1], names[i])]
  <2>2. \A i \in 0..m : g[i] = f[i]
    BY <2>1 DEF LoadFun
  <2>3. \A i \in 0..(m + 1) : i # 0 => i - 1 \in 0..m
    OBVIOUS
  <2>4. LoadFun(g, fit, names, m + 1)
    BY <2>2, <2>3 DEF LoadFun
  <2> QED BY <2>4
<1> HIDE DEF P
<1>3. T = {}
  <2> SUFFICES ASSUME T # {} PROVE FALSE
    OBVIOUS
  <2>1. T \in SUBSET Nat
    OBVIOUS
  <2>2. PICK m \in T : \A k \in T : m <= k
    BY <2>1, LeastElement
  <2>3. m \in Nat /\ ~P(m)
    OBVIOUS
  <2>4. m # 0
    BY <1>1, <2>3
  <2>5. m - 1 \in Nat /\ m - 1 \notin T
    BY <2>2, <2>3, <2>4
  <2>6. P(m - 1)
    BY <2>5
  <2>7. P((m - 1) + 1)
    BY <1>2, <2>5, <2>6
  <2>8. (m - 1) + 1 = m
    BY <2>3
  <2> QED BY <2>3, <2>7, <2>8
<1>4. P(n)
  BY <1>3
<1> QED BY <1>4 DEF P

LEMMA LoadIs ==
    ASSUME NEW fit, NEW names \in Seq(STRING)
    PROVE  \E f : /\ f[0] = NothingLoaded
                  /\ \A i \in 1..Len(names) :
                        f[i] = LoadNamed(fit, f[i - 1], names[i])
                  /\ LoadAll(fit, names) = f[Len(names)]
<1> DEFINE n == Len(names)
           st == CHOOSE f : LoadFun(f, fit, names, n)
<1>1. n \in Nat
  OBVIOUS
<1>2. LoadFun(st, fit, names, n)
  <2>1. \E f : LoadFun(f, fit, names, n)
    BY <1>1, LoadExists
  <2> QED BY <2>1
<1>3. LoadAll(fit, names) = st[n]
  BY DEF LoadAll, LoadFun
<1> HIDE DEF st, n
<1>4. st[0] = NothingLoaded
  BY <1>1, <1>2 DEF LoadFun
<1>5. \A i \in 1..n : st[i] = LoadNamed(fit, st[i - 1], names[i])
  BY <1>1, <1>2 DEF LoadFun
<1> QED BY <1>3, <1>4, <1>5 DEF n

\* What is known of an image of the list that can be used.
LEMMA UsableIs ==
    ASSUME NEW fit, fit.images \in [DOMAIN fit.images -> Images],
           NEW names \in Seq(STRING), NEW i \in 1..Len(names)
    PROVE  /\ i \in DOMAIN Usable(fit, names) <=> Valid(fit, names[i])
           /\ Valid(fit, names[i]) =>
                 /\ Usable(fit, names)[i] = fit_get_image_info(fit, names[i])
                 /\ Usable(fit, names)[i].entry = fit.images[names[i]].entry
                 /\ Usable(fit, names)[i].load = fit.images[names[i]].load
                 /\ Usable(fit, names)[i].data = fit.images[names[i]].data
                 /\ Usable(fit, names)[i].entry \in {NoProp} \cup Nat
                 /\ Usable(fit, names)[i].load \in {NoProp} \cup Nat
                 /\ Usable(fit, names)[i].data \in Seq(Cell)
<1>1. i \in DOMAIN Usable(fit, names) <=> Valid(fit, names[i])
  BY DEF Usable
<1>2. ASSUME Valid(fit, names[i])
      PROVE  Usable(fit, names)[i] = fit_get_image_info(fit, names[i])
  BY <1>2 DEF Usable
<1>3. ASSUME Valid(fit, names[i])
      PROVE  fit.images[names[i]] \in Images
  BY <1>3 DEF Valid
<1>4. ASSUME NEW img \in Images, NEW o, NEW a
      PROVE  LET g == [img EXCEPT !.os = o, !.arch = a]
             IN  /\ g.entry = img.entry /\ g.load = img.load /\ g.data = img.data
                 /\ img.entry \in {NoProp} \cup Nat
                 /\ img.load \in {NoProp} \cup Nat
                 /\ img.data \in Seq(Cell)
  BY DEF Images
<1>5. ASSUME Valid(fit, names[i])
      PROVE  LET img == fit.images[names[i]]
                 g   == fit_get_image_info(fit, names[i])
             IN  /\ g.entry = img.entry /\ g.load = img.load /\ g.data = img.data
                 /\ img.entry \in {NoProp} \cup Nat
                 /\ img.load \in {NoProp} \cup Nat
                 /\ img.data \in Seq(Cell)
  <2> DEFINE img == fit.images[names[i]]
             o == fit_parse_os(img.os)
             a == fit_parse_arch(img.arch)
  <2>1. fit_get_image_info(fit, names[i]) = [img EXCEPT !.os = o, !.arch = a]
    BY DEF fit_get_image_info
  <2>2. img \in Images
    BY <1>3, <1>5
  <2> HIDE DEF img, o, a
  <2>3. LET g == [img EXCEPT !.os = o, !.arch = a]
        IN  /\ g.entry = img.entry /\ g.load = img.load /\ g.data = img.data
            /\ img.entry \in {NoProp} \cup Nat
            /\ img.load \in {NoProp} \cup Nat
            /\ img.data \in Seq(Cell)
    BY <2>2, <1>4
  <2> QED BY <2>1, <2>3 DEF img
<1> QED BY <1>1, <1>2, <1>5

\* x is what f holds at the last of the first i places that are in S, or none.
LastOf(x, none, f, S, i) ==
    \/ x = none /\ \A k \in S : k > i
    \/ \E j \in S : /\ j <= i /\ x = f[j]
                    /\ \A k \in S : k <= j \/ k > i

LEMMA LastStep ==
    ASSUME NEW x, NEW y, NEW none, NEW f, NEW n \in Nat,
           NEW S \in SUBSET (1..n), NEW i \in 1..n,
           LastOf(x, none, f, S, i - 1),
           i \in S => y = f[i], i \notin S => y = x
    PROVE  LastOf(y, none, f, S, i)
<1>1. CASE i \in S
  <2>1. \A k \in S : k <= i \/ k > i
    OBVIOUS
  <2>2. i <= i
    OBVIOUS
  <2> QED BY <1>1, <2>1, <2>2 DEF LastOf
<1>2. CASE i \notin S
  <2>1. \A k \in S : k > i - 1 => k > i
    BY <1>2
  <2>2. \A j \in S : j <= i - 1 => j <= i
    OBVIOUS
  <2> QED BY <1>2, <2>1, <2>2 DEF LastOf
<1> QED BY <1>1, <1>2

LEMMA LastIs ==
    ASSUME NEW x, NEW none, NEW f, NEW n \in Nat, NEW S \in SUBSET (1..n),
           LastOf(x, none, f, S, n)
    PROVE  x = IF S = {} THEN none ELSE f[Max(S)]
<1>1. CASE S = {}
  BY <1>1 DEF LastOf
<1>2. CASE S # {}
  <2>1. Max(S) \in S /\ \A y \in S : Max(S) >= y
    BY <1>2, MaxIs
  <2>2. \A k \in S : ~(k > n) /\ k \in Int
    OBVIOUS
  <2>3. PICK j \in S : x = f[j] /\ \A k \in S : k <= j
    BY <1>2, <2>2 DEF LastOf
  <2> DEFINE m == Max(S)
  <2>4. m \in Int /\ j \in Int /\ m <= j /\ m >= j
    BY <2>1, <2>2, <2>3
  <2> HIDE DEF m
  <2>5. m = j
    BY <2>4
  <2> QED BY <1>2, <2>3, <2>5 DEF m
<1> QED BY <1>1, <1>2

\* The places of the images that set the entry point, and the mode.
Starting(imgs) == {i \in DOMAIN imgs : imgs[i].entry > 0}
Ruling(imgs) == {i \in DOMAIN imgs : imgs[i].entry # NoProp}

EntryAfter(st, imgs, i) ==
    /\ LastOf(st.entry, 0, [k \in DOMAIN imgs |-> imgs[k].entry], Starting(imgs), i)
    /\ LastOf(st.arch, "invalid", [k \in DOMAIN imgs |-> imgs[k].arch],
              Ruling(imgs), i)

LEMMA EntryStep ==
    ASSUME NEW fit, fit.images \in [DOMAIN fit.images -> Images],
           NEW names \in Seq(STRING), NEW i \in 1..Len(names), NEW st,
           EntryAfter(st, Usable(fit, names), i - 1)
    PROVE  EntryAfter(LoadNamed(fit, st, names[i]), Usable(fit, names), i)
<1> DEFINE imgs == Usable(fit, names)
           new == LoadNamed(fit, st, names[i])
           n == Len(names)
           S == Starting(imgs)
           R == Ruling(imgs)
           e == [k \in DOMAIN imgs |-> imgs[k].entry]
           a == [k \in DOMAIN imgs |-> imgs[k].arch]
           zero == 0
           none == "invalid"
<1>1. n \in Nat /\ i \in 1..n
  OBVIOUS
<1>2. DOMAIN imgs \subseteq 1..n
  BY DEF Usable
<1>3. S \in SUBSET (1..n) /\ R \in SUBSET (1..n)
  BY <1>2 DEF Starting, Ruling
<1>4. /\ LastOf(st.entry, zero, e, S, i - 1)
      /\ LastOf(st.arch, none, a, R, i - 1)
  BY DEF EntryAfter
<1>5. /\ i \in S => new.entry = e[i]
      /\ i \notin S => new.entry = st.entry
      /\ i \in R => new.arch = a[i]
      /\ i \notin R => new.arch = st.arch
  <2>1. CASE ~Valid(fit, names[i])
    <3>1. i \notin DOMAIN imgs /\ new = st
      BY <2>1, UsableIs DEF LoadNamed
    <3> QED BY <3>1 DEF Starting, Ruling
  <2>2. CASE Valid(fit, names[i])
    <3> DEFINE img == fit_get_image_info(fit, names[i])
    <3>1. i \in DOMAIN imgs /\ imgs[i] = img /\ img.entry \in {NoProp} \cup Nat
      BY <2>2, UsableIs
    <3>2. new = fit_load_image(st, img)
      BY <2>2 DEF LoadNamed
    <3> HIDE DEF imgs, img, new
    <3>3. /\ new.entry = IF img.entry \notin {NoProp, 0} THEN img.entry ELSE st.entry
          /\ new.arch = IF img.entry # NoProp THEN img.arch ELSE st.arch
      BY <3>2 DEF fit_load_image
    <3>4. /\ i \in S <=> img.entry > 0
          /\ i \in R <=> img.entry # NoProp
          /\ e[i] = img.entry /\ a[i] = img.arch
      BY <3>1 DEF Starting, Ruling
    <3>5. img.entry \notin {NoProp, 0} <=> img.entry > 0
      BY <3>1 DEF NoProp
    <3> QED BY <3>3, <3>4, <3>5
  <2> QED BY <2>1, <2>2
<1> DEFINE x1 == st.entry
           y1 == new.entry
           x2 == st.arch
           y2 == new.arch
<1> HIDE DEF S, R, e, a, zero, none, n, x1, y1, x2, y2
<1>6. /\ n \in Nat /\ S \in SUBSET (1..n) /\ i \in 1..n
      /\ LastOf(x1, zero, e, S, i - 1)
      /\ i \in S => y1 = e[i]
      /\ i \notin S => y1 = x1
  BY <1>1, <1>3, <1>4, <1>5 DEF x1, y1
<1>7. LastOf(y1, zero, e, S, i)
  BY ONLY <1>6, LastStep
<1>8. /\ n \in Nat /\ R \in SUBSET (1..n) /\ i \in 1..n
      /\ LastOf(x2, none, a, R, i - 1)
      /\ i \in R => y2 = a[i]
      /\ i \notin R => y2 = x2
  BY <1>1, <1>3, <1>4, <1>5 DEF x2, y2
<1>9. LastOf(y2, none, a, R, i)
  BY ONLY <1>8, LastStep
<1> QED BY <1>7, <1>9 DEF EntryAfter, S, R, e, a, zero, none, y1, y2

\* The entry point and the mode that a list of images leaves behind.
LEMMA EntryIs ==
    ASSUME NEW fit, fit.images \in [DOMAIN fit.images -> Images],
           NEW names \in Seq(STRING)
    PROVE  LET imgs == Usable(fit, names)
               st   == LoadAll(fit, names)
               e    == Entered(imgs)
               m    == Moded(imgs)
           IN  /\ st.entry = IF e = 0 THEN 0 ELSE imgs[e].entry
               /\ st.entry \in Nat
               /\ (st.arch = "arm64") = (m # 0 /\ imgs[m].arch = "arm64")
<1> DEFINE imgs == Usable(fit, names)
           n == Len(names)
           st == LoadAll(fit, names)
           S == Starting(imgs)
           R == Ruling(imgs)
           ef == [k \in DOMAIN imgs |-> imgs[k].entry]
           af == [k \in DOMAIN imgs |-> imgs[k].arch]
           zero == 0
           none == "invalid"
           e == Entered(imgs)
           m == Moded(imgs)
<1>1. n \in Nat
  OBVIOUS
<1>2. PICK f : /\ f[0] = NothingLoaded
               /\ \A i \in 1..n : f[i] = LoadNamed(fit, f[i - 1], names[i])
               /\ st = f[n]
  BY LoadIs
<1>6. DOMAIN imgs \subseteq 1..n
  BY DEF Usable
<1>11. S \in SUBSET (1..n) /\ R \in SUBSET (1..n)
  BY <1>6 DEF Starting, Ruling
<1> DEFINE T == {i \in 0..n : ~EntryAfter(f[i], imgs, i)}
<1>3. EntryAfter(f[0], imgs, 0)
  <2>1. NothingLoaded.entry = 0 /\ NothingLoaded.arch = "invalid"
    BY DEF NothingLoaded
  <2>2. (\A k \in S : k > 0) /\ (\A k \in R : k > 0)
    BY <1>1, <1>11
  <2> HIDE DEF imgs
  <2> QED BY <1>2, <2>1, <2>2 DEF EntryAfter, LastOf
<1>4. T = {}
  <2> SUFFICES ASSUME T # {} PROVE FALSE
    OBVIOUS
  <2>1. T \in SUBSET Nat
    BY <1>1
  <2>2. PICK j \in T : \A k \in T : j <= k
    BY <2>1, LeastElement
  <2>3. j \in 1..n /\ ~EntryAfter(f[j], imgs, j)
    BY <1>1, <1>3
  <2>4. j - 1 \in 0..n /\ j - 1 \notin T
    BY <1>1, <2>2, <2>3
  <2>5. EntryAfter(f[j - 1], imgs, j - 1)
    BY <2>4
  <2>6. EntryAfter(LoadNamed(fit, f[j - 1], names[j]), imgs, j)
    BY <2>3, <2>5, EntryStep
  <2> QED BY <1>2, <2>3, <2>6
<1>5. EntryAfter(st, imgs, n)
  BY <1>1, <1>2, <1>4
<1>7. \A k \in DOMAIN imgs : imgs[k].entry \in {NoProp} \cup Nat
  BY <1>6, UsableIs
<1>8. /\ e = IF S = {} THEN 0 ELSE Max(S)
      /\ m = IF R = {} THEN 0 ELSE Max(R)
  BY DEF Entered, Moded, Starting, Ruling
<1>9. /\ LastOf(st.entry, zero, ef, S, n)
      /\ LastOf(st.arch, none, af, R, n)
  BY <1>5 DEF EntryAfter
<1>12. /\ \A k \in S : ef[k] = imgs[k].entry /\ imgs[k].entry \in Nat
       /\ \A k \in R : af[k] = imgs[k].arch
  BY <1>7 DEF Starting, Ruling, NoProp
<1> DEFINE x1 == st.entry
           x2 == st.arch
<1> HIDE DEF imgs, n, st, e, m, S, R, ef, af, zero, none, x1, x2
<1>13. n \in Nat /\ S \in SUBSET (1..n) /\ LastOf(x1, zero, ef, S, n)
  BY <1>1, <1>9, <1>11 DEF x1
<1>14. x1 = IF S = {} THEN zero ELSE ef[Max(S)]
  BY ONLY <1>13, LastIs
<1>15. n \in Nat /\ R \in SUBSET (1..n) /\ LastOf(x2, none, af, R, n)
  BY <1>1, <1>9, <1>11 DEF x2
<1>16. x2 = IF R = {} THEN none ELSE af[Max(R)]
  BY ONLY <1>15, LastIs
<1>21. (\A k \in S : k # 0) /\ (\A k \in R : k # 0)
  BY <1>1, <1>11
<1>17. S # {} => Max(S) \in S /\ Max(S) # 0
  <2>1. S # {} => Max(S) \in S
    BY <1>1, <1>11, MaxIs
  <2> QED BY <1>21, <2>1
<1>18. R # {} => Max(R) \in R /\ Max(R) # 0
  <2>1. R # {} => Max(R) \in R
    BY <1>1, <1>11, MaxIs
  <2> QED BY <1>21, <2>1
<1>19. st.entry = (IF e = 0 THEN 0 ELSE imgs[e].entry) /\ st.entry \in Nat
  BY <1>8, <1>12, <1>14, <1>17 DEF x1, zero
<1>20. (st.arch = "arm64") = (m # 0 /\ imgs[m].arch = "arm64")
  <2>1. CASE R = {}
    BY <1>8, <1>16, <2>1 DEF x2, none
  <2>2. CASE R # {}
    BY <1>8, <1>12, <1>16, <1>18, <2>2 DEF x2
  <2> QED BY <2>1, <2>2
<1> QED BY <1>19, <1>20 DEF imgs, st, e, m

-----------------------------------------------------------------------------
(***************************************************************************)
(* The steps of the command loop, one branch at a time.                    *)
(***************************************************************************)
Halts == /\ pc \notin Exited /\ pc' \in {"exit 1", "crashed"}
         /\ UNCHANGED <<args, devVars, cmdVars>>

Filled(name, n) ==
    /\ Command(name, n - 1) /\ Len(args) # n
    /\ ~(strtoul(args[3]) > 0 /\ Overlaps(strtoul(args[2]), strtoul(args[3])))
    /\ mem' = Overlay(mem, strtoul(args[2]), Ones(name, strtoul(args[3])))
    /\ Took(n + 1, n + 1) /\ fresh' = FALSE
    /\ UNCHANGED <<pc, files, loose, uboot_autostart, started,
                   imageVars, splVars, meterVars, otherVars>>

ReadDone ==
    /\ Command("read", 3)
    /\ save_file(args[4], [i \in 1..strtoul(args[3]) |->
                              At(strtoul(args[2]) + i - 1)])
    /\ Took(4, 4) /\ fresh' = FALSE
    /\ UNCHANGED <<pc, mem, loose, uboot_autostart, started, imageVars,
                   splVars, meterVars, otherVars>>

FlashReadDone ==
    /\ Command("spiflash-read", 3)
    /\ save_file(args[4], Ones(IF Board[handle].spi THEN "flash" ELSE "junk",
                               strtoul(args[3])))
    /\ IF Board[handle].spi THEN UNCHANGED <<spl, bootinfo>>
                            ELSE spl' = 0 /\ bootinfo' = NoInfo
    /\ SpiProgress(strtoul(args[3])) /\ Took(4, 4) /\ fresh' = FALSE
    /\ UNCHANGED <<pc, mem, loose, uboot_autostart, started, imageVars,
                   script, heap, otherVars>>

FlashWriteDone ==
    /\ Command("spiflash-write", 2) /\ Exists(args[3])
    /\ SpiProgress(Len(files[FileName(args[3])]))
    /\ heap' = heap \cup {FileName(args[3])}
    /\ Took(3, 3) /\ fresh' = FALSE
    /\ UNCHANGED <<pc, files, mem, loose, uboot_autostart, started,
                   imageVars, spl, bootinfo, script, otherVars>>

UploadStart(count, base, cb) ==
    /\ pc = "loop" /\ Len(args) - base >= 2 * count
    /\ \A i \in 1..count : Exists(args[base + 2 * i])
    /\ progress' = progress_start(cb,
          Sum([i \in 1..count |-> Len(files[FileName(args[base + 2 * i])])]))
    /\ up' = [i |-> 1, count |-> count, base |-> base]
    /\ pc' = "upload" /\ meter' = "files" /\ fresh' = FALSE
    /\ UNCHANGED <<args, log, files, mem, loose, uboot_autostart, started,
                   imageVars, splVars, devVars, fileChanges, givenVars>>

\* The file that is sent next, and where it goes.
Next1 == files[FileName(args[up.base + 2 * up.i])]
Place1 == strtoul(args[up.base + 2 * up.i - 1])

FileSent ==
    /\ pc = "upload" /\ up.i <= up.count
    /\ FileName(args[up.base + 2 * up.i]) \in DOMAIN files
    /\ Next1 # <<>> => ~Overlaps(Place1, Len(Next1))
    /\ mem' = Overlay(mem, Place1, Next1)
    /\ progress' = IF progress.cb
                   THEN [progress EXCEPT !.done = @ + Len(Next1)] ELSE progress
    /\ \/ UNCHANGED <<bootinfo, script>>
       \/ \E len : /\ pass_fel_information(Place1, len)
                   /\ script' = IF have_sunxi_spl THEN <<Place1, len>> ELSE script
    /\ up' = [up EXCEPT !.i = @ + 1]
    /\ UNCHANGED <<pc, args, devVars, files, loose, uboot_autostart, started,
                   imageVars, meter, spl, fileChanges, givenVars, log, fresh>>

\* A legacy image has been written.
LegacyDone(by, img) ==
    /\ SplRun(by) /\ img \in Behind(TheFile)
    /\ img.len > HEADER_SIZE /\ ~IsFit(img) /\ Complete(img)
    /\ LET t    == FileInfo[img.from].tail
           skip == Offset(img.from) + HEADER_SIZE
           data == [i \in 1..t.size |-> <<img.from, skip + i>>]
       IN  /\ mem' = Overlay(mem, t.load, data)
           /\ uboot_entry' = t.load /\ uboot_size' = t.size
           /\ last' = [name |-> img.from, kind |-> "legacy",
                       dt |-> NoName, by |-> by,
                       file |-> Head1(TheFile), len |-> Len(TheFile)]
           /\ fresh' = TRUE
           /\ shot' = [a \in (t.load .. (t.load + t.size - 1)) \cap Addr |->
                          mem'[a]]
           /\ loose' = {}
    /\ SplEffect(by)
    /\ UNCHANGED <<enter_in_aarch64, lastFit, meterVars>>

\* The images of a FIT image have been written.
FitDone(by, img) ==
    /\ SplRun(by) /\ img \in Behind(TheFile) /\ IsFit(img)
    /\ LET fit   == fits[img.from]
           dt    == spl_get_dtb_name(Head1(TheFile))
           st    == load_fit_images(fit, dt)
           known == Configuration(fit, dt) # 0
       IN  /\ mem' = Uploaded(mem, st.uploads)
           /\ uboot_entry' = st.entry /\ uboot_size' = 4
           /\ enter_in_aarch64' = IF known THEN st.arch = "arm64"
                                  ELSE enter_in_aarch64
           /\ progress' = [progress EXCEPT !.done = @ + Moved(st.uploads)]
           /\ meter' = "fit"
           /\ last' = [name |-> img.from, kind |-> "fit", dt |-> dt, by |-> by,
                       file |-> Head1(TheFile), len |-> Len(TheFile)]
           /\ fresh' = TRUE /\ lastFit' = IF known THEN last' ELSE lastFit
           /\ shot' = [a \in Touched(st.uploads) |-> mem'[a]]
           /\ loose' = {}
    /\ SplEffect(by)

Writes == fel_memmove \/ fel_writel \/ aw_fel_execute \/ aw_wd_reset
Begins == write \/ write_with_progress \/ multiwrite

LEMMA CmdCases ==
    ASSUME CmdNext, args \in Seq(Words), opt.p \in BOOLEAN
    PROVE  \/ Halts \/ NoEffects \/ Writes
           \/ Filled("clear", 2) \/ Filled("fill", 3)
           \/ ReadDone \/ FlashReadDone \/ FlashWriteDone
           \/ Begins /\ \E count \in Nat, base \in Nat, cb \in BOOLEAN :
                           UploadStart(count, base, cb)
           \/ FileSent \/ UploadEnd \/ FileChange
           \/ \E by \in {"spl", "uboot"} :
                 \/ SplOnly(by)
                 \/ \E img : LegacyDone(by, img) \/ FitDone(by, img)
           \/ reset64 \/ End
<1>0. pc \notin Exited
  <2>1. CASE NoEffects \/ fel_memmove \/ fel_writel \/ aw_fel_execute \/ aw_wd_reset
             \/ read \/ spiflash_read \/ spiflash_write \/ reset64
    <3>1. \E name, n : Command(name, n)
      BY <2>1 DEF NoEffects, aw_fel_hexdump, fel_readl, aw_fel_print_version,
           aw_fel_print_sid, echo_gauge, aw_fel_spiflash_info, NoEffect,
           fel_memmove, fel_writel, aw_fel_execute, aw_wd_reset, read,
           spiflash_read, spiflash_write, reset64
    <3> QED BY <3>1 DEF Command, Exited
  <2>2. CASE \/ aw_fel_fill("clear", 2) \/ aw_fel_fill("fill", 3)
             \/ write \/ write_with_progress \/ multiwrite
    <3>1. \E name, n : Command(name, n)
      BY <2>2, Zenon DEF aw_fel_fill, write, write_with_progress, multiwrite
    <3> QED BY <3>1 DEF Command, Exited
  <2>3. CASE UploadFile \/ UploadEnd \/ FileChange
    <3>1. pc = "upload"
      BY <2>3, Zenon DEF UploadFile, UploadEnd, FileChange
    <3> QED BY <3>1 DEF Exited
  <2>4. ASSUME NEW by, aw_fel_process_spl_and_uboot(by) PROVE pc \notin Exited
    <3>1. \E n : Command(by, n)
      BY <2>4, Zenon DEF aw_fel_process_spl_and_uboot, SplRefused, SplOnly,
           WriteLegacy, WriteFit, SplRun
    <3> QED BY <3>1 DEF Command, Exited
  <2>5. CASE Invalid \/ UsbError \/ End
    BY <2>5 DEF Invalid, UsbError, End, Exited
  <2> QED BY <2>1, <2>2, <2>3, <2>4, <2>5, Zenon DEF CmdNext
<1>1. ASSUME Fatal PROVE Halts
  BY <1>1, <1>0 DEF Fatal, Exit, Halts
<1>2. ASSUME Crash PROVE Halts
  BY <1>2, <1>0 DEF Crash, Exit, Halts
<1> HIDE DEF Halts
<1>3. ASSUME NEW name, NEW n, aw_fel_fill(name, n) PROVE Halts \/ Filled(name, n)
  BY <1>1, <1>2, <1>3, Zenon DEF aw_fel_fill, Filled
<1>4. ASSUME read PROVE Halts \/ ReadDone
  BY <1>1, <1>4, Zenon DEF read, ReadDone
<1>5. ASSUME spiflash_read PROVE Halts \/ FlashReadDone
  BY <1>1, <1>5, Zenon DEF spiflash_read, FlashReadDone
<1>6. ASSUME spiflash_write PROVE Halts \/ FlashWriteDone
  BY <1>1, <1>6, Zenon DEF spiflash_write, FlashWriteDone
<1>7. ASSUME pc = "loop", NEW count \in Nat, NEW base \in Nat, NEW cb,
             file_upload(count, base, cb)
      PROVE  Halts \/ UploadStart(count, base, cb)
  <2>1. CASE \/ Len(args) - base < 2 * count
             \/ \E i \in 1..count : ~Exists(args[base + 2 * i])
    BY <1>1, <1>7, <2>1, Zenon DEF file_upload
  <2>2. CASE ~(\/ Len(args) - base < 2 * count
               \/ \E i \in 1..count : ~Exists(args[base + 2 * i]))
    <3> DEFINE names == [i \in 1..count |-> FileName(args[base + 2 * i])]
               sizes == [i \in 1..count |-> Len(files[names[i]])]
               S == [i \in 1..count |-> Len(files[FileName(args[base + 2 * i])])]
    <3>1. /\ progress' = progress_start(cb, Sum(sizes))
          /\ up' = [i |-> 1, count |-> count, base |-> base]
          /\ pc' = "upload" /\ meter' = "files" /\ fresh' = FALSE
          /\ UNCHANGED <<args, log, files, mem, loose,
                         uboot_autostart, started, imageVars, splVars,
                         devVars, fileChanges, givenVars>>
      BY <1>7, <2>2, Zenon DEF file_upload
    <3>2. \A i \in 1..count : names[i] = FileName(args[base + 2 * i])
      OBVIOUS
    <3> HIDE DEF names
    <3>3. sizes = S
      BY <3>2
    <3>4. Len(args) - base >= 2 * count
      BY <2>2
    <3> HIDE DEF sizes, S
    <3> QED BY <1>7, <2>2, <3>1, <3>3, <3>4, Zenon DEF UploadStart, S
  <2> QED BY <2>1, <2>2
<1>8. ASSUME Begins
      PROVE  Halts \/ \E count \in Nat, base \in Nat, cb \in BOOLEAN :
                         UploadStart(count, base, cb)
  <2>1. pc = "loop"
    BY <1>8 DEF Begins, write, write_with_progress, multiwrite, Command
  <2>2. CASE write
    <3>1. Halts \/ UploadStart(1, 1, opt.p)
      BY <1>7, <2>1, <2>2 DEF write
    <3> QED BY <3>1
  <2>3. CASE write_with_progress
    <3>1. Halts \/ UploadStart(1, 1, TRUE)
      BY <1>7, <2>1, <2>3 DEF write_with_progress
    <3> QED BY <3>1
  <2>4. CASE multiwrite
    <3>1. Len(args) > 3 /\ file_upload(strtoul(args[2]), 2, TRUE)
      BY <2>4 DEF multiwrite, Command
    <3>2. args[2] \in Words
      BY <3>1
    <3>3. strtoul(args[2]) \in Nat
      BY <3>2 DEF strtoul, Words
    <3>4. Halts \/ UploadStart(strtoul(args[2]), 2, TRUE)
      BY <1>7, <2>1, <3>1, <3>3
    <3> QED BY <3>3, <3>4
  <2> QED BY <1>8, <2>2, <2>3, <2>4 DEF Begins
<1>9. ASSUME UploadFile PROVE Halts \/ FileSent
  BY <1>1, <1>9, Zenon DEF UploadFile, FileSent, Next1, Place1
<1>10. ASSUME NEW by \in {"spl", "uboot"}, aw_fel_process_spl_and_uboot(by)
       PROVE  Halts \/ \E b \in {"spl", "uboot"} :
                 \/ SplOnly(b)
                 \/ \E img : LegacyDone(b, img) \/ FitDone(b, img)
  <2>1. CASE SplRefused(by)
    BY <1>1, <2>1 DEF SplRefused
  <2>2. CASE SplOnly(by)
    BY <2>2, Zenon
  <2>3. CASE WriteLegacy(by)
    BY <1>1, <2>3, Zenon DEF WriteLegacy, LegacyDone
  <2>4. CASE WriteFit(by)
    BY <2>4, Zenon DEF WriteFit, FitDone
  <2> QED BY <1>10, <2>1, <2>2, <2>3, <2>4 DEF aw_fel_process_spl_and_uboot
<1>11. ASSUME Invalid \/ UsbError PROVE Halts
  BY <1>1, <1>11 DEF Invalid, UsbError
<1> QED BY <1>3, <1>4, <1>5, <1>6, <1>8, <1>9, <1>10, <1>11, Zenon DEF CmdNext, Writes, Begins

-----------------------------------------------------------------------------
(***************************************************************************)
(* The inductive invariant.                                                *)
(***************************************************************************)
IsSeq(s) == \E S : s \in Seq(S)

Boards == DOMAIN Board
Opts == [dev : Int, sid : STRING \cup {NoSid}, list : BOOLEAN, socs : BOOLEAN,
         p : BOOLEAN, v : BOOLEAN]
Entries == {<<p, fel_read_sid(b)>> : p \in Ports, b \in Boards}

\* Words are left to read, files have a length, FIT images are well-formed.
Inputs ==
    /\ args \in Seq(Words)
    /\ \A n \in DOMAIN files : IsSeq(files[n])
    /\ \A n \in DOMAIN FileInfo :
          FileInfo[n].tail.type = "flatdt" => IsFitImage(fits[n])

DevTypes ==
    /\ opt \in Opts
    /\ bus \in [Ports -> Boards \cup {NoBoard}]
    /\ busChanges \in Nat /\ listed \in Nat /\ listed <= busChanges
    /\ todo \subseteq Ports
    /\ found \in Seq(Entries)
    /\ handle \in Boards \cup {NoBoard}

\* Only the open board is without its driver.
Drivers ==
    /\ pc \in {"options", "enumerate", "open", "exit 0"} => handle = NoBoard
    /\ pc \in {"loop", "upload"} => handle # NoBoard
    /\ handle = NoBoard /\ pc \notin {"exit 1", "crashed"} => driver = driver0
    /\ handle # NoBoard => /\ driver = driver0 \ {handle}
                           /\ iface_detached = (handle \in driver0)

\* While the bus has not changed, the list tells what is on it.
Listing ==
    /\ pc \in {"options", "enumerate"} => found = <<>>
    /\ pc = "listing" /\ handle # NoBoard =>
          /\ todo # {}
          /\ busChanges = listed => bus[Min(todo)] = handle
    /\ pc = "listing" /\ busChanges = listed =>
          \A i \in DOMAIN found :
             /\ bus[found[i][1]] \in Boards
             /\ found[i][2] = fel_read_sid(bus[found[i][1]])

NoMatch == \A i \in DOMAIN found : found[i][2] # opt.sid

Selected ==
    /\ pc = "open" /\ opt.sid # NoSid /\ busChanges = listed =>
          \/ NoMatch
          \/ /\ opt.dev \in Ports /\ bus[opt.dev] \in Boards
             /\ fel_read_sid(bus[opt.dev]) = opt.sid
    /\ pc \in {"loop", "upload"} /\ opt.sid # NoSid /\ busChanges = listed =>
          NoMatch \/ fel_read_sid(handle) = opt.sid

\* A legacy image lies within the bytes that are guarded; those stay.
Guarded ==
    /\ uboot_entry \in Nat /\ uboot_size \in Nat
    /\ \A a \in DOMAIN shot : a \in Addr /\ (last.kind = "fit" \/ InGuard(a))
    /\ \A a \in DOMAIN shot : InGuard(a) => a \in loose \/ mem[a] = shot[a]

\* f adds up the sizes of the files that the command names.
Sizes(f) ==
    /\ f \in [0..up.count -> Nat] /\ f[0] = 0
    /\ \A i \in 1..up.count :
          f[i] = f[i - 1] + Len(files[FileName(args[up.base + 2 * i])])
    /\ \A i \in 0..up.count : f[i] <= f[up.count]

\* What has been sent is the size of the files before the next one.
Metered ==
    /\ progress = [cb |-> progress.cb, total |-> progress.total,
                   done |-> progress.done]
    /\ pc \in {"options", "enumerate", "listing", "open"} => meter = "none"
    /\ pc = "upload" =>
          /\ up = [i |-> up.i, count |-> up.count, base |-> up.base]
          /\ up.count \in Nat /\ up.base \in Nat /\ up.i \in 1..(up.count + 1)
          /\ up.base + 2 * up.count <= Len(args)
    /\ meter = "files" /\ progress.cb =>
          /\ progress.done \in Nat /\ progress.total \in Nat
          /\ progress.done <= progress.total
          /\ pc \in {"loop", "exit 0"} => progress.done = progress.total
          /\ pc = "upload" =>
                \E f : /\ Sizes(f)
                       /\ progress.total = f[up.count]
                       /\ progress.done = f[up.i - 1]

\* The image loaded last decides where the target is entered, the last FIT
\* image with a configuration decides how.
Loaded ==
    /\ last.kind \in {"none", "legacy", "fit"}
    /\ enter_in_aarch64 \in BOOLEAN /\ uboot_autostart \in BOOLEAN
    /\ enter_in_aarch64 = Aarch64Of(lastFit)
    /\ last.kind = "none" => uboot_size = 0 /\ ~uboot_autostart
    /\ last.kind # "none" =>
          /\ last.name \in DOMAIN FileInfo
          /\ last.kind = "fit" => FileInfo[last.name].tail.type = "flatdt"
          /\ uboot_entry = EntryOf(last)
    /\ uboot_autostart => uboot_entry > 0 \/ last.by = "spl"

Told == spl \in 1..31 /\ script # NoInfo => bootinfo = script

Started ==
    /\ pc \in {"options", "enumerate", "listing", "open"} =>
          uboot_autostart = FALSE
    /\ pc # "exit 0" => started.by # "uboot"
    /\ StartRight

\* What a load has written is in memory until the next command.
Fresh ==
    /\ pc = "upload" => ~fresh
    /\ fresh => last.kind # "none"
    /\ ImageLoaded

IInv ==
    /\ Inputs /\ DevTypes /\ Drivers /\ Listing /\ Selected
    /\ Guarded /\ Metered /\ Loaded /\ Told /\ Started /\ Fresh

-----------------------------------------------------------------------------
(* Sequences. *)

LEMMA IsSeqLen == ASSUME NEW s, IsSeq(s) PROVE Len(s) \in Nat
BY DEF IsSeq

LEMMA BuiltIsSeq ==
    ASSUME NEW n \in Nat, NEW g, g = [i \in 1..n |-> g[i]]
    PROVE  IsSeq(g) /\ Len(g) = n
<1> DEFINE S == {g[i] : i \in 1..n}
<1>1. g \in [1..n -> S]
  OBVIOUS
<1>2. g \in Seq(S) /\ Len(g) = n
  <2> HIDE DEF S
  <2> QED BY <1>1
<1> QED BY <1>2 DEF IsSeq

LEMMA AppendIsSeq == ASSUME NEW s, IsSeq(s), NEW e PROVE IsSeq(Append(s, e))
<1>1. PICK S : s \in Seq(S)
  BY DEF IsSeq
<1>2. s \in Seq(S \cup {e})
  BY <1>1
<1>3. Append(s, e) \in Seq(S \cup {e})
  BY <1>2
<1> QED BY <1>3 DEF IsSeq

LEMMA FrontIsSeq == ASSUME NEW s, IsSeq(s) PROVE IsSeq(Front(s))
<1>1. PICK S : s \in Seq(S)
  BY DEF IsSeq
<1>2. Len(s) \in Nat /\ \A i \in 1..(Len(s) - 1) : s[i] \in S
  BY <1>1
<1>3. SubSeq(s, 1, Len(s) - 1) \in Seq(S)
  BY <1>2, SubSeqProperties
<1> QED BY <1>3 DEF IsSeq, Front

LEMMA RestIsSeq ==
    ASSUME NEW S, NEW s \in Seq(S), NEW k \in Nat \ {0}
    PROVE  SubSeq(s, k, Len(s)) \in Seq(S)
<1>1. Len(s) \in Nat /\ \A i \in k..Len(s) : s[i] \in S
  OBVIOUS
<1> QED BY <1>1, SubSeqProperties

\* What strtoul() makes of a word.
LEMMA strtoulNat ==
    ASSUME args \in Seq(Words), NEW i \in Nat, 0 < i, i <= Len(args)
    PROVE  strtoul(args[i]) \in Nat
<1>1. args[i] \in Words
  OBVIOUS
<1> QED BY <1>1 DEF strtoul, Words

-----------------------------------------------------------------------------
(* Inputs. *)

LEMMA TookSeq ==
    ASSUME args \in Seq(Words), NEW n, NEW skip \in Nat, Took(n, skip)
    PROVE  args' \in Seq(Words)
<1>1. skip + 1 \in Nat \ {0}
  OBVIOUS
<1>2. args' = SubSeq(args, skip + 1, Len(args))
  BY DEF Took
<1> QED BY <1>1, <1>2, RestIsSeq

LEMMA DevArgs ==
    ASSUME args \in Seq(Words), DevNext \/ BusChange
    PROVE  args' \in Seq(Words)
<1>1. ASSUME NEW name, NEW field, Flag(name, field) PROVE args' \in Seq(Words)
  BY <1>1, HeadTailProperties DEF Flag, HasOption
<1>2. SubSeq(args, 3, Len(args)) \in Seq(Words)
  BY RestIsSeq
<1>3. CASE OptDev
  BY <1>2, <1>3, Zenon DEF OptDev
<1>4. CASE OptSid
  BY <1>2, <1>4 DEF OptSid
<1>5. CASE Usage \/ OptEnd \/ ListStart \/ ListOpen \/ ListClose \/ ListEnd
           \/ Open \/ BusChange
  <2>1. UNCHANGED args
    BY <1>5 DEF Usage, OptEnd, ListStart, ListOpen, ListClose, ListEnd, Open, BusChange
  <2> QED BY <2>1
<1> QED BY <1>1, <1>3, <1>4, <1>5 DEF DevNext

LEMMA SavedFiles ==
    ASSUME \A n \in DOMAIN files : IsSeq(files[n]), NEW w, NEW data, IsSeq(data),
           save_file(w, data)
    PROVE  (\A n \in DOMAIN files : IsSeq(files[n]))'
<1>1. PICK d \in {data, <<>>} :
          files' = IF w.kind = "file"
                   THEN [n \in DOMAIN files \cup {w.name} |->
                            IF n = w.name THEN d ELSE files[n]]
                   ELSE files
  BY DEF save_file
<1>2. IsSeq(d)
  <2>1. IsSeq(<<>>)
    <3>1. <<>> \in Seq({})
      OBVIOUS
    <3> QED BY <3>1 DEF IsSeq
  <2> QED BY <2>1
<1> HIDE DEF IsSeq
<1>3. CASE w.kind = "file"
  <2>4. \A n \in DOMAIN files' : IsSeq(files'[n])
    BY <1>1, <1>2, <1>3
  <2> QED BY <2>4
<1>4. CASE w.kind # "file"
  <2>1. files' = files
    BY <1>1, <1>4
  <2> QED BY <2>1
<1> QED BY <1>3, <1>4

LEMMA ChangedFiles ==
    ASSUME \A n \in DOMAIN files : IsSeq(files[n]), FileChange
    PROVE  (\A n \in DOMAIN files : IsSeq(files[n]))'
<1>1. PICK n \in DOMAIN files :
          \/ files' = [files EXCEPT ![n] = Append(@, <<"new", 0>>)]
          \/ files' = [files EXCEPT ![n] = Front(@)]
  BY DEF FileChange
<1>2. IsSeq(Append(files[n], <<"new", 0>>)) /\ IsSeq(Front(files[n]))
  BY AppendIsSeq, FrontIsSeq
<1> HIDE DEF IsSeq
<1>3. \E v : IsSeq(v) /\ files' = [files EXCEPT ![n] = v]
  BY <1>1, <1>2
<1>4. \A k \in DOMAIN files' : IsSeq(files'[k])
  BY <1>3
<1> QED BY <1>4

LEMMA Inputs_step == ASSUME IInv, Next PROVE Inputs'
<1> USE DEF Inputs
<1>1. /\ args \in Seq(Words) /\ \A n \in DOMAIN files : IsSeq(files[n])
      /\ opt.p \in BOOLEAN
  BY DEF IInv, DevTypes, Opts
<1>2. Inputs
  BY DEF IInv
<1>3. ASSUME fits' = fits, files' = files, args' \in Seq(Words) PROVE Inputs'
  BY <1>2, <1>3
<1>4. CASE (DevNext \/ BusChange) /\ UNCHANGED cmdVars
  BY <1>1, <1>3, <1>4, DevArgs DEF cmdVars
<1>5. CASE Halts
  BY <1>1, <1>3, <1>5 DEF Halts, cmdVars
<1>6. CASE NoEffects \/ Writes \/ Filled("clear", 2) \/ Filled("fill", 3)
  <2>1. fits' = fits /\ files' = files
    BY <1>6 DEF NoEffects, aw_fel_hexdump, fel_readl, aw_fel_print_version,
         aw_fel_print_sid, echo_gauge, aw_fel_spiflash_info, NoEffect, Writes,
         fel_memmove, fel_writel, aw_fel_execute, aw_wd_reset, Unguarded,
         Filled, otherVars, givenVars
  <2>2. \E n, skip \in Nat : Took(n, skip)
    BY <1>6 DEF NoEffects, aw_fel_hexdump, fel_readl, aw_fel_print_version,
         aw_fel_print_sid, echo_gauge, aw_fel_spiflash_info, NoEffect, Writes,
         fel_memmove, fel_writel, aw_fel_execute, aw_wd_reset, Filled
  <2>3. args' \in Seq(Words)
    BY <1>1, <2>2, TookSeq
  <2> QED BY <1>3, <2>1, <2>3
<1>7. CASE ReadDone
  <2> DEFINE data == [i \in 1..strtoul(args[3]) |-> At(strtoul(args[2]) + i - 1)]
  <2>1. Len(args) > 3
    BY <1>7 DEF ReadDone, Command
  <2>2. strtoul(args[3]) \in Nat
    BY <1>1, <2>1, strtoulNat
  <2>3. data = [i \in 1..strtoul(args[3]) |-> data[i]]
    OBVIOUS
  <2>4. save_file(args[4], data) /\ Took(4, 4) /\ fits' = fits
    BY <1>7 DEF ReadDone, otherVars, givenVars
  <2> HIDE DEF data
  <2>5. IsSeq(data)
    BY <2>2, <2>3, BuiltIsSeq
  <2>6. (\A n \in DOMAIN files : IsSeq(files[n]))'
    BY <1>1, <2>4, <2>5, SavedFiles
  <2>7. args' \in Seq(Words)
    BY <1>1, <2>4, TookSeq
  <2> QED BY <1>2, <2>4, <2>6, <2>7
<1>8. CASE FlashReadDone
  <2> DEFINE name == IF Board[handle].spi THEN "flash" ELSE "junk"
             data == Ones(name, strtoul(args[3]))
  <2>1. Len(args) > 3
    BY <1>8 DEF FlashReadDone, Command
  <2>2. strtoul(args[3]) \in Nat
    BY <1>1, <2>1, strtoulNat
  <2>3. data = [i \in 1..strtoul(args[3]) |-> data[i]]
    BY DEF Ones
  <2>4. save_file(args[4], data) /\ Took(4, 4) /\ fits' = fits
    BY <1>8 DEF FlashReadDone, otherVars, givenVars
  <2> HIDE DEF data
  <2>5. IsSeq(data)
    BY <2>2, <2>3, BuiltIsSeq
  <2>6. (\A n \in DOMAIN files : IsSeq(files[n]))'
    BY <1>1, <2>4, <2>5, SavedFiles
  <2>7. args' \in Seq(Words)
    BY <1>1, <2>4, TookSeq
  <2> QED BY <1>2, <2>4, <2>6, <2>7
<1>9. CASE FlashWriteDone
  <2>1. Took(3, 3) /\ fits' = fits /\ files' = files
    BY <1>9 DEF FlashWriteDone, otherVars, givenVars
  <2> QED BY <1>1, <1>3, <2>1, TookSeq
<1>10. ASSUME NEW count, NEW base, NEW cb, UploadStart(count, base, cb)
       PROVE  Inputs'
  BY <1>1, <1>3, <1>10 DEF UploadStart, givenVars
<1>11. CASE FileSent
  BY <1>1, <1>3, <1>11 DEF FileSent, givenVars
<1>12. CASE UploadEnd
  <2>1. up.base \in Nat /\ up.count \in Nat
    BY <1>12 DEF IInv, Metered, UploadEnd
  <2>2. up.base + 2 * up.count \in Nat
    BY <2>1
  <2>3. /\ Took(up.base + 2 * up.count, up.base + 2 * up.count)
        /\ fits' = fits /\ files' = files
    BY <1>12 DEF UploadEnd, givenVars
  <2> QED BY <1>1, <1>3, <2>2, <2>3, TookSeq
<1>13. CASE FileChange
  <2>1. fits' = fits /\ args' = args
    BY <1>13 DEF FileChange, givenVars
  <2>2. (\A n \in DOMAIN files : IsSeq(files[n]))'
    BY <1>1, <1>13, ChangedFiles
  <2> QED BY <1>2, <2>1, <2>2
<1>14. ASSUME NEW by, NEW img, SplOnly(by) \/ LegacyDone(by, img) \/ FitDone(by, img)
       PROVE  Inputs'
  <2>1. SplEffect(by)
    BY <1>14 DEF SplOnly, LegacyDone, FitDone
  <2>2. Took(2, 2) /\ fits' = fits /\ files' = files
    BY <2>1 DEF SplEffect, otherVars, givenVars
  <2> QED BY <1>1, <1>3, <2>2, TookSeq
<1>15. CASE reset64
  BY <1>3, <1>15 DEF reset64, otherVars, givenVars
<1>16. CASE End
  BY <1>1, <1>3, <1>16 DEF End, givenVars
<1>17. CASE CmdNext
  <2> HIDE DEF Inputs
  <2> QED BY <1>1, <1>5, <1>6, <1>7, <1>8, <1>9, <1>10, <1>11, <1>12, <1>13,
             <1>14, <1>15, <1>16, <1>17, CmdCases
<1> QED BY <1>4, <1>17 DEF Next

-----------------------------------------------------------------------------
(* The device. *)

Device == DevTypes /\ Drivers /\ Listing /\ Selected

\* What feldev_open() ends up with.
LEMMA OpenableIs ==
    ASSUME DevTypes, NEW port, NEW b \in Openable(port)
    PROVE  /\ b \in Boards /\ Claimable(b) /\ b # NoBoard
           /\ port \in Ports => b = bus[port]
<1>1. b \in Candidates(port) /\ b # NoBoard /\ Claimable(b)
  BY DEF Openable, IsFel
<1>2. bus \in [Ports -> Boards \cup {NoBoard}] /\ Ports \subseteq Nat \ {0}
  BY PortsAssumption DEF DevTypes
<1>3. ASSUME port \in Ports PROVE b = bus[port]
  <2>1. port # NoPort
    BY <1>2, <1>3 DEF NoPort
  <2>2. b \in {bus[p] : p \in {q \in Ports : q = port}}
    BY <1>1, <2>1 DEF Candidates
  <2> QED BY <2>2
<1>4. b \in Boards \cup {NoBoard}
  <2>1. CASE port # NoPort
    <3>1. b \in {bus[p] : p \in {q \in Ports : q = port}}
      BY <1>1, <2>1 DEF Candidates
    <3> QED BY <1>2, <3>1
  <2>2. CASE port = NoPort
    <3> DEFINE F == FelPorts(bus)
    <3>1. F # {} /\ b = bus[Min(F)]
      BY <1>1, <2>2 DEF Candidates
    <3>2. F \subseteq Ports /\ F \in SUBSET Nat
      BY <1>2 DEF FelPorts
    <3> HIDE DEF F
    <3>3. Min(F) \in Ports
      BY <3>1, <3>2, MinIs
    <3> QED BY <1>2, <3>1, <3>3
  <2> QED BY <2>1, <2>2
<1> QED BY <1>1, <1>3, <1>4

LEMMA MinTodo ==
    ASSUME DevTypes, todo # {}
    PROVE  Min(todo) \in todo /\ Min(todo) \in Ports
<1>1. todo \subseteq Ports /\ todo \in SUBSET Nat
  BY PortsAssumption DEF DevTypes
<1> QED BY <1>1, MinIs

LEMMA Options_step ==
    ASSUME Device, args \in Seq(Words),
           \/ \E field \in {"list", "socs", "p", "v"} : \E name : Flag(name, field)
           \/ OptDev \/ OptSid \/ Usage \/ OptEnd
    PROVE  Device'
<1> USE DEF Opts
<1>1. pc = "options" /\ opt \in Opts
  BY DEF Flag, OptDev, OptSid, Usage, OptEnd, HasOption, Device, DevTypes
<1>2. UNCHANGED <<bus, driver, todo, found, handle, iface_detached, busChanges,
                  driver0, listed>>
  BY DEF Flag, OptDev, OptSid, Usage, OptEnd, devVars
<1>3. opt' \in Opts
  <2>1. CASE \E field \in {"list", "socs", "p", "v"} : \E name : Flag(name, field)
    <3>1. PICK field \in {"list", "socs", "p", "v"} : opt' = [opt EXCEPT ![field] = TRUE]
      BY <2>1 DEF Flag
    <3> QED BY <1>1, <3>1
  <2>2. CASE OptDev
    <3>1. CASE Len(args) > 1 /\ args[2].kind = "port" /\ args[2].num > 0
      <4>1. opt' = [opt EXCEPT !.dev = args[2].num]
        BY <2>2, <3>1 DEF OptDev
      <4>2. args[2] \in Words
        BY <3>1
      <4>3. args[2].num \in Int
        BY <4>2 DEF Words
      <4> QED BY <1>1, <4>1, <4>3
    <3>2. CASE ~(Len(args) > 1 /\ args[2].kind = "port" /\ args[2].num > 0)
      <4>1. opt' = opt
        BY <2>2, <3>2, Zenon DEF OptDev
      <4> QED BY <1>1, <4>1
    <3> QED BY <3>1, <3>2
  <2>3. CASE OptSid
    <3>1. Len(args) > 1 /\ opt' = [opt EXCEPT !.sid = args[2].name]
      BY <2>3 DEF OptSid
    <3>2. args[2] \in Words
      BY <3>1
    <3>3. args[2].name \in STRING
      BY <3>2 DEF Words
    <3> QED BY <1>1, <3>1, <3>3
  <2>4. CASE Usage \/ OptEnd
    BY <1>1, <2>4 DEF Usage, OptEnd, devVars
  <2> QED BY <2>1, <2>2, <2>3, <2>4
<1>4. /\ pc' \in {"options", "enumerate", "open", "exit 0", "exit 1", "usage"}
      /\ pc' = "open" => opt'.sid = NoSid
  <2>1. CASE OptEnd
    BY <2>1 DEF OptEnd, devVars
  <2>2. CASE ~OptEnd
    BY <1>1, <2>2 DEF Flag, OptDev, OptSid, Usage, Exit
  <2> QED BY <2>1, <2>2
<1>5. DevTypes'
  BY <1>2, <1>3 DEF Device, DevTypes
<1>6. handle = NoBoard /\ found = <<>> /\ driver = driver0
  BY <1>1 DEF Device, Drivers, Listing
<1>7. Drivers'
  BY <1>2, <1>4, <1>6 DEF Drivers
<1>8. Listing'
  BY <1>2, <1>4, <1>6 DEF Listing
<1>9. Selected'
  BY <1>4 DEF Selected
<1> QED BY <1>5, <1>7, <1>8, <1>9 DEF Device

LEMMA ListStart_step == ASSUME Device, ListStart PROVE Device'
<1> USE DEF Device
<1>1. /\ pc = "enumerate" /\ pc' = "listing" /\ listed' = busChanges
      /\ todo' = FelPorts(bus)
      /\ UNCHANGED <<opt, bus, driver, found, handle, iface_detached, busChanges,
                     driver0>>
  BY DEF ListStart
<1>2. todo' \subseteq Ports
  BY <1>1 DEF FelPorts
<1>3. DevTypes'
  BY <1>1, <1>2 DEF DevTypes
<1>4. handle = NoBoard /\ found = <<>> /\ driver = driver0
  BY <1>1 DEF Drivers, Listing
<1>5. Drivers'
  BY <1>1, <1>4 DEF Drivers
<1>6. DOMAIN found = {}
  BY <1>4
<1>7. Listing'
  BY <1>1, <1>4, <1>6 DEF Listing
<1>8. Selected'
  BY <1>1 DEF Selected
<1> QED BY <1>3, <1>5, <1>7, <1>8

\* The board just claimed, and its driver.
LEMMA Claimed ==
    ASSUME DevTypes, driver = driver0, NEW b \in Boards, Claimable(b), feldev_claim(b)
    PROVE  driver' = driver0 \ {b} /\ iface_detached' = (b \in driver0)
BY DEF feldev_claim

LEMMA ListOpen_step == ASSUME Device, ListOpen PROVE Device'
<1> USE DEF Device
<1>1. /\ pc = "listing" /\ todo # {} /\ handle = NoBoard
      /\ UNCHANGED <<opt, bus, todo, found, busChanges, driver0, listed>>
  BY DEF ListOpen
<1>2. Min(todo) \in Ports
  BY <1>1, MinTodo
<1>3. driver = driver0
  BY <1>1 DEF Drivers
<1>4. CASE Openable(Min(todo)) # {}
  <2>1. handle' \in Openable(Min(todo)) /\ feldev_claim(handle') /\ pc' = pc
    BY <1>4 DEF ListOpen
  <2>2. handle' \in Boards /\ Claimable(handle') /\ handle' # NoBoard
        /\ handle' = bus[Min(todo)]
    BY <1>2, <2>1, OpenableIs
  <2>3. driver' = driver0 \ {handle'} /\ iface_detached' = (handle' \in driver0)
    BY <1>3, <2>1, <2>2, Claimed
  <2>4. DevTypes'
    BY <1>1, <2>2 DEF DevTypes
  <2>5. Drivers'
    BY <1>1, <2>1, <2>2, <2>3 DEF Drivers
  <2>6. Listing'
    BY <1>1, <2>1, <2>2 DEF Listing
  <2>7. Selected'
    BY <1>1, <2>1 DEF Selected
  <2> QED BY <2>4, <2>5, <2>6, <2>7
<1>5. CASE Openable(Min(todo)) = {}
  <2>1. pc' = "exit 1" /\ handle' = handle
    BY <1>5 DEF ListOpen, Exit
  <2>2. DevTypes'
    BY <1>1, <2>1 DEF DevTypes
  <2>3. Drivers'
    BY <1>1, <2>1 DEF Drivers
  <2>4. Listing' /\ Selected'
    BY <2>1 DEF Listing, Selected
  <2> QED BY <2>2, <2>3, <2>4
<1> QED BY <1>4, <1>5

LEMMA ListClose_step == ASSUME Device, ListClose PROVE Device'
<1> USE DEF Device
<1> DEFINE p == Min(todo)
           e == <<p, fel_read_sid(handle)>>
<1>1. /\ pc = "listing" /\ handle # NoBoard /\ pc' = "listing"
      /\ found' = Append(found, e)
      /\ todo' = todo \ {p} /\ handle' = NoBoard
      /\ feldev_release(handle) /\ iface_detached' = FALSE
      /\ UNCHANGED <<opt, bus, busChanges, driver0, listed>>
  BY DEF ListClose
<1>2. todo # {} /\ (busChanges = listed => bus[p] = handle)
  BY <1>1 DEF Listing
<1>3. p \in Ports /\ handle \in Boards
  BY <1>1, <1>2, MinTodo DEF DevTypes
<1>4. e \in Entries /\ e[1] = p /\ e[2] = fel_read_sid(handle)
  BY <1>3 DEF Entries
<1> HIDE DEF p, e
<1>5. found \in Seq(Entries) /\ Len(found) \in Nat /\ DOMAIN found = 1..Len(found)
  BY DEF DevTypes
<1>6. /\ found' \in Seq(Entries) /\ Len(found') = Len(found) + 1
      /\ \A i \in 1..Len(found) : found'[i] = found[i]
      /\ found'[Len(found) + 1] = e
  BY <1>1, <1>4, <1>5, AppendProperties
<1>7. \A i \in DOMAIN found' : i \in DOMAIN found \/ found'[i] = e
  <2>1. DOMAIN found' = 1..(Len(found) + 1)
    BY <1>6
  <2> QED BY <1>5, <1>6, <2>1
<1>8. DevTypes'
  BY <1>1, <1>6 DEF DevTypes
<1>9. Drivers'
  <2>1. driver = driver0 \ {handle} /\ iface_detached = (handle \in driver0)
    BY <1>1 DEF Drivers
  <2>2. driver' = driver0
    BY <1>1, <2>1 DEF feldev_release
  <2> QED BY <1>1, <2>2 DEF Drivers
<1>10. ASSUME busChanges' = listed', NEW i \in DOMAIN found'
       PROVE  /\ bus'[found'[i][1]] \in Boards
              /\ found'[i][2] = fel_read_sid(bus'[found'[i][1]])
  <2>1. busChanges = listed /\ bus' = bus
    BY <1>1, <1>10
  <2>2. CASE i \in DOMAIN found
    <3>1. found'[i] = found[i]
      BY <1>5, <1>6, <2>2
    <3>2. bus[found[i][1]] \in Boards /\ found[i][2] = fel_read_sid(bus[found[i][1]])
      BY <1>1, <2>1, <2>2 DEF Listing
    <3> QED BY <2>1, <3>1, <3>2
  <2>3. CASE found'[i] = e
    BY <1>2, <1>3, <1>4, <2>1, <2>3
  <2> QED BY <1>7, <2>2, <2>3
<1>11. Listing'
  BY <1>1, <1>10 DEF Listing
<1>12. Selected'
  BY <1>1 DEF Selected
<1> QED BY <1>8, <1>9, <1>11, <1>12

\* select_by_sid() returns the port of an entry with that SID, if there is one.
LEMMA SelectedPort ==
    ASSUME DevTypes, NEW sid, NEW dev
    PROVE  \/ /\ \A i \in DOMAIN found : found[i][2] # sid
              /\ select_by_sid(sid, dev, found) = dev
           \/ \E i \in DOMAIN found :
                /\ found[i][2] = sid
                /\ select_by_sid(sid, dev, found) = found[i][1]
<1> DEFINE I == {i \in 1..Len(found) : found[i][2] = sid}
           k == IF I # {} THEN Min(I) ELSE 0
<1>1. Len(found) \in Nat /\ DOMAIN found = 1..Len(found)
  BY DEF DevTypes
<1>2. select_by_sid(sid, dev, found) = IF k = 0 THEN dev ELSE found[k][1]
  BY DEF select_by_sid, SelectInSeq
<1>3. I \in SUBSET Nat /\ \A i \in I : i # 0
  BY <1>1
<1>4. CASE I = {}
  BY <1>1, <1>2, <1>4
<1>5. CASE I # {}
  <2>1. k \in I
    BY <1>3, <1>5, MinIs
  <2>2. k # 0 /\ k \in DOMAIN found /\ found[k][2] = sid
    BY <1>1, <2>1
  <2> HIDE DEF k
  <2> QED BY <1>2, <2>2
<1> QED BY <1>4, <1>5

LEMMA ListEnd_step == ASSUME Device, ListEnd PROVE Device'
<1> USE DEF Device
<1>1. /\ pc = "listing" /\ handle = NoBoard
      /\ UNCHANGED <<bus, driver, todo, found, handle, iface_detached, busChanges,
                     driver0, listed>>
  BY DEF ListEnd
<1>2. driver = driver0
  BY <1>1 DEF Drivers
<1>3. CASE opt.list
  <2>1. pc' \in {"exit 0", "exit 1"} /\ opt' = opt
    BY <1>3 DEF ListEnd, Exit
  <2>2. DevTypes'
    BY <1>1, <2>1 DEF DevTypes
  <2>3. Drivers' /\ Listing' /\ Selected'
    BY <1>1, <1>2, <2>1 DEF Drivers, Listing, Selected
  <2> QED BY <2>2, <2>3
<1>4. CASE ~opt.list
  <2> DEFINE dev == select_by_sid(opt.sid, opt.dev, found)
  <2>1. /\ opt' = [opt EXCEPT !.dev = dev]
        /\ pc' = IF opt'.dev <= 0 THEN "exit 1" ELSE "open"
    BY <1>4 DEF ListEnd
  <2>2. \/ NoMatch /\ dev = opt.dev
        \/ \E i \in DOMAIN found : found[i][2] = opt.sid /\ dev = found[i][1]
    BY SelectedPort DEF NoMatch
  <2>3. found \in Seq(Entries) /\ opt.dev \in Int /\ Ports \subseteq Int
    BY PortsAssumption DEF DevTypes, Opts
  <2>4. \A i \in DOMAIN found : found[i] \in Entries
    BY <2>3
  <2>5. \A i \in DOMAIN found : found[i][1] \in Ports
    BY <2>4 DEF Entries
  <2> HIDE DEF dev
  <2>6. dev \in Int
    BY <2>2, <2>3, <2>5
  <2>7. DevTypes' /\ opt'.sid = opt.sid /\ opt'.dev = dev
    BY <1>1, <2>1, <2>6 DEF DevTypes, Opts
  <2>8. pc' \in {"exit 1", "open"}
    BY <2>1
  <2>9. Drivers' /\ Listing'
    BY <1>1, <1>2, <2>8 DEF Drivers, Listing
  <2>10. ASSUME busChanges = listed, ~NoMatch
         PROVE  /\ dev \in Ports /\ bus[dev] \in Boards
                /\ fel_read_sid(bus[dev]) = opt.sid
    <3>1. PICK i \in DOMAIN found : found[i][2] = opt.sid /\ dev = found[i][1]
      BY <2>2, <2>10
    <3>2. bus[found[i][1]] \in Boards /\ found[i][2] = fel_read_sid(bus[found[i][1]])
      BY <1>1, <2>10 DEF Listing
    <3> QED BY <2>5, <3>1, <3>2
  <2>11. NoMatch' = NoMatch
    BY <1>1, <2>7 DEF NoMatch
  <2>12. Selected'
    BY <1>1, <2>7, <2>8, <2>10, <2>11 DEF Selected
  <2> QED BY <2>7, <2>9, <2>12
<1> QED BY <1>3, <1>4

LEMMA Open_step == ASSUME Device, Open PROVE Device'
<1> USE DEF Device
<1>1. /\ pc = "open"
      /\ UNCHANGED <<opt, bus, todo, found, busChanges, driver0, listed>>
  BY DEF Open
<1>2. handle = NoBoard /\ driver = driver0
  BY <1>1 DEF Drivers
<1>3. CASE Openable(opt.dev) # {}
  <2>1. handle' \in Openable(opt.dev) /\ feldev_claim(handle') /\ pc' = "loop"
    BY <1>3 DEF Open
  <2>2. /\ handle' \in Boards /\ Claimable(handle') /\ handle' # NoBoard
        /\ opt.dev \in Ports => handle' = bus[opt.dev]
    BY <2>1, OpenableIs
  <2>3. driver' = driver0 \ {handle'} /\ iface_detached' = (handle' \in driver0)
    BY <1>2, <2>1, <2>2, Claimed
  <2>4. DevTypes'
    BY <1>1, <2>2 DEF DevTypes
  <2>5. Drivers'
    BY <1>1, <2>1, <2>2, <2>3 DEF Drivers
  <2>6. Listing'
    BY <2>1 DEF Listing
  <2>7. NoMatch' = NoMatch
    BY <1>1 DEF NoMatch
  <2>8. Selected'
    BY <1>1, <2>1, <2>2, <2>7 DEF Selected
  <2> QED BY <2>4, <2>5, <2>6, <2>8
<1>4. CASE Openable(opt.dev) = {}
  <2>1. pc' = "exit 1" /\ handle' = handle
    BY <1>4 DEF Open, Exit
  <2>2. DevTypes'
    BY <1>1, <2>1 DEF DevTypes
  <2>3. Drivers' /\ Listing' /\ Selected'
    BY <1>2, <2>1 DEF Drivers, Listing, Selected
  <2> QED BY <2>2, <2>3
<1> QED BY <1>3, <1>4

LEMMA BusChange_step == ASSUME Device, BusChange PROVE Device'
<1> USE DEF Device
<1>1. /\ pc \in {"options", "enumerate", "listing", "open"}
      /\ busChanges' = busChanges + 1
      /\ UNCHANGED <<pc, opt, driver, todo, found, handle, iface_detached,
                     driver0, listed>>
  BY DEF BusChange
<1>2. PICK p \in Ports, b \in Boards \cup {NoBoard} : bus' = [bus EXCEPT ![p] = b]
  BY DEF BusChange, Boards
<1>3. bus' \in [Ports -> Boards \cup {NoBoard}]
  BY <1>2 DEF DevTypes
<1>4. DevTypes' /\ busChanges' # listed'
  BY <1>1, <1>3 DEF DevTypes
<1>5. Drivers'
  BY <1>1 DEF Drivers
<1>6. Listing'
  BY <1>1, <1>4 DEF Listing
<1>7. Selected'
  BY <1>4 DEF Selected
<1> QED BY <1>4, <1>5, <1>6, <1>7

\* What a command may do to the device.
LEMMA CmdDevice ==
    ASSUME CmdNext, args \in Seq(Words), opt.p \in BOOLEAN
    PROVE  \/ /\ pc \in {"loop", "upload"} /\ pc' \in {"loop", "upload"}
              /\ UNCHANGED devVars
           \/ Halts
           \/ End
<1>1. CASE NoEffects \/ Writes \/ Filled("clear", 2) \/ Filled("fill", 3)
  <2>1. pc = "loop" /\ UNCHANGED <<pc, devVars>>
    BY <1>1 DEF NoEffects, aw_fel_hexdump, fel_readl, aw_fel_print_version,
         aw_fel_print_sid, echo_gauge, aw_fel_spiflash_info, NoEffect, Writes,
         fel_memmove, fel_writel, aw_fel_execute, aw_wd_reset, Unguarded,
         Filled, otherVars, Command
  <2> QED BY <2>1
<1>2. CASE ReadDone \/ FlashReadDone \/ FlashWriteDone
  BY <1>2 DEF ReadDone, FlashReadDone, FlashWriteDone, otherVars, Command
<1>3. ASSUME NEW count, NEW base, NEW cb, UploadStart(count, base, cb)
      PROVE  pc = "loop" /\ pc' = "upload" /\ UNCHANGED devVars
  BY <1>3 DEF UploadStart
<1>4. CASE FileSent \/ UploadEnd \/ FileChange
  BY <1>4 DEF FileSent, UploadEnd, FileChange
<1>5. ASSUME NEW by, NEW img, SplOnly(by) \/ LegacyDone(by, img) \/ FitDone(by, img)
      PROVE  pc = "loop" /\ pc' = pc /\ UNCHANGED devVars
  <2>1. SplEffect(by) /\ SplRun(by)
    BY <1>5 DEF SplOnly, LegacyDone, FitDone
  <2> QED BY <2>1 DEF SplEffect, SplRun, otherVars, Command
<1>6. CASE reset64
  BY <1>6 DEF reset64, otherVars, Command
<1> QED BY <1>1, <1>2, <1>3, <1>4, <1>5, <1>6, CmdCases

LEMMA Device_step == ASSUME IInv, Next PROVE Device'
<1>1. Device /\ args \in Seq(Words) /\ opt.p \in BOOLEAN
  BY DEF IInv, Device, Inputs, DevTypes, Opts
<1>2. CASE DevNext \/ BusChange
  BY <1>1, <1>2, Options_step, ListStart_step, ListOpen_step, ListClose_step,
     ListEnd_step, Open_step, BusChange_step DEF DevNext
<1>3. CASE /\ pc \in {"loop", "upload"} /\ pc' \in {"loop", "upload"}
           /\ UNCHANGED devVars
  <2>1. UNCHANGED <<opt, bus, driver, todo, found, handle, iface_detached,
                    busChanges, driver0, listed>>
    BY <1>3 DEF devVars
  <2>2. DevTypes'
    BY <1>1, <2>1 DEF Device, DevTypes
  <2>3. Drivers' /\ Listing'
    BY <1>1, <1>3, <2>1 DEF Device, Drivers, Listing
  <2>4. NoMatch' = NoMatch
    BY <2>1 DEF NoMatch
  <2>5. Selected'
    BY <1>1, <1>3, <2>1, <2>4 DEF Device, Selected
  <2> QED BY <2>2, <2>3, <2>5 DEF Device
<1>4. CASE Halts
  <2>1. /\ pc' \in {"exit 1", "crashed"}
        /\ UNCHANGED <<opt, bus, driver, todo, found, handle, iface_detached,
                       busChanges, driver0, listed>>
    BY <1>4 DEF Halts, devVars
  <2>2. DevTypes'
    BY <1>1, <2>1 DEF Device, DevTypes
  <2>3. Drivers' /\ Listing' /\ Selected'
    BY <1>1, <2>1 DEF Device, Drivers, Listing, Selected
  <2> QED BY <2>2, <2>3 DEF Device
<1>5. CASE End
  <2>1. /\ pc = "loop" /\ pc' = "exit 0" /\ handle' = NoBoard
        /\ feldev_release(handle)
        /\ UNCHANGED <<opt, bus, todo, found, busChanges, driver0, listed>>
    BY <1>5 DEF End, feldev_done, Exit
  <2>2. DevTypes'
    BY <1>1, <2>1 DEF Device, DevTypes
  <2>3. driver' = driver0
    BY <1>1, <2>1 DEF Device, Drivers, feldev_release
  <2>4. Drivers' /\ Listing' /\ Selected'
    BY <2>1, <2>3 DEF Drivers, Listing, Selected
  <2> QED BY <2>2, <2>4 DEF Device
<1> QED BY <1>1, <1>2, <1>3, <1>4, <1>5, CmdDevice DEF Next

-----------------------------------------------------------------------------
(* The guard of U-Boot. *)

\* Bytes outside of what is written keep their value.
LEMMA OverlayKeeps ==
    ASSUME NEW m, NEW addr, NEW data, NEW a \in Addr,
           a \notin addr .. (addr + Len(data) - 1)
    PROVE  Overlay(m, addr, data)[a] = m[a]
BY DEF Overlay

LEMMA BuiltLen ==
    ASSUME NEW n \in Nat, NEW g, g = [i \in 1..n |-> g[i]]
    PROVE  Len(g) = n
BY BuiltIsSeq

\* What the guard lets pass does not reach the guarded bytes.
LEMMA GuardKeeps ==
    ASSUME Guarded, NEW addr \in Nat, NEW data, Len(data) \in Nat,
           Len(data) > 0 => ~Overlaps(addr, Len(data)),
           NEW a \in DOMAIN shot, InGuard(a)
    PROVE  Overlay(mem, addr, data)[a] = mem[a]
<1>1. a \in Addr /\ uboot_entry <= a /\ a < uboot_entry + uboot_size
      /\ uboot_entry \in Nat /\ uboot_size \in Nat
  BY DEF Guarded, InGuard
<1>2. a \in Nat
  BY <1>1 DEF Addr
<1>3. a \notin addr .. (addr + Len(data) - 1)
  <2>1. CASE Len(data) = 0
    BY <1>2, <2>1
  <2>2. CASE Len(data) > 0
    <3>1. \/ ~(uboot_size > 0) \/ ~(addr <= uboot_entry + uboot_size)
          \/ ~(addr + Len(data) >= uboot_entry)
      BY <2>2 DEF Overlaps
    <3> QED BY <1>1, <1>2, <3>1
  <2> QED BY <2>1, <2>2
<1> QED BY <1>1, <1>3, OverlayKeeps

\* Commands that leave U-Boot's place alone keep the invariant if they keep
\* its guarded bytes or own up to them.
LEMMA GuardedFrame ==
    ASSUME Guarded, UNCHANGED <<uboot_entry, uboot_size, shot, last>>,
           \A a \in loose : a \in loose',
           \A a \in DOMAIN shot : InGuard(a) => a \in loose' \/ mem'[a] = mem[a]
    PROVE  Guarded'
<1>1. \A a \in DOMAIN shot : InGuard(a)' = InGuard(a)
  BY DEF InGuard
<1> QED BY <1>1 DEF Guarded

LEMMA Writes_guard ==
    ASSUME Guarded, args \in Seq(Words), Writes PROVE Guarded'
<1>1. UNCHANGED <<uboot_entry, uboot_size, shot, last>>
  BY DEF Writes, fel_memmove, fel_writel, aw_fel_execute, aw_wd_reset,
         Unguarded, imageVars
<1>2. \A a \in loose : a \in loose'
  BY DEF Writes, fel_memmove, fel_writel, aw_fel_execute, aw_wd_reset, Unguarded
<1>3. \A a \in DOMAIN shot : a \in Addr
  BY DEF Guarded
<1>4. ASSUME NEW addr, NEW data, NEW a \in DOMAIN shot,
             Unguarded({Overlay(mem, addr, data)}, addr .. (addr + Len(data) - 1))
      PROVE  a \in loose' \/ mem'[a] = mem[a]
  <2>1. /\ mem' = Overlay(mem, addr, data)
        /\ loose' = loose \cup (addr .. (addr + Len(data) - 1))
    BY <1>4 DEF Unguarded
  <2> QED BY <1>3, <2>1, OverlayKeeps
<1>5. CASE fel_memmove
  <2> DEFINE dst == strtoul(args[2])
             data == [i \in 1..strtoul(args[4]) |-> At(strtoul(args[3]) + i - 1)]
  <2>1. Unguarded({Overlay(mem, dst, data)}, dst .. (dst + Len(data) - 1))
    BY <1>5 DEF fel_memmove
  <2> HIDE DEF dst, data
  <2>2. \A a \in DOMAIN shot : a \in loose' \/ mem'[a] = mem[a]
    BY <1>4, <2>1
  <2> QED BY <1>1, <1>2, <2>2, GuardedFrame
<1>6. CASE fel_writel
  <2> DEFINE addr == strtoul(args[2])
             data == Ones("writel", 4)
  <2>1. Unguarded({Overlay(mem, addr, data)}, addr .. (addr + 3))
    BY <1>6 DEF fel_writel
  <2>2. data = [i \in 1..4 |-> data[i]]
    BY DEF Ones
  <2>3. addr \in Nat
    BY <1>6, strtoulNat DEF fel_writel, Command
  <2> HIDE DEF addr, data
  <2>4. Len(data) = 4
    BY <2>2, BuiltLen
  <2>5. addr + Len(data) - 1 = addr + 3
    BY <2>3, <2>4
  <2>6. Unguarded({Overlay(mem, addr, data)}, addr .. (addr + Len(data) - 1))
    BY <2>1, <2>5
  <2>7. \A a \in DOMAIN shot : a \in loose' \/ mem'[a] = mem[a]
    BY <1>4, <2>6
  <2> QED BY <1>1, <1>2, <2>7, GuardedFrame
<1>7. CASE aw_fel_execute \/ aw_wd_reset
  <2>1. Unguarded(Anything, Addr) \/ Unguarded({mem}, {})
    BY <1>7 DEF aw_fel_execute, aw_wd_reset
  <2>2. \A a \in DOMAIN shot : a \in loose' \/ mem'[a] = mem[a]
    BY <1>3, <2>1 DEF Unguarded
  <2> QED BY <1>1, <1>2, <2>2, GuardedFrame
<1> QED BY <1>5, <1>6, <1>7 DEF Writes

\* What has just been loaded: a legacy image at its place, or a FIT image.
LEMMA NewShot ==
    ASSUME uboot_entry' \in Nat, uboot_size' \in Nat, NEW D \in SUBSET Addr,
           shot' = [a \in D |-> mem'[a]],
           \/ last'.kind = "fit"
           \/ D = (uboot_entry' .. (uboot_entry' + uboot_size' - 1)) \cap Addr
    PROVE  Guarded'
<1>1. DOMAIN shot' = D /\ \A a \in D : mem'[a] = shot'[a]
  OBVIOUS
<1>2. ASSUME NEW a \in D, last'.kind # "fit"
      PROVE  uboot_entry' <= a /\ a < uboot_entry' + uboot_size'
  <2>1. \A e \in Nat, s \in Nat : \A b \in e .. (e + s - 1) : e <= b /\ b < e + s
    OBVIOUS
  <2> QED BY <1>2, <2>1
<1> QED BY <1>1, <1>2 DEF Guarded, InGuard, Addr

\* Where a found image comes from.
LEMMA BehindIs ==
    ASSUME NEW by, SplRun(by), NEW img \in Behind(TheFile), Found(img)
    PROVE  img.from \in DOMAIN FileInfo
<1>1. Head1(TheFile) # NoName
  BY DEF SplRun, IsSpl
<1>2. Head1(TheFile) \in DOMAIN FileInfo
  BY <1>1 DEF Head1
<1> DEFINE n == Head1(TheFile)
           junk == [from : {NoName} \cup (heap \cap DOMAIN FileInfo), len : {Huge}]
<1>3. \/ \E l : img = [from |-> n, len |-> l]
      \/ img \in junk
  BY Zenon DEF Behind
<1>4. CASE \E l : img = [from |-> n, len |-> l]
  BY <1>2, <1>4
<1>5. CASE img \in junk
  BY <1>5 DEF Found
<1> QED BY <1>3, <1>4, <1>5

\* The images of a configuration.
LEMMA ConfigurationIs ==
    ASSUME NEW fit, fit.configs \in Seq(Configs), NEW dt
    PROVE  Configuration(fit, dt) = 0 \/ Configuration(fit, dt) \in DOMAIN fit.configs
<1> DEFINE n == Len(fit.configs)
           A == {i \in 1..n : fit.configs[i].description = dt}
           B == {i \in 1..n : fit.configs[i].name = fit.default}
           C == {i \in 1..n : TRUE}
           k(I) == IF I # {} THEN Min(I) ELSE 0
<1>1. n \in Nat /\ DOMAIN fit.configs = 1..n
  OBVIOUS
<1>2. Configuration(fit, dt) \in {0, k(A), k(B), k(C)}
  BY DEF Configuration, SelectInSeq
<1>3. ASSUME NEW I \in SUBSET (1..n) PROVE k(I) = 0 \/ k(I) \in 1..n
  <2>1. I \in SUBSET Nat
    BY <1>1
  <2> QED BY <2>1, MinIs
<1>4. A \in SUBSET (1..n) /\ B \in SUBSET (1..n) /\ C \in SUBSET (1..n)
  OBVIOUS
<1> HIDE DEF n, A, B, C, k
<1> QED BY <1>1, <1>2, <1>3, <1>4

LEMMA NamesAre ==
    ASSUME NEW fit, IsFitImage(fit), NEW i \in DOMAIN fit.configs
    PROVE  NamesOf(fit.configs[i]) \in Seq(STRING)
<1>1. fit.configs \in Seq(Configs)
  BY DEF IsFitImage
<1>2. fit.configs[i] \in Configs
  BY <1>1
<1>3. ASSUME NEW c \in Configs PROVE NamesOf(c) \in Seq(STRING)
  <2>1. c.firmware \in STRING /\ c.loadables \in Seq(STRING)
    BY DEF Configs
  <2>2. <<c.firmware>> \in Seq(STRING)
    BY <2>1
  <2> QED BY <2>1, <2>2, ConcatProperties DEF NamesOf
<1> QED BY <1>2, <1>3

\* What load_fit_images() returns, with and without a configuration.
LEMMA FitIs ==
    ASSUME NEW fit, IsFitImage(fit), NEW dt
    PROVE  LET c  == Configuration(fit, dt)
               st == load_fit_images(fit, dt)
               all == LoadAll(fit, NamesOf(fit.configs[c]))
           IN  /\ st.entry \in Nat
               /\ c = 0 => st = NothingLoaded
               /\ c # 0 => /\ c \in DOMAIN fit.configs
                           /\ st.entry = all.entry /\ st.arch = all.arch
<1> DEFINE c == Configuration(fit, dt)
           st == load_fit_images(fit, dt)
           names == NamesOf(fit.configs[c])
           all == LoadAll(fit, names)
           dtb == IF all.dtb # 0 /\ Valid(fit, fit.configs[c].fdt)
                  THEN <<Upload(all.dtb, fit.images[fit.configs[c].fdt].data, FALSE)>>
                  ELSE <<>>
<1>1. st = IF c = 0 THEN NothingLoaded ELSE [all EXCEPT !.uploads = @ \o dtb]
  BY DEF load_fit_images
<1>2. c = 0 \/ c \in DOMAIN fit.configs
  BY ConfigurationIs DEF IsFitImage
<1>3. CASE c = 0
  <2>1. NothingLoaded.entry = 0
    BY DEF NothingLoaded
  <2> QED BY <1>1, <1>3, <2>1
<1>4. CASE c # 0
  <2>1. names \in Seq(STRING)
    BY <1>2, <1>4, NamesAre
  <2>2. fit.images \in [DOMAIN fit.images -> Images]
    BY DEF IsFitImage
  <2>3. all.entry \in Nat
    BY <2>1, <2>2, EntryIs
  <2> HIDE DEF all, dtb, c
  <2>4. st = [all EXCEPT !.uploads = @ \o dtb]
    BY <1>1, <1>4
  <2>5. st.entry = all.entry /\ st.arch = all.arch
    BY <2>4
  <2> QED BY <1>2, <1>4, <2>3, <2>5 DEF all, c
<1> QED BY <1>3, <1>4

LEMMA FitFound ==
    ASSUME Inputs, NEW by, SplRun(by), NEW img \in Behind(TheFile), IsFit(img)
    PROVE  /\ img.from \in DOMAIN FileInfo
           /\ FileInfo[img.from].tail.type = "flatdt"
           /\ IsFitImage(fits[img.from])
<1>1. Found(img) /\ FileInfo[img.from].tail.type = "flatdt"
  BY DEF IsFit
<1>2. img.from \in DOMAIN FileInfo
  BY <1>1, BehindIs
<1> QED BY <1>1, <1>2 DEF Inputs

LEMMA Guarded_step == ASSUME IInv, Next PROVE Guarded'
<1>1. /\ Guarded /\ Inputs /\ args \in Seq(Words) /\ opt.p \in BOOLEAN
      /\ \A n \in DOMAIN files : IsSeq(files[n])
  BY DEF IInv, Inputs, DevTypes, Opts
<1>2. ASSUME UNCHANGED <<uboot_entry, uboot_size, shot, last, loose, mem>>
      PROVE  Guarded'
  BY <1>1, <1>2, GuardedFrame
<1>3. CASE (DevNext \/ BusChange) /\ UNCHANGED cmdVars
  BY <1>2, <1>3 DEF cmdVars
<1>4. CASE Halts
  BY <1>2, <1>4 DEF Halts, cmdVars
<1>5. CASE NoEffects \/ ReadDone \/ FlashReadDone \/ FlashWriteDone
  BY <1>2, <1>5 DEF NoEffects, aw_fel_hexdump, fel_readl, aw_fel_print_version,
       aw_fel_print_sid, echo_gauge, aw_fel_spiflash_info, NoEffect,
       ReadDone, FlashReadDone, FlashWriteDone, imageVars
<1>6. CASE Writes
  BY <1>1, <1>6, Writes_guard
<1>7. ASSUME NEW name, NEW n \in {2, 3}, Filled(name, n) PROVE Guarded'
  <2> DEFINE offset == strtoul(args[2])
             size == strtoul(args[3])
             data == Ones(name, size)
  <2>1. /\ mem' = Overlay(mem, offset, data)
        /\ ~(size > 0 /\ Overlaps(offset, size))
        /\ UNCHANGED <<uboot_entry, uboot_size, shot, last, loose>>
    BY <1>7 DEF Filled, imageVars
  <2>2. Len(args) \in Nat /\ Len(args) > 2
    BY <1>1, <1>7 DEF Filled, Command
  <2>3. offset \in Nat /\ size \in Nat
    BY <1>1, <2>2, strtoulNat
  <2>4. data = [i \in 1..size |-> data[i]]
    BY DEF Ones
  <2> HIDE DEF offset, size, data
  <2>5. Len(data) = size
    BY <2>3, <2>4, BuiltLen
  <2>6. \A a \in DOMAIN shot : InGuard(a) => Overlay(mem, offset, data)[a] = mem[a]
    BY <1>1, <2>1, <2>3, <2>5, GuardKeeps
  <2> QED BY <1>1, <2>1, <2>6, GuardedFrame
<1>8. ASSUME NEW count, NEW base, NEW cb, UploadStart(count, base, cb)
      PROVE  Guarded'
  BY <1>2, <1>8 DEF UploadStart, imageVars
<1>9. CASE FileSent
  <2> DEFINE i == up.base + 2 * up.i
  <2>1. /\ mem' = Overlay(mem, Place1, Next1)
        /\ Next1 # <<>> => ~Overlaps(Place1, Len(Next1))
        /\ FileName(args[i]) \in DOMAIN files
        /\ UNCHANGED <<uboot_entry, uboot_size, shot, last, loose>>
    BY <1>9 DEF FileSent, imageVars
  <2>2. IsSeq(Next1)
    BY <1>1, <2>1 DEF Next1
  <2>3. Len(Next1) \in Nat /\ (Len(Next1) > 0 => Next1 # <<>>)
    BY <2>2, IsSeqLen DEF IsSeq
  <2>4. Place1 \in Nat
    <3>1. /\ up.base \in Nat /\ up.i \in Nat /\ up.i > 0 /\ up.count \in Nat
          /\ up.i <= up.count /\ up.base + 2 * up.count <= Len(args)
          /\ Len(args) \in Nat
      BY <1>1, <1>9 DEF FileSent, IInv, Metered
    <3> DEFINE j == up.base + 2 * up.i - 1
    <3>2. j \in Nat /\ 0 < j /\ j <= Len(args)
      BY <3>1
    <3> HIDE DEF j
    <3>3. strtoul(args[j]) \in Nat
      BY <1>1, <3>2, strtoulNat
    <3> QED BY <3>3 DEF Place1, j
  <2>5. \A a \in DOMAIN shot : InGuard(a) => Overlay(mem, Place1, Next1)[a] = mem[a]
    BY <1>1, <2>1, <2>3, <2>4, GuardKeeps
  <2> QED BY <1>1, <2>1, <2>5, GuardedFrame
<1>10. CASE UploadEnd \/ FileChange \/ reset64 \/ End
  BY <1>2, <1>10 DEF UploadEnd, FileChange, reset64, End, imageVars
<1>11. ASSUME NEW by, SplOnly(by) PROVE Guarded'
  BY <1>2, <1>11 DEF SplOnly, imageVars
<1>12. ASSUME NEW by, NEW img, LegacyDone(by, img) PROVE Guarded'
  <2> DEFINE t == FileInfo[img.from].tail
  <2>1. /\ SplRun(by) /\ img \in Behind(TheFile) /\ Found(img)
        /\ uboot_entry' = t.load /\ uboot_size' = t.size
        /\ shot' = [a \in (t.load .. (t.load + t.size - 1)) \cap Addr |-> mem'[a]]
    BY <1>12 DEF LegacyDone, Complete
  <2>2. img.from \in DOMAIN FileInfo
    BY <2>1, BehindIs
  <2>3. t.load \in Nat /\ t.size \in Nat
    BY <2>2, FilesAssumption
  <2> DEFINE D == (t.load .. (t.load + t.size - 1)) \cap Addr
  <2>4. /\ uboot_entry' \in Nat /\ uboot_size' \in Nat /\ D \in SUBSET Addr
        /\ shot' = [a \in D |-> mem'[a]]
        /\ D = (uboot_entry' .. (uboot_entry' + uboot_size' - 1)) \cap Addr
    BY <2>1, <2>3
  <2> HIDE DEF D
  <2> QED BY ONLY <2>4, NewShot
<1>13. ASSUME NEW by, NEW img, FitDone(by, img) PROVE Guarded'
  <2> DEFINE st == load_fit_images(fits[img.from], spl_get_dtb_name(Head1(TheFile)))
             D == Touched(st.uploads)
  <2>1. /\ SplRun(by) /\ img \in Behind(TheFile) /\ IsFit(img)
        /\ uboot_entry' = st.entry /\ uboot_size' = 4
        /\ shot' = [a \in D |-> mem'[a]] /\ last'.kind = "fit"
    BY <1>13 DEF FitDone
  <2>2. IsFitImage(fits[img.from])
    BY <1>1, <2>1, FitFound
  <2>3. st.entry \in Nat
    BY <2>2, FitIs
  <2>4. /\ uboot_entry' \in Nat /\ uboot_size' \in Nat /\ D \in SUBSET Addr
        /\ shot' = [a \in D |-> mem'[a]] /\ last'.kind = "fit"
    BY <2>1, <2>3 DEF Touched
  <2> HIDE DEF D
  <2> QED BY ONLY <2>4, NewShot
<1>14. CASE CmdNext
  BY <1>1, <1>4, <1>5, <1>6, <1>7, <1>8, <1>9, <1>10, <1>11, <1>12, <1>13, <1>14,
     CmdCases
<1> QED BY <1>3, <1>14 DEF Next

-----------------------------------------------------------------------------
(* Progress. *)

Looking == {"options", "enumerate", "listing", "open"}

LEMMA DevPc ==
    ASSUME DevNext \/ BusChange
    PROVE  pc \in Looking
           /\ pc' \in Looking \cup {"loop", "exit 0", "exit 1", "usage"}
<1>1. ASSUME NEW name, NEW field, Flag(name, field)
      PROVE  pc \in Looking /\ pc' \in Looking
  BY <1>1 DEF Flag, HasOption, Looking
<1>2. CASE OptDev \/ OptSid
  BY <1>2, Zenon DEF OptDev, OptSid, HasOption, Exit, Looking
<1>3. CASE Usage \/ OptEnd
  BY <1>3 DEF Usage, OptEnd, Exit, Looking
<1>4. CASE ListStart \/ ListOpen \/ ListClose
  BY <1>4, Zenon DEF ListStart, ListOpen, ListClose, Exit, Looking
<1>5. CASE ListEnd
  <2>1. pc = "listing" /\ pc' \in {"exit 0", "exit 1", "open"}
    BY <1>5 DEF ListEnd, Exit
  <2> QED BY <2>1 DEF Looking
<1>6. CASE Open
  BY <1>6, Zenon DEF Open, Exit, Looking
<1>7. CASE BusChange
  BY <1>7 DEF BusChange, Looking
<1> QED BY <1>1, <1>2, <1>3, <1>4, <1>5, <1>6, <1>7, Zenon DEF DevNext

LEMMA MeterFrame ==
    ASSUME Metered, UNCHANGED <<progress, meter>>,
           \/ meter = "none" /\ pc' # "upload"
           \/ pc = "loop" /\ pc' \in {"loop", "exit 0"}
           \/ pc' \in {"exit 1", "crashed"}
    PROVE  Metered'
BY DEF Metered

LEMMA NewMeter ==
    ASSUME NEW n \in Nat, SpiProgress(n), Metered, pc = "loop", pc' = "loop"
    PROVE  Metered'
<1>1. CASE Board[handle].spi
  <2>1. progress' = [cb |-> opt.p, total |-> n, done |-> n]
    BY <1>1 DEF SpiProgress
  <2>2. /\ progress' = [cb |-> progress'.cb, total |-> progress'.total,
                        done |-> progress'.done]
        /\ progress'.total = n /\ progress'.done = n
    BY <2>1
  <2> QED BY <2>2 DEF Metered
<1>2. CASE ~Board[handle].spi
  <2>1. UNCHANGED <<progress, meter>>
    BY <1>2 DEF SpiProgress, meterVars
  <2> QED BY <2>1, MeterFrame
<1> QED BY <1>1, <1>2

LEMMA UploadStart_meter ==
    ASSUME Inputs, NEW count \in Nat, NEW base \in Nat, NEW cb,
           UploadStart(count, base, cb)
    PROVE  Metered'
<1> DEFINE size(i) == Len(files[FileName(args[base + 2 * i])])
           s == [i \in 1..count |-> size(i)]
<1>1. /\ progress' = progress_start(cb, Sum(s))
      /\ up' = [i |-> 1, count |-> count, base |-> base]
      /\ pc' = "upload" /\ files' = files /\ args' = args
      /\ Len(args) - base >= 2 * count
      /\ \A i \in 1..count : Exists(args[base + 2 * i])
  BY DEF UploadStart
<1>2. \A i \in 1..count : size(i) \in Nat
  BY <1>1, IsSeqLen DEF Inputs, Exists
<1>3. s \in Seq(Nat) /\ Len(s) = count /\ \A i \in 1..count : s[i] = size(i)
  <2>1. s \in [1..count -> Nat]
    BY <1>2
  <2>2. \A i \in 1..count : s[i] = size(i)
    OBVIOUS
  <2> HIDE DEF s, size
  <2> QED BY <2>1, <2>2
<1> HIDE DEF s
<1>4. PICK f \in [0..count -> Nat] :
         /\ f[0] = 0
         /\ \A i \in 1..count : f[i] = f[i - 1] + s[i]
         /\ \A i \in 0..count : f[i] <= Sum(s)
         /\ Sum(s) = f[count]
  BY <1>3, SumIs
<1>5. up'.i = 1 /\ up'.count = count /\ up'.base = base
      /\ up' = [i |-> up'.i, count |-> up'.count, base |-> up'.base]
  BY <1>1
<1>6. Sizes(f)'
  <2>1. \A i \in 1..count : f[i] = f[i - 1] + size(i)
    BY <1>3, <1>4
  <2> QED BY <1>1, <1>4, <1>5, <2>1 DEF Sizes
<1>7. /\ progress' = [cb |-> progress'.cb, total |-> progress'.total,
                      done |-> progress'.done]
      /\ progress'.total = Sum(s) /\ progress'.done = 0
  BY <1>1 DEF progress_start
<1>8. Sum(s) \in Nat /\ 0 <= Sum(s) /\ up'.i - 1 = 0
  BY <1>4, <1>5
<1>9. \E g : /\ Sizes(g)'
             /\ progress'.total = g[up'.count]
             /\ progress'.done = g[up'.i - 1]
  BY <1>4, <1>5, <1>6, <1>7, <1>8
<1>10. /\ up'.i \in 1..(up'.count + 1)
       /\ up'.base + 2 * up'.count <= Len(args')
  <2>1. Len(args) \in Nat
    BY DEF Inputs
  <2> QED BY <1>1, <1>5, <2>1
<1> HIDE DEF size
<1> QED BY <1>1, <1>5, <1>7, <1>8, <1>9, <1>10 DEF Metered

LEMMA FileSent_meter == ASSUME Inputs, Metered, FileSent PROVE Metered'
<1> DEFINE k == Len(Next1)
<1>1. /\ pc = "upload" /\ pc' = "upload" /\ up.i <= up.count
      /\ FileName(args[up.base + 2 * up.i]) \in DOMAIN files
      /\ progress' = IF progress.cb THEN [progress EXCEPT !.done = @ + k] ELSE progress
      /\ up' = [up EXCEPT !.i = @ + 1]
      /\ UNCHANGED <<args, files, meter>>
  BY DEF FileSent
<1>2. k \in Nat
  <2>1. IsSeq(Next1)
    BY <1>1 DEF Inputs, Next1
  <2> QED BY <2>1, IsSeqLen
<1>3. /\ up = [i |-> up.i, count |-> up.count, base |-> up.base]
      /\ up.count \in Nat /\ up.base \in Nat /\ up.i \in 1..(up.count + 1)
      /\ up.base + 2 * up.count <= Len(args)
      /\ progress = [cb |-> progress.cb, total |-> progress.total,
                     done |-> progress.done]
  BY <1>1 DEF Metered
<1>4. /\ up' = [i |-> up'.i, count |-> up'.count, base |-> up'.base]
      /\ up'.i = up.i + 1 /\ up'.count = up.count /\ up'.base = up.base
  BY <1>1, <1>3
<1>5. /\ progress' = [cb |-> progress'.cb, total |-> progress'.total,
                      done |-> progress'.done]
      /\ progress'.cb = progress.cb /\ progress'.total = progress.total
      /\ progress.cb => progress'.done = progress.done + k
  BY <1>1, <1>3
<1>6. up'.i \in 1..(up'.count + 1)
  BY <1>1, <1>3, <1>4
<1>7. ASSUME meter' = "files", progress'.cb
      PROVE  /\ progress'.done \in Nat /\ progress'.total \in Nat
             /\ progress'.done <= progress'.total
             /\ \E f : /\ Sizes(f)'
                       /\ progress'.total = f[up'.count]
                       /\ progress'.done = f[up'.i - 1]
  <2>1. PICK f : /\ Sizes(f)
                 /\ progress.total = f[up.count]
                 /\ progress.done = f[up.i - 1]
    BY <1>1, <1>5, <1>7 DEF Metered
  <2>2. Sizes(f)'
    BY <1>1, <1>4, <2>1 DEF Sizes
  <2>3. up.i \in 1..up.count /\ up.i \in 0..up.count /\ up.i - 1 \in 0..up.count
    BY <1>1, <1>3
  <2>4. f[up.i] = f[up.i - 1] + k /\ f[up.i] <= f[up.count]
        /\ f[up.i] \in Nat /\ f[up.count] \in Nat
    BY <1>3, <2>1, <2>3 DEF Sizes, Next1
  <2>5. up'.i - 1 = up.i
    BY <1>3, <1>4
  <2>6. progress'.done = f[up'.i - 1] /\ progress'.total = f[up'.count]
    BY <1>4, <1>5, <1>7, <2>1, <2>4, <2>5
  <2> QED BY <1>4, <2>2, <2>4, <2>5, <2>6
<1> HIDE DEF k
<1> QED BY <1>1, <1>3, <1>4, <1>5, <1>6, <1>7 DEF Metered

LEMMA Metered_step == ASSUME IInv, Next PROVE Metered'
<1>1. /\ Metered /\ Inputs /\ args \in Seq(Words) /\ opt.p \in BOOLEAN
      /\ \A n \in DOMAIN files : IsSeq(files[n])
  BY DEF IInv, Inputs, DevTypes, Opts
<1>2. CASE (DevNext \/ BusChange) /\ UNCHANGED cmdVars
  <2>1. pc \in Looking /\ pc' # "upload" /\ UNCHANGED <<progress, meter>>
    BY <1>2, DevPc DEF cmdVars, Looking
  <2>2. meter = "none"
    BY <1>1, <2>1 DEF Metered, Looking
  <2> QED BY <1>1, <2>1, <2>2, MeterFrame
<1>3. CASE Halts
  BY <1>1, <1>3, MeterFrame DEF Halts, cmdVars
<1>4. CASE NoEffects \/ Writes \/ Filled("clear", 2) \/ Filled("fill", 3)
  <2>1. pc = "loop" /\ UNCHANGED <<pc, progress, meter>>
    BY <1>4 DEF NoEffects, aw_fel_hexdump, fel_readl, aw_fel_print_version,
         aw_fel_print_sid, echo_gauge, aw_fel_spiflash_info, NoEffect, Writes,
         fel_memmove, fel_writel, aw_fel_execute, aw_wd_reset, Unguarded,
         Filled, meterVars, Command
  <2> QED BY <1>1, <2>1, MeterFrame
<1>5. CASE ReadDone \/ reset64
  <2>1. pc = "loop" /\ UNCHANGED <<pc, progress, meter>>
    BY <1>5 DEF ReadDone, reset64, meterVars, Command
  <2> QED BY <1>1, <2>1, MeterFrame
<1>6. CASE FlashReadDone
  <2>1. /\ pc = "loop" /\ pc' = "loop" /\ SpiProgress(strtoul(args[3]))
        /\ Len(args) > 3
    BY <1>6 DEF FlashReadDone, Command
  <2>2. strtoul(args[3]) \in Nat
    BY <1>1, <2>1, strtoulNat
  <2> QED BY <1>1, <2>1, <2>2, NewMeter
<1>7. CASE FlashWriteDone
  <2>1. /\ pc = "loop" /\ pc' = "loop" /\ Exists(args[3])
        /\ SpiProgress(Len(files[FileName(args[3])]))
    BY <1>7 DEF FlashWriteDone, Command
  <2>2. Len(files[FileName(args[3])]) \in Nat
    BY <1>1, <2>1, IsSeqLen DEF Exists
  <2> QED BY <1>1, <2>1, <2>2, NewMeter
<1>8. ASSUME NEW count \in Nat, NEW base \in Nat, NEW cb, UploadStart(count, base, cb)
      PROVE  Metered'
  BY <1>1, <1>8, UploadStart_meter
<1>9. CASE FileSent
  BY <1>1, <1>9, FileSent_meter
<1>10. CASE UploadEnd
  <2>1. /\ pc = "upload" /\ up.i > up.count /\ pc' = "loop"
        /\ UNCHANGED <<progress, meter>>
    BY <1>10 DEF UploadEnd, meterVars
  <2>2. up.count \in Nat /\ up.i \in 1..(up.count + 1)
    BY <1>1, <2>1 DEF Metered
  <2>3. up.i - 1 = up.count
    BY <2>1, <2>2
  <2>4. meter = "files" /\ progress.cb => progress.done = progress.total
    BY <1>1, <2>1, <2>3 DEF Metered
  <2> QED BY <1>1, <2>1, <2>4 DEF Metered
<1>11. CASE FileChange
  BY <1>1, <1>11 DEF FileChange, Metered
<1>12. ASSUME NEW by, NEW img, SplOnly(by) \/ LegacyDone(by, img)
       PROVE  Metered'
  <2>1. SplRun(by) /\ SplEffect(by) /\ UNCHANGED <<progress, meter>>
    BY <1>12 DEF SplOnly, LegacyDone, meterVars
  <2>2. pc = "loop" /\ pc' = pc
    BY <2>1 DEF SplRun, SplEffect, Command
  <2> QED BY <1>1, <2>1, <2>2, MeterFrame
<1>13. ASSUME NEW by, NEW img, FitDone(by, img) PROVE Metered'
  <2>1. /\ SplRun(by) /\ SplEffect(by) /\ meter' = "fit"
        /\ \E d : progress' = [progress EXCEPT !.done = d]
    BY <1>13 DEF FitDone
  <2>2. pc = "loop" /\ pc' = pc
    BY <2>1 DEF SplRun, SplEffect, Command
  <2>3. progress = [cb |-> progress.cb, total |-> progress.total,
                    done |-> progress.done]
    BY <1>1 DEF Metered
  <2>4. progress' = [cb |-> progress'.cb, total |-> progress'.total,
                     done |-> progress'.done]
    BY <2>1, <2>3
  <2> QED BY <2>1, <2>2, <2>4 DEF Metered
<1>14. CASE End
  BY <1>1, <1>14, MeterFrame DEF End, meterVars, Exit
<1>15. CASE CmdNext
  BY <1>1, <1>3, <1>4, <1>5, <1>6, <1>7, <1>8, <1>9, <1>10, <1>11, <1>12, <1>13,
     <1>14, <1>15, CmdCases
<1> QED BY <1>2, <1>15 DEF Next

-----------------------------------------------------------------------------
(* What is started. *)

LEMMA ImageFrame ==
    ASSUME UNCHANGED <<fits, last, lastFit>>
    PROVE  /\ EntryOf(last)' = EntryOf(last)
           /\ Aarch64Of(lastFit)' = Aarch64Of(lastFit)
<1>1. ImagesOf(last)' = ImagesOf(last) /\ ImagesOf(lastFit)' = ImagesOf(lastFit)
  BY DEF ImagesOf
<1>2. EntryOf(last)' = EntryOf(last)
  BY <1>1 DEF EntryOf
<1>3. Aarch64Of(lastFit)' = Aarch64Of(lastFit)
  BY <1>1 DEF Aarch64Of
<1> QED BY <1>2, <1>3

\* Steps that load nothing.
LEMMA LoadedFrame ==
    ASSUME Loaded, UNCHANGED <<fits, last, lastFit, uboot_entry, uboot_size,
                               enter_in_aarch64>>,
           \/ uboot_autostart' = uboot_autostart
           \/ uboot_autostart' = FALSE
           \/ uboot_autostart' = (uboot_entry > 0 /\ uboot_size > 0)
    PROVE  Loaded'
<1>1. /\ EntryOf(last)' = EntryOf(last)
      /\ Aarch64Of(lastFit)' = Aarch64Of(lastFit)
  BY ImageFrame
<1>2. uboot_autostart' \in BOOLEAN
  BY DEF Loaded
<1>3. last.kind = "none" => ~uboot_autostart'
  BY DEF Loaded
<1>4. uboot_autostart' => uboot_entry > 0 \/ last.by = "spl"
  BY DEF Loaded
<1> QED BY <1>1, <1>2, <1>3, <1>4 DEF Loaded

LEMMA Legacy_loaded ==
    ASSUME Loaded, NEW by \in {"spl", "uboot"}, NEW img, LegacyDone(by, img)
    PROVE  Loaded'
<1> DEFINE t == FileInfo[img.from].tail
<1>1. /\ SplRun(by) /\ img \in Behind(TheFile) /\ Found(img)
      /\ uboot_entry' = t.load /\ uboot_size' = t.size
      /\ last' = [name |-> img.from, kind |-> "legacy", dt |-> NoName, by |-> by,
                  file |-> Head1(TheFile), len |-> Len(TheFile)]
      /\ lastFit' = lastFit /\ enter_in_aarch64' = enter_in_aarch64
      /\ SplEffect(by)
  BY DEF LegacyDone, Complete
<1>2. img.from \in DOMAIN FileInfo
  BY <1>1, BehindIs
<1>3. last'.kind = "legacy" /\ last'.name = img.from /\ last'.by = by
  BY <1>1
<1>4. EntryOf(last)' = t.load
  BY <1>3 DEF EntryOf
<1>5. Aarch64Of(lastFit)' = Aarch64Of(lastFit)
  <2>1. fits' = fits /\ lastFit' = lastFit
    BY <1>1 DEF SplEffect, otherVars, givenVars
  <2>2. ImagesOf(lastFit)' = ImagesOf(lastFit)
    BY <2>1 DEF ImagesOf
  <2> QED BY <2>1, <2>2 DEF Aarch64Of
<1>6. uboot_autostart' = IF by = "uboot" THEN uboot_entry' > 0 /\ uboot_size' > 0
                         ELSE uboot_autostart
  BY <1>1 DEF SplEffect
<1>7. uboot_autostart' \in BOOLEAN /\ (uboot_autostart' => uboot_entry' > 0 \/ by = "spl")
  BY <1>6 DEF Loaded
<1>8. enter_in_aarch64 \in BOOLEAN /\ enter_in_aarch64 = Aarch64Of(lastFit)
  BY DEF Loaded
<1> QED BY <1>1, <1>2, <1>3, <1>4, <1>5, <1>7, <1>8 DEF Loaded

LEMMA Fit_loaded ==
    ASSUME Inputs, Loaded, NEW by \in {"spl", "uboot"}, NEW img, FitDone(by, img)
    PROVE  Loaded'
<1> DEFINE fit == fits[img.from]
           dt == spl_get_dtb_name(Head1(TheFile))
           c == Configuration(fit, dt)
           st == load_fit_images(fit, dt)
           names == NamesOf(fit.configs[c])
           all == LoadAll(fit, names)
           imgs == IF c = 0 THEN << >> ELSE Usable(fit, names)
           e == Entered(imgs)
           m == Moded(imgs)
<1>1. /\ SplRun(by) /\ img \in Behind(TheFile) /\ IsFit(img)
      /\ uboot_entry' = st.entry
      /\ enter_in_aarch64' = IF c # 0 THEN st.arch = "arm64" ELSE enter_in_aarch64
      /\ last' = [name |-> img.from, kind |-> "fit", dt |-> dt, by |-> by,
                  file |-> Head1(TheFile), len |-> Len(TheFile)]
      /\ lastFit' = IF c # 0 THEN last' ELSE lastFit
      /\ SplEffect(by)
  BY DEF FitDone
<1>2. /\ img.from \in DOMAIN FileInfo /\ FileInfo[img.from].tail.type = "flatdt"
      /\ IsFitImage(fit)
  BY <1>1, FitFound
<1>3. fits' = fits
  BY <1>1 DEF SplEffect, otherVars, givenVars
<1>4. /\ last'.kind = "fit" /\ last'.name = img.from /\ last'.by = by /\ last'.dt = dt
  BY <1>1
<1>5. ImagesOf(last)' = imgs
  BY <1>3, <1>4 DEF ImagesOf, Chosen
<1>6. /\ st.entry = IF e = 0 THEN 0 ELSE imgs[e].entry
      /\ st.entry \in Nat
      /\ c # 0 => (st.arch = "arm64") = (m # 0 /\ imgs[m].arch = "arm64")
  <2>1. CASE c = 0
    <3>1. st.entry = 0
      BY <1>2, <2>1, FitIs DEF NothingLoaded
    <3>2. e = 0
      BY <2>1 DEF Entered
    <3> QED BY <2>1, <3>1, <3>2
  <2>2. CASE c # 0
    <3>1. c \in DOMAIN fit.configs /\ st.entry = all.entry /\ st.arch = all.arch
          /\ st.entry \in Nat
      BY <1>2, <2>2, FitIs
    <3>2. names \in Seq(STRING)
      BY <1>2, <3>1, NamesAre
    <3>3. fit.images \in [DOMAIN fit.images -> Images]
      BY <1>2 DEF IsFitImage
    <3>4. imgs = Usable(fit, names)
      BY <2>2
    <3> HIDE DEF imgs, names, fit, c, st
    <3>5. /\ all.entry = IF e = 0 THEN 0 ELSE imgs[e].entry
          /\ (all.arch = "arm64") = (m # 0 /\ imgs[m].arch = "arm64")
      BY <3>2, <3>3, <3>4, EntryIs
    <3> QED BY <2>2, <3>1, <3>5
  <2> QED BY <2>1, <2>2
<1> HIDE DEF fit, dt, c, st, imgs, all
<1>7. EntryOf(last)' = st.entry
  BY <1>4, <1>5, <1>6 DEF EntryOf
<1>10. /\ enter_in_aarch64 \in BOOLEAN /\ uboot_autostart \in BOOLEAN
       /\ enter_in_aarch64 = Aarch64Of(lastFit)
  BY DEF Loaded
<1> HIDE DEF e, m
<1>11. enter_in_aarch64' = Aarch64Of(lastFit)'
  <2>1. CASE c # 0
    <3>1. lastFit' = last'
      BY <1>1, <2>1
    <3>2. ImagesOf(lastFit)' = imgs /\ lastFit'.kind = "fit"
      BY <1>4, <1>5, <3>1 DEF ImagesOf
    <3>3. Aarch64Of(lastFit)' = (m # 0 /\ imgs[m].arch = "arm64")
      BY <3>2 DEF Aarch64Of, m
    <3> QED BY <1>1, <1>6, <2>1, <3>3
  <2>2. CASE c = 0
    <3>1. lastFit' = lastFit /\ enter_in_aarch64' = enter_in_aarch64
      BY <1>1, <2>2
    <3>2. ImagesOf(lastFit)' = ImagesOf(lastFit)
      BY <1>3, <3>1 DEF ImagesOf
    <3>3. Aarch64Of(lastFit)' = Aarch64Of(lastFit)
      BY <3>1, <3>2 DEF Aarch64Of
    <3> QED BY <1>10, <3>1, <3>3
  <2> QED BY <2>1, <2>2
<1>12. uboot_autostart' = IF by = "uboot" THEN uboot_entry' > 0 /\ uboot_size' > 0
                          ELSE uboot_autostart
  BY <1>1 DEF SplEffect
<1>13. /\ uboot_autostart' \in BOOLEAN
       /\ uboot_autostart' => uboot_entry' > 0 \/ by = "spl"
  BY <1>10, <1>12
<1>14. enter_in_aarch64' \in BOOLEAN
  BY <1>1, <1>10
<1> QED BY <1>1, <1>2, <1>4, <1>7, <1>11, <1>13, <1>14 DEF Loaded

LEMMA Loaded_step == ASSUME IInv, Next PROVE Loaded'
<1>1. /\ Loaded /\ Inputs /\ args \in Seq(Words) /\ opt.p \in BOOLEAN
  BY DEF IInv, Inputs, DevTypes, Opts
<1> DEFINE Still == UNCHANGED <<fits, last, lastFit, uboot_entry, uboot_size,
                                enter_in_aarch64>>
<1>2. CASE (DevNext \/ BusChange) /\ UNCHANGED cmdVars
  <2>1. Still /\ uboot_autostart' = uboot_autostart
    BY <1>2 DEF cmdVars
  <2> QED BY <1>1, <2>1, LoadedFrame
<1>3. CASE Halts \/ End \/ UploadEnd \/ FileChange \/ FileSent
  <2>1. Still /\ uboot_autostart' = uboot_autostart
    BY <1>3 DEF Halts, cmdVars, End, UploadEnd, FileChange, FileSent, imageVars,
         givenVars
  <2> QED BY <1>1, <2>1, LoadedFrame
<1>4. CASE NoEffects \/ Writes \/ Filled("clear", 2) \/ Filled("fill", 3)
  <2>1. Still /\ uboot_autostart' = uboot_autostart
    BY <1>4 DEF NoEffects, aw_fel_hexdump, fel_readl, aw_fel_print_version,
         aw_fel_print_sid, echo_gauge, aw_fel_spiflash_info, NoEffect, Writes,
         fel_memmove, fel_writel, aw_fel_execute, aw_wd_reset, Unguarded,
         Filled, imageVars, otherVars, givenVars
  <2> QED BY <1>1, <2>1, LoadedFrame
<1>5. CASE ReadDone \/ FlashReadDone \/ FlashWriteDone
  <2>1. Still /\ uboot_autostart' = uboot_autostart
    BY <1>5 DEF ReadDone, FlashReadDone, FlashWriteDone, imageVars, otherVars,
         givenVars
  <2> QED BY <1>1, <2>1, LoadedFrame
<1>6. ASSUME NEW count, NEW base, NEW cb, UploadStart(count, base, cb)
      PROVE  Loaded'
  <2>1. Still /\ uboot_autostart' = uboot_autostart
    BY <1>6 DEF UploadStart, imageVars, givenVars
  <2> QED BY <1>1, <2>1, LoadedFrame
<1>7. CASE reset64
  <2>1. Still /\ uboot_autostart' = FALSE
    BY <1>7 DEF reset64, imageVars, otherVars, givenVars
  <2> QED BY <1>1, <2>1, LoadedFrame
<1>8. ASSUME NEW by, SplOnly(by) PROVE Loaded'
  <2>1. Still /\ SplEffect(by)
    BY <1>8 DEF SplOnly, SplEffect, imageVars, otherVars, givenVars
  <2>2. \/ uboot_autostart' = uboot_autostart
        \/ uboot_autostart' = (uboot_entry > 0 /\ uboot_size > 0)
    BY <2>1 DEF SplEffect
  <2> QED BY <1>1, <2>1, <2>2, LoadedFrame
<1>9. ASSUME NEW by \in {"spl", "uboot"}, NEW img, LegacyDone(by, img) \/ FitDone(by, img)
      PROVE  Loaded'
  BY <1>1, <1>9, Legacy_loaded, Fit_loaded
<1>10. CASE CmdNext
  BY <1>1, <1>3, <1>4, <1>5, <1>6, <1>7, <1>8, <1>9, <1>10, CmdCases
<1> QED BY <1>2, <1>10 DEF Next

LEMMA Told_step == ASSUME IInv, Next PROVE Told'
<1>1. /\ Told /\ args \in Seq(Words) /\ opt.p \in BOOLEAN
  BY DEF IInv, Inputs, DevTypes, Opts
<1>2. ASSUME UNCHANGED <<spl, script, bootinfo>> PROVE Told'
  BY <1>1, <1>2 DEF Told
<1>3. CASE (DevNext \/ BusChange) /\ UNCHANGED cmdVars
  BY <1>2, <1>3 DEF cmdVars
<1>4. CASE Halts \/ End \/ UploadEnd \/ FileChange \/ reset64 \/ ReadDone \/ FlashWriteDone
  BY <1>2, <1>4 DEF Halts, cmdVars, End, UploadEnd, FileChange, reset64,
       ReadDone, FlashWriteDone, splVars
<1>5. CASE NoEffects \/ Writes \/ Filled("clear", 2) \/ Filled("fill", 3)
  BY <1>2, <1>5 DEF NoEffects, aw_fel_hexdump, fel_readl, aw_fel_print_version,
         aw_fel_print_sid, echo_gauge, aw_fel_spiflash_info, NoEffect, Writes,
         fel_memmove, fel_writel, aw_fel_execute, aw_wd_reset, Unguarded,
         Filled, splVars
<1>6. CASE FlashReadDone
  <2>1. script' = script /\ (UNCHANGED <<spl, bootinfo>> \/ spl' = 0)
    BY <1>6 DEF FlashReadDone
  <2>2. CASE UNCHANGED <<spl, bootinfo>>
    BY <1>2, <2>1, <2>2
  <2>3. CASE spl' = 0
    <3>1. spl' \notin 1..31
      BY <2>3
    <3> QED BY <3>1 DEF Told
  <2> QED BY <2>1, <2>2, <2>3
<1>7. ASSUME NEW count, NEW base, NEW cb, UploadStart(count, base, cb)
      PROVE  Told'
  BY <1>2, <1>7 DEF UploadStart, splVars
<1>8. CASE FileSent
  <2>1. spl' = spl
    BY <1>8 DEF FileSent
  <2>2. CASE UNCHANGED <<bootinfo, script>>
    BY <1>2, <2>1, <2>2
  <2>3. CASE \E len : /\ pass_fel_information(Place1, len)
                     /\ script' = IF have_sunxi_spl THEN <<Place1, len>> ELSE script
    BY <1>1, <2>1, <2>3 DEF Told, pass_fel_information, have_sunxi_spl
  <2> QED BY <1>8, <2>2, <2>3 DEF FileSent
<1>9. ASSUME NEW by, NEW img, SplOnly(by) \/ LegacyDone(by, img) \/ FitDone(by, img)
      PROVE  Told'
  <2>1. script' = NoInfo
    BY <1>9 DEF SplOnly, LegacyDone, FitDone, SplEffect
  <2> QED BY <2>1 DEF Told
<1>10. CASE CmdNext
  BY <1>1, <1>4, <1>5, <1>6, <1>7, <1>8, <1>9, <1>10, CmdCases
<1> QED BY <1>3, <1>10 DEF Next

-----------------------------------------------------------------------------
(***************************************************************************)
(* What a load leaves in memory.                                           *)
(***************************************************************************)
Uploads == [addr : Int, data : Seq(Cell), progress : BOOLEAN]

UploadFun(f, m, u, n) ==
    f = [i \in 0..n |-> IF i = 0 THEN m
                        ELSE Overlay(f[i - 1], u[i].addr, u[i].data)]

LEMMA UploadExists ==
    ASSUME NEW m, NEW u, NEW n \in Nat
    PROVE  \E f : UploadFun(f, m, u, n)
<1> DEFINE P(j) == \E f : UploadFun(f, m, u, j)
           T == {j \in Nat : ~P(j)}
<1>1. P(0)
  <2> DEFINE f == [i \in 0..0 |-> m]
  <2>1. UploadFun(f, m, u, 0)
    BY DEF UploadFun
  <2> QED BY <2>1
<1>2. ASSUME NEW j \in Nat, P(j) PROVE P(j + 1)
  <2>1. PICK f : UploadFun(f, m, u, j)
    BY <1>2
  <2> DEFINE g == [i \in 0..(j + 1) |-> IF i = 0 THEN m
                      ELSE Overlay(f[i - 1], u[i].addr, u[i].data)]
  <2>2. \A i \in 0..j : g[i] = f[i]
    BY <2>1 DEF UploadFun
  <2>3. \A i \in 0..(j + 1) : i # 0 => i - 1 \in 0..j
    OBVIOUS
  <2>4. UploadFun(g, m, u, j + 1)
    BY <2>2, <2>3 DEF UploadFun
  <2> QED BY <2>4
<1> HIDE DEF P
<1>3. T = {}
  <2> SUFFICES ASSUME T # {} PROVE FALSE
    OBVIOUS
  <2>1. T \in SUBSET Nat
    OBVIOUS
  <2>2. PICK j \in T : \A k \in T : j <= k
    BY <2>1, LeastElement
  <2>3. j \in Nat /\ ~P(j)
    OBVIOUS
  <2>4. j # 0
    BY <1>1, <2>3
  <2>5. j - 1 \in Nat /\ j - 1 \notin T
    BY <2>2, <2>3, <2>4
  <2>6. P(j - 1)
    BY <2>5
  <2>7. P((j - 1) + 1)
    BY <1>2, <2>5, <2>6
  <2>8. (j - 1) + 1 = j
    BY <2>3
  <2> QED BY <2>3, <2>7, <2>8
<1>4. P(n)
  BY <1>3
<1> QED BY <1>4 DEF P

LEMMA UploadedIs ==
    ASSUME NEW m, NEW u, Len(u) \in Nat
    PROVE  \E f : /\ f[0] = m
                  /\ \A i \in 1..Len(u) :
                        f[i] = Overlay(f[i - 1], u[i].addr, u[i].data)
                  /\ Uploaded(m, u) = f[Len(u)]
<1> DEFINE n == Len(u)
           after == CHOOSE f : UploadFun(f, m, u, n)
<1>1. n \in Nat
  OBVIOUS
<1>2. UploadFun(after, m, u, n)
  <2>1. \E f : UploadFun(f, m, u, n)
    BY <1>1, UploadExists
  <2> QED BY <2>1
<1>3. Uploaded(m, u) = after[n]
  BY DEF Uploaded, UploadFun
<1> HIDE DEF after, n
<1>4. after[0] = m
  BY <1>1, <1>2 DEF UploadFun
<1>5. \A i \in 1..n : after[i] = Overlay(after[i - 1], u[i].addr, u[i].data)
  BY <1>1, <1>2 DEF UploadFun
<1> QED BY <1>3, <1>4, <1>5 DEF n

LEMMA UploadedNone == ASSUME NEW m PROVE Uploaded(m, <<>>) = m
<1>1. Len(<<>>) = 0
  OBVIOUS
<1>2. PICK f : f[0] = m /\ Uploaded(m, <<>>) = f[0]
  BY <1>1, UploadedIs
<1> QED BY <1>2

LEMMA UploadedAppend ==
    ASSUME NEW m, NEW u \in Seq(Uploads), NEW x \in Uploads
    PROVE  Uploaded(m, Append(u, x)) = Overlay(Uploaded(m, u), x.addr, x.data)
<1> DEFINE v == Append(u, x)
           n == Len(u)
<1>1. n \in Nat
  OBVIOUS
<1>2. /\ Len(v) = n + 1 /\ v[n + 1] = x
      /\ \A i \in 1..n : v[i] = u[i]
  BY AppendProperties
<1> HIDE DEF v
<1>3. Len(v) \in Nat
  BY <1>1, <1>2
<1>4. PICK f : /\ f[0] = m
               /\ \A i \in 1..n : f[i] = Overlay(f[i - 1], u[i].addr, u[i].data)
               /\ Uploaded(m, u) = f[n]
  BY <1>1, UploadedIs
<1>5. PICK g : /\ g[0] = m
               /\ \A i \in 1..Len(v) : g[i] = Overlay(g[i - 1], v[i].addr, v[i].data)
               /\ Uploaded(m, v) = g[Len(v)]
  BY <1>3, UploadedIs
<1> HIDE DEF n
<1> DEFINE T == {i \in 0..n : g[i] # f[i]}
<1>6. T = {}
  <2> SUFFICES ASSUME T # {} PROVE FALSE
    OBVIOUS
  <2>1. T \in SUBSET Nat
    BY <1>1
  <2>2. PICK j \in T : \A k \in T : j <= k
    BY <2>1, LeastElement
  <2>3. j \in 0..n /\ g[j] # f[j]
    OBVIOUS
  <2>4. j # 0
    BY <1>4, <1>5, <2>3
  <2>5. j - 1 \in 0..n /\ j - 1 \notin T
    <3>1. j - 1 \in 0..n /\ ~(j <= j - 1)
      BY <1>1, <2>3, <2>4
    <3> HIDE DEF T
    <3> QED BY <2>2, <3>1
  <2>6. g[j - 1] = f[j - 1]
    BY <2>5
  <2>7. j \in 1..n /\ j \in 1..Len(v)
    BY <1>1, <1>2, <2>3, <2>4
  <2> QED BY <1>2, <1>4, <1>5, <2>3, <2>6, <2>7
<1>7. g[n] = f[n]
  BY <1>1, <1>6
<1>8. n + 1 \in 1..Len(v) /\ (n + 1) - 1 = n
  BY <1>1, <1>2
<1>9. g[n + 1] = Overlay(g[n], x.addr, x.data)
  BY <1>2, <1>5, <1>8
<1> QED BY <1>2, <1>4, <1>5, <1>7, <1>9 DEF v

\* What is written can be read back.
LEMMA OverlayWrites ==
    ASSUME NEW m, NEW addr \in Int, NEW data, NEW a \in Addr, NEW S, data \in Seq(S)
    PROVE  Overlay(m, addr, data)[a]
             = IF addr <= a /\ a < addr + Len(data) THEN data[a - addr + 1] ELSE m[a]
<1>1. a \in Int /\ Len(data) \in Nat
  BY SizesAssumption DEF Addr
<1>2. a \in addr .. (addr + Len(data) - 1) <=> addr <= a /\ a < addr + Len(data)
  BY <1>1
<1> QED BY <1>2 DEF Overlay

\* The first i images are in memory, except where a later one covers them.
Placed(m, imgs, i) ==
    \A j \in 1..i : j \in DOMAIN imgs =>
       \A a \in Addr : Holds(imgs[j], a) =>
          \/ m[a] = imgs[j].data[a - imgs[j].load + 1]
          \/ \E k \in (j + 1)..i : k \in DOMAIN imgs /\ Holds(imgs[k], a)

\* Where the DTB goes after the first i images.
DtbAfter(st, imgs, i) ==
    LET Named(j) == j \in DOMAIN imgs /\ imgs[j].os = "u-boot"
        Other(j) == j \in DOMAIN imgs /\ imgs[j].os = "invalid"
    IN  \/ \E j \in 1..i : /\ Named(j) /\ st.dtb = EndOf(imgs[j])
                           /\ \A k \in (j + 1)..i : ~Named(k)
        \/ /\ \A k \in 1..i : ~Named(k)
           /\ \E j \in 1..i : /\ Other(j) /\ st.dtb = EndOf(imgs[j])
                              /\ \A k \in 1..(j - 1) : ~Other(k)
        \/ /\ \A k \in 1..i : ~Named(k) /\ ~Other(k)
           /\ st.dtb = 0

After(st, m, imgs, i) ==
    /\ "uploads" \in DOMAIN st /\ st.uploads \in Seq(Uploads)
    /\ Placed(Uploaded(m, st.uploads), imgs, i)
    /\ DtbAfter(st, imgs, i)

\* The images that are loaded have their place in memory.
Sane(imgs) ==
    \A j \in DOMAIN imgs :
       imgs[j].load \in Nat /\ imgs[j].data \in Seq(Cell) /\ EndOf(imgs[j]) > 0

LEMMA PlacedStep ==
    ASSUME NEW m, NEW imgs, NEW i \in Nat \ {0}, i \in DOMAIN imgs, Sane(imgs),
           Placed(m, imgs, i - 1)
    PROVE  Placed(Overlay(m, imgs[i].load, imgs[i].data), imgs, i)
<1> DEFINE new == Overlay(m, imgs[i].load, imgs[i].data)
<1>1. imgs[i].load \in Nat /\ imgs[i].data \in Seq(Cell)
  BY DEF Sane
<1>2. \A a \in Addr : new[a] = IF Holds(imgs[i], a)
                               THEN imgs[i].data[a - imgs[i].load + 1] ELSE m[a]
  <2> SUFFICES ASSUME NEW a \in Addr
               PROVE  new[a] = IF Holds(imgs[i], a)
                               THEN imgs[i].data[a - imgs[i].load + 1] ELSE m[a]
    OBVIOUS
  <2>1. imgs[i].load \in Int
    BY <1>1
  <2> QED BY <1>1, <2>1, OverlayWrites DEF Holds, EndOf
<1> HIDE DEF new
<1>3. ASSUME NEW j \in 1..i, j \in DOMAIN imgs, NEW a \in Addr, Holds(imgs[j], a)
      PROVE  \/ new[a] = imgs[j].data[a - imgs[j].load + 1]
             \/ \E k \in (j + 1)..i : k \in DOMAIN imgs /\ Holds(imgs[k], a)
  <2>1. CASE j = i
    BY <1>2, <1>3, <2>1
  <2>2. CASE j # i /\ Holds(imgs[i], a)
    <3>1. i \in (j + 1)..i
      BY <2>2
    <3> QED BY <2>2, <3>1
  <2>3. CASE j # i /\ ~Holds(imgs[i], a)
    <3>1. j \in 1..(i - 1)
      BY <2>3
    <3>2. \/ m[a] = imgs[j].data[a - imgs[j].load + 1]
          \/ \E k \in (j + 1)..(i - 1) : k \in DOMAIN imgs /\ Holds(imgs[k], a)
      BY <1>3, <3>1 DEF Placed
    <3>3. \A k \in (j + 1)..(i - 1) : k \in (j + 1)..i
      OBVIOUS
    <3>4. new[a] = m[a]
      BY <1>2, <2>3
    <3> QED BY <3>2, <3>3, <3>4
  <2> QED BY <2>1, <2>2, <2>3
<1> QED BY <1>3 DEF Placed, new

LEMMA DtbStep ==
    ASSUME NEW imgs, NEW i \in Nat \ {0}, i \in DOMAIN imgs, Sane(imgs),
           NEW st, DtbAfter(st, imgs, i - 1)
    PROVE  DtbAfter(fit_load_image(st, imgs[i]), imgs, i)
<1> DEFINE new == fit_load_image(st, imgs[i])
           Named(j) == j \in DOMAIN imgs /\ imgs[j].os = "u-boot"
           Other(j) == j \in DOMAIN imgs /\ imgs[j].os = "invalid"
<1>1. new.dtb = IF \/ imgs[i].os = "u-boot"
                   \/ st.dtb = 0 /\ imgs[i].os = "invalid"
                THEN EndOf(imgs[i]) ELSE st.dtb
  BY DEF fit_load_image, EndOf
<1>2. \A j \in 1..i : j = i \/ j \in 1..(i - 1)
  OBVIOUS
<1>3. \A j \in 1..(i - 1) : j \in 1..i
  OBVIOUS
<1>4. \A j \in 1..i : \A k \in (j + 1)..i : k = i \/ k \in (j + 1)..(i - 1)
  OBVIOUS
<1>5. i \in 1..i /\ \A k \in (i + 1)..i : FALSE
  OBVIOUS
<1>6. \A j \in DOMAIN imgs : EndOf(imgs[j]) # 0
  <2>1. \A j \in DOMAIN imgs : EndOf(imgs[j]) > 0
    BY DEF Sane
  <2> QED BY <2>1
<1>7. \/ \E j \in 1..(i - 1) : /\ Named(j) /\ st.dtb = EndOf(imgs[j])
                               /\ \A k \in (j + 1)..(i - 1) : ~Named(k)
      \/ /\ \A k \in 1..(i - 1) : ~Named(k)
         /\ \E j \in 1..(i - 1) : /\ Other(j) /\ st.dtb = EndOf(imgs[j])
                                  /\ \A k \in 1..(j - 1) : ~Other(k)
      \/ /\ \A k \in 1..(i - 1) : ~Named(k) /\ ~Other(k)
         /\ st.dtb = 0
  BY DEF DtbAfter
<1>8. SUFFICES
      \/ \E j \in 1..i : /\ Named(j) /\ new.dtb = EndOf(imgs[j])
                         /\ \A k \in (j + 1)..i : ~Named(k)
      \/ /\ \A k \in 1..i : ~Named(k)
         /\ \E j \in 1..i : /\ Other(j) /\ new.dtb = EndOf(imgs[j])
                            /\ \A k \in 1..(j - 1) : ~Other(k)
      \/ /\ \A k \in 1..i : ~Named(k) /\ ~Other(k)
         /\ new.dtb = 0
  BY DEF DtbAfter
<1>9. /\ Named(i) <=> imgs[i].os = "u-boot"
      /\ Other(i) <=> imgs[i].os = "invalid"
  OBVIOUS
<1>10. \A j \in 1..i : Named(j) \/ Other(j) => EndOf(imgs[j]) # 0
  BY <1>6
<1> HIDE DEF new, Named, Other
<1>11. CASE imgs[i].os = "u-boot"
  BY <1>1, <1>5, <1>9, <1>11
<1>12. CASE imgs[i].os = "invalid" /\ st.dtb = 0
  <2>1. new.dtb = EndOf(imgs[i]) /\ Other(i) /\ ~Named(i)
    BY <1>1, <1>9, <1>12
  <2>2. \A k \in 1..(i - 1) : ~Named(k) /\ ~Other(k)
    BY <1>3, <1>7, <1>10, <1>12
  <2> QED BY <1>2, <1>5, <2>1, <2>2
<1>13. CASE imgs[i].os # "u-boot" /\ ~(imgs[i].os = "invalid" /\ st.dtb = 0)
  <2>1. new.dtb = st.dtb /\ ~Named(i)
    BY <1>1, <1>9, <1>13
  <2>2. CASE \E j \in 1..(i - 1) : /\ Named(j) /\ st.dtb = EndOf(imgs[j])
                                   /\ \A k \in (j + 1)..(i - 1) : ~Named(k)
    BY <1>3, <1>4, <2>1, <2>2
  <2>3. CASE /\ \A k \in 1..(i - 1) : ~Named(k)
             /\ \E j \in 1..(i - 1) : /\ Other(j) /\ st.dtb = EndOf(imgs[j])
                                      /\ \A k \in 1..(j - 1) : ~Other(k)
    BY <1>2, <1>3, <2>1, <2>3
  <2>4. CASE /\ \A k \in 1..(i - 1) : ~Named(k) /\ ~Other(k)
             /\ st.dtb = 0
    BY <1>2, <1>9, <1>13, <2>1, <2>4
  <2> QED BY <1>7, <2>2, <2>3, <2>4
<1> QED BY <1>11, <1>12, <1>13

\* An image that cannot be used changes nothing.
LEMMA SkipStep ==
    ASSUME NEW st, NEW m, NEW imgs, NEW i \in Nat \ {0}, i \notin DOMAIN imgs,
           After(st, m, imgs, i - 1)
    PROVE  After(st, m, imgs, i)
<1>1. \A j \in 1..i : j \in DOMAIN imgs => j \in 1..(i - 1)
  OBVIOUS
<1>2. \A j \in 1..(i - 1) : j \in 1..i
  OBVIOUS
<1>3. \A j \in 1..i : \A k \in (j + 1)..i : k \in DOMAIN imgs => k \in (j + 1)..(i - 1)
  OBVIOUS
<1>4. \A j \in 1..i : \A k \in (j + 1)..(i - 1) : k \in (j + 1)..i
  OBVIOUS
<1> DEFINE mm == Uploaded(m, st.uploads)
<1>5. Placed(mm, imgs, i - 1) /\ DtbAfter(st, imgs, i - 1)
  BY DEF After
<1> HIDE DEF mm
<1>6. Placed(mm, imgs, i)
  BY <1>1, <1>2, <1>4, <1>5 DEF Placed
<1>7. DtbAfter(st, imgs, i)
  <2> DEFINE Named(j) == j \in DOMAIN imgs /\ imgs[j].os = "u-boot"
             Other(j) == j \in DOMAIN imgs /\ imgs[j].os = "invalid"
  <2>1. \A j \in 1..i : Named(j) \/ Other(j) => j \in 1..(i - 1)
    BY <1>1
  <2>2. \A j \in 1..i : \A k \in (j + 1)..i : Named(k) => k \in (j + 1)..(i - 1)
    BY <1>3
  <2>3. \/ \E j \in 1..(i - 1) : /\ Named(j) /\ st.dtb = EndOf(imgs[j])
                                 /\ \A k \in (j + 1)..(i - 1) : ~Named(k)
        \/ /\ \A k \in 1..(i - 1) : ~Named(k)
           /\ \E j \in 1..(i - 1) : /\ Other(j) /\ st.dtb = EndOf(imgs[j])
                                    /\ \A k \in 1..(j - 1) : ~Other(k)
        \/ /\ \A k \in 1..(i - 1) : ~Named(k) /\ ~Other(k)
           /\ st.dtb = 0
    BY <1>5 DEF DtbAfter
  <2> SUFFICES
        \/ \E j \in 1..i : /\ Named(j) /\ st.dtb = EndOf(imgs[j])
                           /\ \A k \in (j + 1)..i : ~Named(k)
        \/ /\ \A k \in 1..i : ~Named(k)
           /\ \E j \in 1..i : /\ Other(j) /\ st.dtb = EndOf(imgs[j])
                              /\ \A k \in 1..(j - 1) : ~Other(k)
        \/ /\ \A k \in 1..i : ~Named(k) /\ ~Other(k)
           /\ st.dtb = 0
    BY DEF DtbAfter
  <2> HIDE DEF Named, Other
  <2> QED BY <1>2, <2>1, <2>2, <2>3
<1> QED BY <1>6, <1>7 DEF After, mm

LEMMA AfterStep ==
    ASSUME NEW fit, fit.images \in [DOMAIN fit.images -> Images],
           NEW names \in Seq(STRING), NEW i \in 1..Len(names), NEW st, NEW m,
           Sane(Usable(fit, names)), After(st, m, Usable(fit, names), i - 1)
    PROVE  After(LoadNamed(fit, st, names[i]), m, Usable(fit, names), i)
<1> DEFINE imgs == Usable(fit, names)
<1>1. i \in Nat \ {0}
  OBVIOUS
<1>2. CASE ~Valid(fit, names[i])
  <2>1. i \notin DOMAIN imgs /\ LoadNamed(fit, st, names[i]) = st
    BY <1>2, UsableIs DEF LoadNamed
  <2> QED BY <1>1, <2>1, SkipStep
<1>3. CASE Valid(fit, names[i])
  <2> DEFINE new == fit_load_image(st, imgs[i])
             x == Upload(imgs[i].load, imgs[i].data, TRUE)
  <2>1. i \in DOMAIN imgs /\ LoadNamed(fit, st, names[i]) = new
    BY <1>3, UsableIs DEF LoadNamed
  <2>2. Sane(imgs) /\ After(st, m, imgs, i - 1)
    OBVIOUS
  <2> HIDE DEF imgs
  <2>3. new.uploads = Append(st.uploads, x)
    BY DEF fit_load_image
  <2>4. x \in Uploads /\ x.addr = imgs[i].load /\ x.data = imgs[i].data
    <3>1. imgs[i].load \in Int /\ imgs[i].data \in Seq(Cell)
      BY <2>1, <2>2 DEF Sane
    <3> QED BY <3>1 DEF Upload, Uploads
  <2> HIDE DEF x
  <2>5. st.uploads \in Seq(Uploads)
    BY <2>2 DEF After
  <2>6. new.uploads \in Seq(Uploads)
    BY <2>3, <2>4, <2>5, AppendProperties
  <2>7. Uploaded(m, new.uploads)
          = Overlay(Uploaded(m, st.uploads), imgs[i].load, imgs[i].data)
    BY <2>3, <2>4, <2>5, UploadedAppend
  <2>8. Placed(Uploaded(m, st.uploads), imgs, i - 1)
    BY <2>2 DEF After
  <2>9. Placed(Uploaded(m, new.uploads), imgs, i)
    BY <1>1, <2>1, <2>2, <2>7, <2>8, PlacedStep
  <2>10. DtbAfter(new, imgs, i)
    BY <1>1, <2>1, <2>2, DtbStep DEF After
  <2>11. "uploads" \in DOMAIN new
    BY DEF fit_load_image
  <2>12. After(new, m, imgs, i)
    BY <2>6, <2>9, <2>10, <2>11 DEF After
  <2> QED BY <2>1, <2>12 DEF imgs
<1> QED BY <1>2, <1>3

LEMMA AfterLoad ==
    ASSUME NEW fit, fit.images \in [DOMAIN fit.images -> Images],
           NEW names \in Seq(STRING), NEW m, Sane(Usable(fit, names))
    PROVE  After(LoadAll(fit, names), m, Usable(fit, names), Len(names))
<1> DEFINE imgs == Usable(fit, names)
           n == Len(names)
<1>1. n \in Nat
  OBVIOUS
<1>2. PICK f : /\ f[0] = NothingLoaded
               /\ \A i \in 1..n : f[i] = LoadNamed(fit, f[i - 1], names[i])
               /\ LoadAll(fit, names) = f[n]
  BY LoadIs
<1> DEFINE T == {i \in 0..n : ~After(f[i], m, imgs, i)}
<1>3. After(f[0], m, imgs, 0)
  <2>1. /\ NothingLoaded.uploads = <<>> /\ NothingLoaded.dtb = 0
        /\ "uploads" \in DOMAIN NothingLoaded
    BY DEF NothingLoaded
  <2>2. \A k \in 1..0 : FALSE
    OBVIOUS
  <2> HIDE DEF imgs
  <2>3. Placed(Uploaded(m, <<>>), imgs, 0)
    BY <2>2 DEF Placed
  <2>4. DtbAfter(f[0], imgs, 0)
    BY <1>2, <2>1, <2>2 DEF DtbAfter
  <2>5. <<>> \in Seq(Uploads)
    OBVIOUS
  <2> QED BY <1>2, <2>1, <2>3, <2>4, <2>5 DEF After
<1>4. T = {}
  <2> SUFFICES ASSUME T # {} PROVE FALSE
    OBVIOUS
  <2>1. T \in SUBSET Nat
    BY <1>1
  <2>2. PICK j \in T : \A k \in T : j <= k
    BY <2>1, LeastElement
  <2>3. j \in 1..n /\ ~After(f[j], m, imgs, j)
    BY <1>1, <1>3
  <2>4. j - 1 \in 0..n /\ j - 1 \notin T
    BY <1>1, <2>2, <2>3
  <2>5. After(f[j - 1], m, imgs, j - 1)
    BY <2>4
  <2>6. After(LoadNamed(fit, f[j - 1], names[j]), m, imgs, j)
    BY <2>3, <2>5, AfterStep
  <2> QED BY <1>2, <2>3, <2>6
<1> QED BY <1>1, <1>2, <1>4


LEMMA SaneImages ==
    ASSUME NEW fit, IsFitImage(fit), NEW c \in DOMAIN fit.configs
    PROVE  Sane(Usable(fit, NamesOf(fit.configs[c])))
<1> DEFINE names == NamesOf(fit.configs[c])
           imgs == Usable(fit, names)
<1>1. names \in Seq(STRING) /\ fit.images \in [DOMAIN fit.images -> Images]
  BY NamesAre DEF IsFitImage
<1>2. \A j \in DOMAIN names : Valid(fit, names[j]) =>
         /\ fit.images[names[j]].load # NoProp
         /\ fit.images[names[j]].load + Len(fit.images[names[j]].data) > 0
  BY DEF IsFitImage
<1>3. DOMAIN imgs \subseteq 1..Len(names)
  BY DEF Usable
<1> HIDE DEF names
<1>4. ASSUME NEW j \in DOMAIN imgs
      PROVE  imgs[j].load \in Nat /\ imgs[j].data \in Seq(Cell) /\ EndOf(imgs[j]) > 0
  <2>1. j \in 1..Len(names) /\ j \in DOMAIN names
    BY <1>1, <1>3
  <2>2. Valid(fit, names[j])
    BY <1>1, <2>1, UsableIs
  <2>3. /\ imgs[j].load = fit.images[names[j]].load
        /\ imgs[j].data = fit.images[names[j]].data
        /\ imgs[j].load \in {NoProp} \cup Nat
        /\ imgs[j].data \in Seq(Cell)
    BY <1>1, <2>1, <2>2, UsableIs
  <2> HIDE DEF imgs
  <2> QED BY <1>2, <2>1, <2>2, <2>3 DEF EndOf
<1> QED BY <1>4 DEF Sane, names

\* The loop finds the place of the DTB.
LEMMA DtbPlaceIs ==
    ASSUME NEW n \in Nat, NEW imgs, DOMAIN imgs \subseteq 1..n, Sane(imgs),
           NEW st, DtbAfter(st, imgs, n)
    PROVE  /\ st.dtb = DtbPlace(imgs) /\ st.dtb \in Nat
           /\ st.dtb # 0 <=> UBootAmong(imgs) # 0
<1> DEFINE named == {i \in DOMAIN imgs : imgs[i].os = "u-boot"}
           other == {i \in DOMAIN imgs : imgs[i].os = "invalid"}
           u == UBootAmong(imgs)
<1>1. u = IF named # {} THEN Max(named) ELSE IF other # {} THEN Min(other) ELSE 0
  BY DEF UBootAmong
<1>2. /\ named \in SUBSET (1..n) /\ other \in SUBSET (1..n) /\ other \in SUBSET Nat
      /\ named \subseteq DOMAIN imgs /\ other \subseteq DOMAIN imgs
  OBVIOUS
<1>3. \/ \E j \in named : /\ st.dtb = EndOf(imgs[j])
                          /\ \A k \in (j + 1)..n : k \notin named
      \/ /\ \A k \in 1..n : k \notin named
         /\ \E j \in other : /\ st.dtb = EndOf(imgs[j])
                             /\ \A k \in 1..(j - 1) : k \notin other
      \/ /\ \A k \in 1..n : k \notin named /\ k \notin other
         /\ st.dtb = 0
  BY DEF DtbAfter
<1>4. \A j \in DOMAIN imgs : EndOf(imgs[j]) \in Nat /\ EndOf(imgs[j]) # 0
  <2> SUFFICES ASSUME NEW j \in DOMAIN imgs
               PROVE  EndOf(imgs[j]) \in Nat /\ EndOf(imgs[j]) # 0
    OBVIOUS
  <2>1. imgs[j].load \in Nat /\ imgs[j].data \in Seq(Cell) /\ EndOf(imgs[j]) > 0
    BY DEF Sane
  <2>2. Len(imgs[j].data) \in Nat
    BY <2>1
  <2> QED BY <2>1, <2>2 DEF EndOf
<1>5. DtbPlace(imgs) = IF u = 0 THEN 0 ELSE EndOf(imgs[u])
  BY DEF DtbPlace
<1> HIDE DEF named, other, u
<1>6. CASE \E j \in named : /\ st.dtb = EndOf(imgs[j])
                            /\ \A k \in (j + 1)..n : k \notin named
  <2>1. PICK j \in named : /\ st.dtb = EndOf(imgs[j])
                           /\ \A k \in (j + 1)..n : k \notin named
    BY <1>6
  <2>2. Max(named) \in named /\ Max(named) >= j
    BY <1>2, <2>1, MaxIs
  <2>3. Max(named) \in 1..n /\ j \in 1..n /\ Max(named) \notin (j + 1)..n
    BY <1>2, <2>1, <2>2
  <2>4. u = Max(named) /\ Max(named) = j /\ u # 0
    BY <1>1, <2>1, <2>2, <2>3
  <2> QED BY <1>2, <1>4, <1>5, <2>1, <2>4 DEF u
<1>7. CASE /\ \A k \in 1..n : k \notin named
           /\ \E j \in other : /\ st.dtb = EndOf(imgs[j])
                               /\ \A k \in 1..(j - 1) : k \notin other
  <2>1. PICK j \in other : /\ st.dtb = EndOf(imgs[j])
                           /\ \A k \in 1..(j - 1) : k \notin other
    BY <1>7
  <2>2. Min(other) \in other /\ Min(other) <= j
    BY <1>2, <2>1, MinIs
  <2>3. Min(other) \in 1..n /\ j \in 1..n /\ Min(other) \notin 1..(j - 1)
    BY <1>2, <2>1, <2>2
  <2>4. named = {}
    BY <1>2, <1>7
  <2>5. u = Min(other) /\ Min(other) = j /\ u # 0
    BY <1>1, <2>1, <2>2, <2>3, <2>4
  <2> QED BY <1>2, <1>4, <1>5, <2>1, <2>5 DEF u
<1>8. CASE /\ \A k \in 1..n : k \notin named /\ k \notin other
           /\ st.dtb = 0
  <2>1. named = {} /\ other = {}
    BY <1>2, <1>8
  <2> QED BY <1>1, <1>5, <1>8, <2>1 DEF u
<1> QED BY <1>3, <1>6, <1>7, <1>8

\* What the whole load leaves in memory, the DTB included.
LEMMA FitInMemory ==
    ASSUME NEW fit, IsFitImage(fit), NEW dt, Configuration(fit, dt) # 0, NEW m
    PROVE  LET c    == fit.configs[Configuration(fit, dt)]
               imgs == Chosen(fit, dt)
           IN  InMemory(Uploaded(m, load_fit_images(fit, dt).uploads), imgs,
                        DtbPlace(imgs), DtbOf(fit, c, imgs))
<1> DEFINE c == fit.configs[Configuration(fit, dt)]
           names == NamesOf(c)
           imgs == Usable(fit, names)
           n == Len(names)
           all == LoadAll(fit, names)
           data == fit.images[c.fdt].data
           x == Upload(all.dtb, data, FALSE)
           dtb == IF all.dtb # 0 /\ Valid(fit, c.fdt) THEN <<x>> ELSE <<>>
           up1 == load_fit_images(fit, dt).uploads
           m1 == Uploaded(m, all.uploads)
           m2 == Uploaded(m, up1)
           place == DtbPlace(imgs)
           D == DtbOf(fit, c, imgs)
<1>1. /\ Configuration(fit, dt) \in DOMAIN fit.configs
      /\ fit.images \in [DOMAIN fit.images -> Images]
  BY ConfigurationIs DEF IsFitImage
<1>2. names \in Seq(STRING) /\ Sane(imgs)
  BY <1>1, NamesAre, SaneImages
<1>3. n \in Nat /\ DOMAIN imgs \subseteq 1..n
  BY <1>2 DEF Usable
<1>4. After(all, m, imgs, n)
  BY <1>1, <1>2, AfterLoad
<1>5. load_fit_images(fit, dt) = [all EXCEPT !.uploads = @ \o dtb]
  BY DEF load_fit_images
<1>6. Chosen(fit, dt) = imgs
  BY DEF Chosen
<1> SUFFICES InMemory(m2, imgs, place, D)
  BY <1>6
<1>7. /\ "uploads" \in DOMAIN all /\ all.uploads \in Seq(Uploads)
      /\ Placed(m1, imgs, n) /\ DtbAfter(all, imgs, n)
  BY <1>4 DEF After
<1>8. /\ all.dtb = place /\ all.dtb \in Nat
      /\ all.dtb # 0 <=> UBootAmong(imgs) # 0
  BY <1>2, <1>3, <1>7, DtbPlaceIs
<1>9. D = IF all.dtb # 0 /\ Valid(fit, c.fdt) THEN data ELSE <<>>
  BY <1>8 DEF DtbOf
<1>10. Valid(fit, c.fdt) => data \in Seq(Cell)
  <2>1. ASSUME NEW img \in Images PROVE img.data \in Seq(Cell)
    BY DEF Images
  <2>2. Valid(fit, c.fdt) => fit.images[c.fdt] \in Images
    BY <1>1 DEF Valid
  <2> QED BY <2>1, <2>2
<1> HIDE DEF c, names, imgs, n, all, data, place, D
<1>11. up1 = all.uploads \o dtb
  <2>1. \A r : "uploads" \in DOMAIN r =>
           [r EXCEPT !.uploads = @ \o dtb].uploads = r.uploads \o dtb
    OBVIOUS
  <2> HIDE DEF dtb
  <2> QED BY <1>5, <1>7, <2>1
<1>12. \A i \in DOMAIN imgs : \A a \in Addr : Holds(imgs[i], a) =>
          \/ m1[a] = imgs[i].data[a - imgs[i].load + 1]
          \/ \E j \in DOMAIN imgs : j > i /\ Holds(imgs[j], a)
  <2>1. \A i \in 1..n : \A k \in (i + 1)..n : k > i
    BY <1>3
  <2> QED BY <1>3, <1>7, <2>1 DEF Placed
<1>13. CASE all.dtb # 0 /\ Valid(fit, c.fdt)
  <2>1. D = data /\ data \in Seq(Cell) /\ dtb = <<x>>
    BY <1>9, <1>10, <1>13
  <2>2. x \in Uploads /\ x.addr = place /\ x.data = data
    <3>1. all.dtb \in Int
      BY <1>8
    <3> QED BY <1>8, <2>1, <3>1 DEF Upload, Uploads
  <2> HIDE DEF x, up1
  <2>3. up1 = Append(all.uploads, x)
    BY <1>7, <1>11, <2>1, <2>2, AppendIsConcat
  <2>4. m2 = Overlay(m1, place, data)
    BY <1>7, <2>2, <2>3, UploadedAppend
  <2> HIDE DEF m1, m2
  <2>5. place \in Int /\ place \in Nat /\ Len(data) \in Nat /\ DOMAIN data = 1..Len(data)
    BY <1>8, <2>1
  <2>6. \A a \in Addr : m2[a] = IF place <= a /\ a < place + Len(data)
                                THEN data[a - place + 1] ELSE m1[a]
    BY <2>1, <2>4, <2>5, OverlayWrites
  <2>7. \A k \in DOMAIN D : place + k - 1 \in Addr => m2[place + k - 1] = D[k]
    <3> SUFFICES ASSUME NEW k \in 1..Len(data), place + k - 1 \in Addr
                 PROVE  m2[place + k - 1] = data[k]
      BY <2>1, <2>5
    <3> DEFINE b == place + k - 1
    <3>1. place <= b /\ b < place + Len(data) /\ b - place + 1 = k
      BY <2>5
    <3> HIDE DEF b
    <3>2. b \in Addr
      BY DEF b
    <3>3. m2[b] = data[k]
      BY <2>6, <3>1, <3>2
    <3> QED BY <3>3 DEF b
  <2>8. \A a \in Addr : m2[a] = m1[a] \/ (place <= a /\ a < place + Len(D))
    BY <2>1, <2>6
  <2> QED BY <1>12, <2>7, <2>8 DEF InMemory
<1>14. CASE ~(all.dtb # 0 /\ Valid(fit, c.fdt))
  <2>1. D = <<>> /\ dtb = <<>>
    BY <1>9, <1>14
  <2>2. up1 = all.uploads
    BY <1>7, <1>11, <2>1
  <2>3. m2 = m1
    BY <2>2
  <2>4. DOMAIN D = {}
    BY <2>1
  <2> QED BY <1>12, <2>3, <2>4 DEF InMemory
<1> QED BY <1>13, <1>14

LEMMA OffsetIs ==
    ASSUME NEW n \in DOMAIN FileInfo
    PROVE  Offset(n) \in Nat
<1> DEFINE a == FileInfo[n].spl_len
           b == SPL_MIN_OFFSET
           T == {a, b}
<1>1. a \in Nat /\ b \in Nat
  BY FilesAssumption, SizesAssumption
<1> HIDE DEF a, b
<1>2. \E x \in T : \A y \in T : x >= y
  BY <1>1
<1>3. Max(T) \in T
  BY <1>2 DEF Max
<1>4. Offset(n) = Max(T)
  BY DEF Offset, a, b
<1> QED BY <1>1, <1>3, <1>4

\* The image comes from the file, unless that is too short.
LEMMA FromTheFile ==
    ASSUME Inputs, NEW by, SplRun(by), NEW img \in Behind(TheFile)
    PROVE  img.from = Head1(TheFile) \/ Len(TheFile) < Offset(Head1(TheFile))
<1> DEFINE n == Head1(TheFile)
           l == Len(TheFile)
           junk == [from : {NoName} \cup (heap \cap DOMAIN FileInfo), len : {Huge}]
<1>1. n \in DOMAIN FileInfo
  <2>1. n # NoName
    BY DEF SplRun, IsSpl
  <2> QED BY <2>1 DEF Head1
<1>2. l \in Nat /\ Offset(n) \in Nat
  <2>1. FileName(args[2]) \in DOMAIN files
    BY DEF SplRun, Exists
  <2>2. IsSeq(TheFile)
    BY <2>1 DEF TheFile, Inputs
  <2> QED BY <1>1, <2>2, IsSeqLen, OffsetIs
<1>3. \/ \E k : img = [from |-> n, len |-> k]
      \/ ~(l >= Offset(n))
  BY Zenon DEF Behind
<1> HIDE DEF n, l
<1>4. CASE \E k : img = [from |-> n, len |-> k]
  BY <1>4 DEF n
<1>5. CASE ~(l >= Offset(n))
  <2>1. l < Offset(n)
    BY <1>2, <1>5
  <2> QED BY <2>1 DEF n, l
<1> QED BY <1>3, <1>4, <1>5

LEMMA FreshFrame ==
    ASSUME Fresh, UNCHANGED <<fresh, last, fits, mem, uboot_entry>>,
           pc' = "upload" => pc = "upload"
    PROVE  Fresh'
<1>1. EntryOf(last)' = EntryOf(last) /\ ImagesOf(last)' = ImagesOf(last)
  BY DEF EntryOf, ImagesOf
<1> QED BY <1>1 DEF Fresh, ImageLoaded

LEMMA Legacy_fresh ==
    ASSUME Inputs, Loaded', NEW by, NEW img, LegacyDone(by, img)
    PROVE  Fresh'
<1> DEFINE t == FileInfo[img.from].tail
           skip == Offset(img.from) + HEADER_SIZE
           data == [i \in 1..t.size |-> <<img.from, skip + i>>]
<1>1. /\ SplRun(by) /\ img \in Behind(TheFile) /\ Found(img)
      /\ mem' = Overlay(mem, t.load, data)
      /\ last' = [name |-> img.from, kind |-> "legacy", dt |-> NoName, by |-> by,
                  file |-> Head1(TheFile), len |-> Len(TheFile)]
      /\ pc' = "loop"
  BY DEF LegacyDone, Complete, SplRun, SplEffect, Command
<1>2. img.from \in DOMAIN FileInfo
  BY <1>1, BehindIs
<1>3. t.load \in Nat /\ t.size \in Nat
  BY <1>2, FilesAssumption
<1>4. /\ last'.kind = "legacy" /\ last'.name = img.from
      /\ last'.file = Head1(TheFile) /\ last'.len = Len(TheFile)
  BY <1>1
<1>5. last'.name = last'.file \/ last'.len < Offset(last'.file)
  BY <1>1, <1>4, FromTheFile
<1>6. uboot_entry' = EntryOf(last)'
  BY <1>4 DEF Loaded
<1>7. data = [i \in 1..t.size |-> data[i]] /\ \A i \in 1..t.size : data[i] = <<img.from, skip + i>>
  OBVIOUS
<1> HIDE DEF t, data, skip
<1>8. IsSeq(data) /\ Len(data) = t.size
  BY <1>3, <1>7, BuiltIsSeq
<1>9. PICK S : data \in Seq(S)
  BY <1>8 DEF IsSeq
<1>10. ASSUME NEW i \in 1..t.size, t.load + i - 1 \in Addr
       PROVE  mem'[t.load + i - 1] = <<img.from, skip + i>>
  <2> DEFINE a == t.load + i - 1
  <2>1. t.load <= a /\ a < t.load + t.size /\ a - t.load + 1 = i
    BY <1>3
  <2> HIDE DEF a
  <2>2. a \in Addr /\ t.load \in Int
    BY <1>3, <1>10 DEF a
  <2>3. Overlay(mem, t.load, data)[a] = data[a - t.load + 1]
    BY <1>8, <1>9, <2>1, <2>2, OverlayWrites
  <2>4. mem'[a] = <<img.from, skip + i>>
    BY <1>1, <1>7, <2>1, <2>3
  <2> QED BY <2>4 DEF a
<1>11. \A i \in 1..t.size : t.load + i - 1 \in Addr =>
          mem'[t.load + i - 1] = <<last'.name, Offset(last'.name) + HEADER_SIZE + i>>
  BY <1>4, <1>10 DEF skip
<1>12. t = FileInfo[last'.name].tail
  BY <1>4 DEF t
<1> HIDE DEF ImagesOf
<1>13. ImageLoaded'
  BY <1>4, <1>5, <1>6, <1>11, <1>12 DEF ImageLoaded
<1> QED BY <1>1, <1>4, <1>13 DEF Fresh

LEMMA Fit_fresh ==
    ASSUME Inputs, Loaded', NEW by, NEW img, FitDone(by, img)
    PROVE  Fresh'
<1> DEFINE fit == fits[img.from]
           dt == spl_get_dtb_name(Head1(TheFile))
           c == Configuration(fit, dt)
           st == load_fit_images(fit, dt)
           imgs == Chosen(fit, dt)
<1>1. /\ SplRun(by) /\ img \in Behind(TheFile) /\ IsFit(img)
      /\ mem' = Uploaded(mem, st.uploads)
      /\ last' = [name |-> img.from, kind |-> "fit", dt |-> dt, by |-> by,
                  file |-> Head1(TheFile), len |-> Len(TheFile)]
      /\ pc' = "loop" /\ fits' = fits
  BY DEF FitDone, SplRun, SplEffect, Command, otherVars, givenVars
<1>2. IsFitImage(fit)
  BY <1>1, FitFound
<1>3. /\ last'.kind = "fit" /\ last'.name = img.from /\ last'.dt = dt
      /\ last'.file = Head1(TheFile) /\ last'.len = Len(TheFile)
  BY <1>1
<1>4. last'.name = last'.file \/ last'.len < Offset(last'.file)
  BY <1>1, <1>3, FromTheFile
<1>5. uboot_entry' = EntryOf(last)'
  BY <1>3 DEF Loaded
<1>6. ImagesOf(last)' = IF c = 0 THEN << >> ELSE imgs
  BY <1>1, <1>3 DEF ImagesOf
<1>7. c # 0 => InMemory(Uploaded(mem, st.uploads), imgs, DtbPlace(imgs),
                        DtbOf(fit, fit.configs[c], imgs))
  BY <1>2, FitInMemory
<1>8. fit = fits'[last'.name] /\ c = Configuration(fits'[last'.name], last'.dt)
  BY <1>1, <1>3
<1> HIDE DEF fit, dt, c, st, imgs
<1>9. last'.kind = "fit" /\ ImagesOf(last)' # <<>> =>
         InMemory(mem', ImagesOf(last)', DtbPlace(ImagesOf(last)'),
                  DtbOf(fit, fit.configs[c], ImagesOf(last)'))
  BY <1>1, <1>6, <1>7
<1>10. ImageLoaded'
  BY <1>3, <1>4, <1>5, <1>8, <1>9 DEF ImageLoaded
<1> QED BY <1>1, <1>3, <1>10 DEF Fresh

LEMMA Fresh_step == ASSUME IInv, Next PROVE Fresh'
<1>1. /\ Fresh /\ Inputs /\ args \in Seq(Words) /\ opt.p \in BOOLEAN
      /\ pc = "upload" => ~fresh
  BY DEF IInv, Inputs, DevTypes, Opts, Fresh
<1>2. ASSUME fresh' = FALSE PROVE Fresh'
  BY <1>2 DEF Fresh, ImageLoaded
<1>3. CASE (DevNext \/ BusChange) /\ UNCHANGED cmdVars
  <2>1. UNCHANGED <<fresh, last, fits, mem, uboot_entry>>
    BY <1>3 DEF cmdVars
  <2>2. pc' # "upload"
    BY <1>3, DevPc DEF Looking
  <2> QED BY <1>1, <2>1, <2>2, FreshFrame
<1>4. CASE Halts \/ End
  <2>1. UNCHANGED <<fresh, last, fits, mem, uboot_entry>> /\ pc' # "upload"
    BY <1>4 DEF Halts, End, Exit, cmdVars, imageVars, givenVars
  <2> QED BY <1>1, <2>1, FreshFrame
<1>5. CASE FileSent \/ UploadEnd \/ FileChange
  <2>1. pc = "upload" /\ fresh' = fresh
    BY <1>5 DEF FileSent, UploadEnd, FileChange
  <2>2. ~fresh'
    BY <1>1, <2>1
  <2> QED BY <2>2 DEF Fresh, ImageLoaded
<1>6. CASE NoEffects \/ Writes \/ Filled("clear", 2) \/ Filled("fill", 3) \/ reset64
  <2>1. fresh' = FALSE
    BY <1>6 DEF NoEffects, aw_fel_hexdump, fel_readl, aw_fel_print_version,
         aw_fel_print_sid, echo_gauge, aw_fel_spiflash_info, NoEffect, Writes,
         fel_memmove, fel_writel, aw_fel_execute, aw_wd_reset, Unguarded,
         Filled, reset64
  <2> QED BY <1>2, <2>1
<1>7. CASE ReadDone \/ FlashReadDone \/ FlashWriteDone
  <2>1. fresh' = FALSE
    BY <1>7 DEF ReadDone, FlashReadDone, FlashWriteDone
  <2> QED BY <1>2, <2>1
<1>8. ASSUME NEW count, NEW base, NEW cb, UploadStart(count, base, cb)
      PROVE  Fresh'
  BY <1>2, <1>8 DEF UploadStart
<1>9. ASSUME NEW by, SplOnly(by) PROVE Fresh'
  BY <1>2, <1>9 DEF SplOnly
<1>10. ASSUME NEW by, NEW img, LegacyDone(by, img) \/ FitDone(by, img)
       PROVE  Fresh'
  <2>1. Loaded'
    BY Loaded_step
  <2> QED BY <1>1, <1>10, <2>1, Legacy_fresh, Fit_fresh
<1>11. CASE CmdNext
  BY <1>1, <1>4, <1>5, <1>6, <1>7, <1>8, <1>9, <1>10, <1>11, CmdCases
<1> QED BY <1>3, <1>11 DEF Next
LEMMA End_started == ASSUME IInv, End PROVE Started'
<1>1. /\ pc = "loop" /\ pc' = "exit 0" /\ Loaded /\ Told /\ started.by # "uboot"
      /\ UNCHANGED <<uboot_autostart, uboot_entry, uboot_size, enter_in_aarch64,
                     last, lastFit, spl, bootinfo, script, fits>>
  BY DEF End, IInv, Started, Exit, imageVars, splVars, givenVars
<1>2. /\ EntryOf(last)' = EntryOf(last)
      /\ Aarch64Of(lastFit)' = Aarch64Of(lastFit)
  BY <1>1, ImageFrame
<1>3. CASE ~uboot_autostart
  <2>1. started' = started
    BY <1>3 DEF End
  <2> QED BY <1>1, <1>3, <2>1 DEF Started, StartRight
<1>4. CASE uboot_autostart
  <2>1. /\ last.kind # "none" /\ uboot_entry = EntryOf(last)
        /\ enter_in_aarch64 = Aarch64Of(lastFit)
        /\ uboot_entry > 0 \/ last.by = "spl"
        /\ enter_in_aarch64 \in BOOLEAN
    BY <1>1, <1>4 DEF Loaded
  <2>2. \/ started' = started /\ enter_in_aarch64
        \/ started' = [entry |-> uboot_entry, aarch64 |-> enter_in_aarch64,
                       by |-> "uboot"]
    BY <1>4, <2>1 DEF End, aw_rmr_request
  <2>3. CASE started' = started /\ enter_in_aarch64
    BY <1>1, <2>3 DEF Started, StartRight
  <2>4. CASE started' = [entry |-> uboot_entry, aarch64 |-> enter_in_aarch64,
                         by |-> "uboot"]
    <3>1. /\ started'.entry = uboot_entry /\ started'.aarch64 = enter_in_aarch64
          /\ started'.by = "uboot"
      BY <2>4
    <3>2. spl' \in 1..31 /\ script' # NoInfo => bootinfo' = script'
      BY <1>1 DEF Told
    <3>3. /\ started'.entry = EntryOf(last)'
          /\ started'.aarch64 = Aarch64Of(lastFit)'
          /\ started'.entry > 0 \/ last'.by = "spl"
      BY <1>1, <1>2, <2>1, <3>1
    <3> QED BY <1>1, <3>1, <3>2, <3>3 DEF Started, StartRight
  <2> QED BY <2>2, <2>3, <2>4
<1> QED BY <1>1, <1>3, <1>4 DEF Loaded

LEMMA Started_step == ASSUME IInv, Next PROVE Started'
<1>1. /\ Started /\ Loaded /\ args \in Seq(Words) /\ opt.p \in BOOLEAN
      /\ pc \in {"loop", "upload"} => started.by # "uboot"
  BY DEF IInv, Inputs, DevTypes, Opts, Started
<1>2. ASSUME started'.by # "uboot", pc' \notin Looking, pc' # "exit 0" PROVE Started'
  BY <1>2 DEF Started, StartRight, Looking
<1>3. CASE (DevNext \/ BusChange) /\ UNCHANGED cmdVars
  <2>1. pc \in Looking /\ started' = started /\ uboot_autostart' = uboot_autostart
    BY <1>3, DevPc DEF cmdVars
  <2>2. started.by # "uboot" /\ uboot_autostart = FALSE
    BY <1>1, <2>1 DEF Started, Looking
  <2> QED BY <2>1, <2>2 DEF Started, StartRight
<1>4. CASE Halts
  <2>1. pc # "exit 0" /\ pc' \in {"exit 1", "crashed"} /\ started' = started
    BY <1>4 DEF Halts, cmdVars, Exited
  <2>2. started.by # "uboot"
    BY <1>1, <2>1 DEF Started
  <2> QED BY <1>2, <2>1, <2>2 DEF Looking
<1>5. ASSUME pc \in {"loop", "upload"}, pc' \in {"loop", "upload"}, started' = started
      PROVE  Started'
  BY <1>1, <1>2, <1>5 DEF Looking
<1>6. CASE NoEffects \/ Writes \/ Filled("clear", 2) \/ Filled("fill", 3)
  <2>1. pc = "loop" /\ UNCHANGED <<pc, started>>
    BY <1>6 DEF NoEffects, aw_fel_hexdump, fel_readl, aw_fel_print_version,
         aw_fel_print_sid, echo_gauge, aw_fel_spiflash_info, NoEffect, Writes,
         fel_memmove, fel_writel, aw_fel_execute, aw_wd_reset, Unguarded,
         Filled, Command
  <2> QED BY <1>5, <2>1
<1>7. CASE ReadDone \/ FlashReadDone \/ FlashWriteDone \/ FileSent \/ UploadEnd
           \/ FileChange
  BY <1>5, <1>7 DEF ReadDone, FlashReadDone, FlashWriteDone, FileSent, UploadEnd,
       FileChange, Command
<1>8. ASSUME NEW count, NEW base, NEW cb, UploadStart(count, base, cb)
      PROVE  Started'
  BY <1>5, <1>8 DEF UploadStart
<1>9. ASSUME NEW by, NEW img, SplOnly(by) \/ LegacyDone(by, img) \/ FitDone(by, img)
      PROVE  Started'
  <2>1. SplEffect(by) /\ SplRun(by)
    BY <1>9 DEF SplOnly, LegacyDone, FitDone
  <2> QED BY <1>5, <2>1 DEF SplEffect, SplRun, Command
<1>10. CASE reset64
  <2>1. /\ pc = "loop" /\ pc' = "loop"
        /\ \/ started' = started
           \/ started' = [entry |-> strtoul(args[2]), aarch64 |-> TRUE,
                          by |-> "reset64"]
    BY <1>10 DEF reset64, aw_rmr_request, Command
  <2>2. started'.by # "uboot"
    BY <1>1, <2>1
  <2> QED BY <1>2, <2>1, <2>2 DEF Looking
<1>11. CASE CmdNext
  BY <1>1, <1>4, <1>6, <1>7, <1>8, <1>9, <1>10, <1>11, CmdCases, End_started
<1> QED BY <1>3, <1>11 DEF Next

-----------------------------------------------------------------------------
(***************************************************************************)
(* The words of the command line.                                          *)
(***************************************************************************)
Rest(s, p) == SubSeq(s, p + 1, Len(s))

LEMMA RestIs ==
    ASSUME NEW S, NEW s \in Seq(S), NEW p \in 0..Len(s)
    PROVE  /\ Rest(s, p) \in Seq(S) /\ Len(Rest(s, p)) = Len(s) - p
           /\ \A j \in 1..(Len(s) - p) : Rest(s, p)[j] = s[p + j]
<1>1. Len(s) \in Nat /\ p + 1 \in 1..(Len(s) + 1)
  OBVIOUS
<1>2. Rest(s, p) \in Seq(S)
  <2>1. p + 1 \in Nat \ {0}
    OBVIOUS
  <2> QED BY <2>1, RestIsSeq DEF Rest
<1>3. Len(Rest(s, p)) = Len(s) - p
  BY <1>1 DEF Rest
<1>4. ASSUME NEW j \in 1..(Len(s) - p) PROVE Rest(s, p)[j] = s[p + j]
  <2>1. Rest(s, p)[j] = s[(p + 1) + j - 1]
    BY <1>1 DEF Rest
  <2>2. (p + 1) + j - 1 = p + j
    BY <1>1
  <2> QED BY <2>1, <2>2
<1> QED BY <1>2, <1>3, <1>4

LEMMA SameRest ==
    ASSUME NEW S, NEW s \in Seq(S), NEW t \in Seq(S), Len(s) = Len(t),
           \A j \in 1..Len(s) : s[j] = t[j]
    PROVE  s = t
OBVIOUS

\* Skipping words of what is left.
LEMMA RestOfRest ==
    ASSUME NEW S, NEW s \in Seq(S), NEW p \in 0..Len(s), NEW q \in Nat
    PROVE  LET t == Rest(s, p)
           IN  /\ p + q <= Len(s) => SubSeq(t, q + 1, Len(t)) = Rest(s, p + q)
               /\ p + q > Len(s) => SubSeq(t, q + 1, Len(t)) = Rest(s, Len(s))
<1> DEFINE t == Rest(s, p)
<1>0. Len(s) \in Nat /\ p \in Nat
  OBVIOUS
<1>1. /\ t \in Seq(S) /\ Len(t) = Len(s) - p
      /\ \A j \in 1..(Len(s) - p) : t[j] = s[p + j]
  BY RestIs
<1> HIDE DEF t
<1>2. ASSUME p + q <= Len(s) PROVE SubSeq(t, q + 1, Len(t)) = Rest(s, p + q)
  <2>1. p + q \in 0..Len(s) /\ q \in 0..Len(t)
    BY <1>0, <1>1, <1>2
  <2>2. /\ Rest(t, q) \in Seq(S) /\ Len(Rest(t, q)) = Len(t) - q
        /\ \A j \in 1..(Len(t) - q) : Rest(t, q)[j] = t[q + j]
    BY <1>1, <2>1, RestIs
  <2>3. /\ Rest(s, p + q) \in Seq(S) /\ Len(Rest(s, p + q)) = Len(s) - (p + q)
        /\ \A j \in 1..(Len(s) - (p + q)) : Rest(s, p + q)[j] = s[(p + q) + j]
    BY <2>1, RestIs
  <2>4. Len(Rest(t, q)) = Len(s) - (p + q)
    BY <1>0, <1>1, <2>2
  <2>5. ASSUME NEW j \in 1..(Len(s) - (p + q)) PROVE Rest(t, q)[j] = Rest(s, p + q)[j]
    <3>1. j \in 1..(Len(t) - q) /\ q + j \in 1..(Len(s) - p) /\ p + (q + j) = (p + q) + j
      BY <1>0, <1>1
    <3> QED BY <1>1, <2>2, <2>3, <3>1
  <2>6. Rest(t, q) = Rest(s, p + q)
    BY <2>2, <2>3, <2>4, <2>5, SameRest
  <2> QED BY <2>6 DEF Rest
<1>3. ASSUME p + q > Len(s) PROVE SubSeq(t, q + 1, Len(t)) = Rest(s, Len(s))
  <2>1. SubSeq(t, q + 1, Len(t)) = <<>>
    <3>1. q + 1 \in Nat \ {0} /\ q + 1 > Len(t)
      BY <1>0, <1>1, <1>3
    <3>2. SubSeq(t, q + 1, Len(t)) \in Seq(S)
      BY <1>1, <3>1, RestIsSeq
    <3>3. Len(SubSeq(t, q + 1, Len(t))) = 0
      BY <1>1, <3>1
    <3> QED BY <3>2, <3>3
  <2>2. Rest(s, Len(s)) \in Seq(S) /\ Len(Rest(s, Len(s))) = Len(s) - Len(s)
    <3>1. Len(s) \in 0..Len(s)
      BY <1>0
    <3> QED BY <3>1, RestIs
  <2>3. Rest(s, Len(s)) = <<>>
    BY <1>0, <2>2
  <2> QED BY <2>1, <2>3
<1> QED BY <1>2, <1>3 DEF t

-----------------------------------------------------------------------------
(* The words before each command add up to those of the line. *)

LEMMA PrefixSum ==
    ASSUME NEW s \in Seq(Nat), NEW f \in [0..Len(s) -> Nat], f[0] = 0,
           \A i \in 1..Len(s) : f[i] = f[i - 1] + s[i],
           NEW m \in 0..Len(s)
    PROVE  Sum(SubSeq(s, 1, m)) = f[m]
<1> DEFINE t == SubSeq(s, 1, m)
<1>0. Len(s) \in Nat /\ m \in Nat /\ m <= Len(s)
  OBVIOUS
<1>1. t \in Seq(Nat) /\ Len(t) = m /\ \A j \in 1..m : t[j] = s[j]
  <2>1. \A j \in 1..m : s[j] \in Nat
    BY <1>0
  <2>2. t \in Seq(Nat)
    BY <1>0, <2>1, SubSeqProperties
  <2>3. Len(t) = m
    BY <1>0
  <2>4. \A j \in 1..m : t[j] = s[j]
    BY <1>0
  <2> QED BY <2>2, <2>3, <2>4
<1> HIDE DEF t
<1>2. PICK g \in [0..Len(t) -> Nat] :
              /\ g[0] = 0
              /\ \A i \in 1..Len(t) : g[i] = g[i - 1] + t[i]
              /\ Sum(t) = g[Len(t)]
  BY <1>1, SumIs
<1> DEFINE D == {i \in 0..m : g[i] # f[i]}
<1>3. D = {}
  <2> SUFFICES ASSUME D # {} PROVE FALSE
    OBVIOUS
  <2>1. D \in SUBSET Nat
    BY <1>0
  <2>2. PICK d \in D : \A k \in D : d <= k
    BY <2>1, LeastElement
  <2>3. d \in 1..m /\ g[d] # f[d]
    BY <1>0, <1>2
  <2>4. d - 1 \in 0..m /\ d - 1 \notin D
    <3>1. d - 1 \in 0..m /\ ~(d <= d - 1)
      BY <1>0, <2>3
    <3> HIDE DEF D
    <3> QED BY <2>2, <3>1
  <2>5. g[d - 1] = f[d - 1]
    BY <2>4
  <2>6. g[d] = g[d - 1] + t[d] /\ f[d] = f[d - 1] + s[d] /\ t[d] = s[d]
    BY <1>0, <1>1, <1>2, <2>3
  <2> QED BY <2>3, <2>5, <2>6
<1>4. g[m] = f[m]
  <2>1. m \in 0..m /\ m \notin D
    BY <1>0, <1>3
  <2> QED BY <2>1
<1> QED BY <1>1, <1>2, <1>4 DEF t

Before(i) == Sum(SubSeq(want, 1, i - 1))

LEMMA BeforeIs ==
    ASSUME want \in Seq(Nat \ {0})
    PROVE  /\ Sum(want) \in Nat /\ Len(want) \in Nat
           /\ Before(1) = 0 /\ Before(Len(want) + 1) = Sum(want)
           /\ \A i \in 1..Len(want) :
                 /\ want[i] \in Nat /\ want[i] > 0 /\ Before(i) \in Nat
                 /\ Before(i + 1) = Before(i) + want[i]
                 /\ Before(i + 1) <= Sum(want)
<1> DEFINE n == Len(want)
<1>1. want \in Seq(Nat) /\ n \in Nat /\ \A i \in 1..n : want[i] \in Nat /\ want[i] > 0
  OBVIOUS
<1>2. PICK f \in [0..n -> Nat] :
              /\ f[0] = 0
              /\ \A i \in 1..n : f[i] = f[i - 1] + want[i]
              /\ \A i \in 0..n : f[i] <= Sum(want)
              /\ Sum(want) = f[n]
  BY <1>1, SumIs
<1>3. \A m \in 0..n : Sum(SubSeq(want, 1, m)) = f[m]
  BY <1>1, <1>2, PrefixSum
<1> HIDE DEF n
<1>4. \A i \in 1..(n + 1) : Before(i) = f[i - 1]
  BY <1>1, <1>3 DEF Before
<1>5. Sum(want) \in Nat
  BY <1>1, <1>2
<1>6. Before(1) = 0 /\ Before(n + 1) = Sum(want)
  BY <1>1, <1>2, <1>4
<1>7. ASSUME NEW i \in 1..n
      PROVE  /\ Before(i) \in Nat /\ Before(i + 1) = Before(i) + want[i]
             /\ Before(i + 1) <= Sum(want)
  <2>1. i \in 1..(n + 1) /\ i + 1 \in 1..(n + 1) /\ (i + 1) - 1 = i /\ i - 1 \in 0..n
        /\ i \in 0..n
    BY <1>1
  <2>2. Before(i) = f[i - 1] /\ Before(i + 1) = f[i]
    BY <1>4, <2>1
  <2> QED BY <1>2, <2>1, <2>2
<1> QED BY <1>1, <1>5, <1>6, <1>7 DEF n

-----------------------------------------------------------------------------
(***************************************************************************)
(* How far the line s has been read: p words are gone.  Options come first *)
(* (k words), then commands, each at the place where the one before ends.  *)
(***************************************************************************)
OptionWords(s) == Len(s.words) - Sum(s.want)

Exed == \E i \in DOMAIN log : log[i][3] = "exe" /\ i < Len(want)
Reset == log # <<>> /\ log[Len(log)][3] = "reset64"

InLine(s, p) ==
    /\ want = s.want /\ words = Sum(s.want)
    /\ args = Rest(s.words, p)
    /\ pc \in Looking => log = <<>> /\ p <= OptionWords(s)
    /\ pc = "options" /\ p < OptionWords(s) => IsOption(s.words[p + 1])
    /\ pc \in Looking \ {"options"} => p = OptionWords(s)

Uploading ==
    pc = "upload" => /\ args # <<>>
                     /\ up.base + 2 * up.count = UsageOf(args)
                     /\ UsageOf(args) <= Len(args)

InOrder ==
    /\ Len(log) <= Len(want)
    /\ \A i \in DOMAIN log : log[i][1] = Before(i) /\ log[i][2] = want[i]
    /\ pc \in {"loop", "upload"} => \/ Reset /\ args = <<>>
                                    \/ words - Len(args) = Before(Len(log) + 1)
    /\ pc = "exit 0" /\ ~opt.list /\ ~opt.socs => Reset \/ Len(log) = Len(want)

Reading ==
    /\ IsSeq(log) /\ Uploading
    /\ \E s \in Starts : \E p \in 0..Len(s.words) : InLine(s, p)
    /\ Exed \/ InOrder

LEMMA LineIs ==
    ASSUME NEW s \in Starts
    PROVE  /\ s.words \in Seq(Words) /\ Len(s.words) \in Nat
           /\ s.want \in Seq(Nat \ {0}) /\ OptionWords(s) >= 0
           /\ Sum(s.want) \in Nat /\ OptionWords(s) \in Nat
           /\ OptionWords(s) <= Len(s.words)
           /\ OptionsFirst(s.words, OptionWords(s))
           /\ ThenCommands(s.words, s.want, OptionWords(s))
<1>1. s.words \in Seq(Words) /\ Len(s.words) \in Nat
  BY StartsAssumption
<1>2. s.want \in Seq(Nat \ {0}) /\ OptionWords(s) >= 0
  BY UsageAssumption DEF OptionWords
<1>3. /\ OptionsFirst(s.words, OptionWords(s))
      /\ ThenCommands(s.words, s.want, OptionWords(s))
  BY UsageAssumption DEF OptionWords
<1>4. Sum(s.want) \in Nat
  <2>1. s.want \in Seq(Nat)
    BY <1>2
  <2>2. \E f \in [0..Len(s.want) -> Nat] : Sum(s.want) = f[Len(s.want)]
    BY <2>1, SumIs
  <2>3. Len(s.want) \in 0..Len(s.want)
    BY <2>1
  <2> QED BY <2>2, <2>3
<1>5. OptionWords(s) \in Nat /\ OptionWords(s) <= Len(s.words)
  BY <1>1, <1>2, <1>4 DEF OptionWords
<1> QED BY <1>1, <1>2, <1>3, <1>4, <1>5

\* The words that are left.
LEMMA ArgsIs ==
    ASSUME NEW s \in Starts, NEW p \in 0..Len(s.words), InLine(s, p)
    PROVE  /\ args \in Seq(Words) /\ Len(args) = Len(s.words) - p
           /\ Len(args) \in Nat
           /\ \A j \in 1..Len(args) : args[j] = s.words[p + j]
<1>1. s.words \in Seq(Words) /\ Len(s.words) \in Nat
  BY LineIs
<1>2. /\ args \in Seq(Words) /\ Len(args) = Len(s.words) - p
      /\ \A j \in 1..(Len(s.words) - p) : args[j] = s.words[p + j]
  BY <1>1, RestIs DEF InLine
<1> QED BY <1>1, <1>2

-----------------------------------------------------------------------------
(* The options. *)

LEMMA Options_read ==
    ASSUME Reading, NEW s \in Starts, NEW p \in 0..Len(s.words), InLine(s, p),
           \/ \E name \in {"--list", "--list-socs", "--progress", "--verbose"} :
                 HasOption(name) /\ args' = Tail(args) /\ pc' = pc
           \/ HasOption("--dev") /\ Len(args) > 1 /\ args[2].kind = "port"
              /\ args' = SubSeq(args, 3, Len(args)) /\ pc' = pc
           \/ HasOption("--sid") /\ Len(args) > 1
              /\ args' = SubSeq(args, 3, Len(args)) /\ pc' = pc,
           UNCHANGED cmdVars
    PROVE  \E q \in 0..Len(s.words) : InLine(s, q)'
<1> DEFINE k == OptionWords(s)
           w == s.words
<1>1. /\ w \in Seq(Words) /\ Len(w) \in Nat /\ k \in Nat /\ k <= Len(w)
      /\ OptionsFirst(w, k) /\ ThenCommands(w, s.want, k)
      /\ s.want \in Seq(Nat \ {0})
  BY LineIs
<1>2. /\ args \in Seq(Words) /\ Len(args) = Len(w) - p /\ Len(args) \in Nat
      /\ \A j \in 1..Len(args) : args[j] = w[p + j]
  BY ArgsIs
<1>3. /\ pc = "options" /\ args # <<>> /\ IsOption(args[1])
      /\ log = <<>> /\ p <= k /\ args = Rest(w, p)
      /\ want = s.want /\ words = Sum(s.want)
  BY DEF HasOption, IsOption, InLine, Looking
<1>4. Len(args) >= 1 /\ p < Len(w) /\ p \in Nat /\ p + 1 \in 1..Len(w)
  BY <1>1, <1>2, <1>3
<1>5. args[1] = w[p + 1] /\ p + 1 <= k /\ p + 1 \in 1..k
  <2>1. args[1] = w[p + 1]
    <3>1. 1 \in 1..Len(args)
      BY <1>2, <1>4
    <3> QED BY <1>2, <3>1
  <2>2. IsOption(w[p + 1]) => p + 1 <= k
    BY <1>1, <1>4 DEF OptionsFirst
  <2> QED BY <1>1, <1>3, <1>4, <2>1, <2>2
<1> HIDE DEF k, w
<1>6. ASSUME NEW q \in Nat, p + q <= k, p + q < k => IsOption(w[p + q + 1]),
             args' = SubSeq(args, q + 1, Len(args)), pc' = pc
      PROVE  \E r \in 0..Len(s.words) : InLine(s, r)'
  <2>1. p + q \in 0..Len(w)
    BY <1>1, <1>4, <1>6
  <2>2. args' = Rest(w, p + q)
    <3>1. p + q <= Len(w) /\ p \in 0..Len(w)
      BY <1>4, <2>1
    <3>2. SubSeq(Rest(w, p), q + 1, Len(Rest(w, p))) = Rest(w, p + q)
      BY <1>1, <1>6, <3>1, RestOfRest
    <3> QED BY <1>3, <1>6, <3>2, Zenon
  <2>3. InLine(s, p + q)'
    BY <1>3, <1>6, <2>2 DEF InLine, Looking, cmdVars, k, w
  <2> QED BY <2>1, <2>3 DEF w
<1>7. CASE \E name \in {"--list", "--list-socs", "--progress", "--verbose"} :
              HasOption(name) /\ args' = Tail(args) /\ pc' = pc
  <2>1. ~TakesValue(w[p + 1])
    BY <1>5, <1>7 DEF HasOption, TakesValue
  <2>2. p + 1 < k => IsOption(w[p + 1 + 1])
    <3> SUFFICES ASSUME p + 1 < k PROVE IsOption(w[p + 1 + 1])
      OBVIOUS
    <3>1. p + 1 + 1 \in 1..k /\ (p + 1 + 1) - 1 = p + 1
      BY <1>1, <1>4
    <3> QED BY <1>1, <2>1, <3>1 DEF OptionsFirst
  <2>3. args' = SubSeq(args, 1 + 1, Len(args))
    <3>1. Tail(args) = SubSeq(args, 2, Len(args))
      BY <1>2, <1>3, TailIsSubSeq
    <3>2. 1 + 1 = 2
      OBVIOUS
    <3> QED BY <1>7, <3>1, <3>2
  <2> QED BY <1>5, <1>6, <1>7, <2>2, <2>3
<1>8. CASE \/ HasOption("--dev") /\ Len(args) > 1 /\ args[2].kind = "port"
              /\ args' = SubSeq(args, 3, Len(args)) /\ pc' = pc
           \/ HasOption("--sid") /\ Len(args) > 1
              /\ args' = SubSeq(args, 3, Len(args)) /\ pc' = pc
  <2>1. args[2] = w[p + 2] /\ p + 2 \in 1..Len(w)
    BY <1>1, <1>2, <1>4, <1>8
  <2>2. p + 2 <= k /\ ~IsOption(w[p + 2])
    <3>1. CASE HasOption("--dev") /\ args[2].kind = "port"
      <4>1. w[p + 2].kind = "port"
        BY <2>1, <3>1
      <4>2. p + 1 # k
        <5> SUFFICES ASSUME p + 1 = k PROVE FALSE
          OBVIOUS
        <5>1. Len(s.want) >= 1
          <6> SUFFICES ASSUME ~(Len(s.want) >= 1) PROVE FALSE
            OBVIOUS
          <6>1. s.want = <<>>
            BY <1>1
          <6>2. Sum(s.want) = 0
            <7>1. s.want \in Seq(Nat) /\ Len(s.want) = 0
              BY <6>1
            <7> QED BY <7>1, SumIs
          <6>3. k = Len(w)
            BY <1>1, <6>2 DEF k, w, OptionWords
          <6> QED BY <1>1, <2>1, <6>3
        <5>2. 1 \in DOMAIN s.want
          BY <1>1, <5>1
        <5>3. w[k + Sum(SubSeq(s.want, 1, 1 - 1)) + 1].kind = "cmd"
          BY <1>1, <5>2 DEF ThenCommands
        <5>4. Sum(SubSeq(s.want, 1, 1 - 1)) = 0
          BY <1>1, <1>3, BeforeIs DEF Before
        <5>5. k + 0 + 1 = p + 2
          BY <1>1, <1>4
        <5> QED BY <4>1, <5>3, <5>4, <5>5
      <4> QED BY <1>1, <1>4, <1>5, <4>1, <4>2 DEF IsOption
    <3>2. CASE HasOption("--sid")
      <4>1. w[p + 1].name = "--sid" /\ w[p + 1].kind = "opt"
        BY <1>5, <3>2 DEF HasOption, Bare
      <4>2. p + 1 # Len(w) /\ p + 1 + 1 = p + 2
        BY <1>1, <1>4, <2>1
      <4>3. p + 1 < k /\ ~IsOption(w[p + 1 + 1])
        BY <1>1, <1>5, <4>1, <4>2 DEF OptionsFirst
      <4> QED BY <1>1, <1>4, <4>2, <4>3
    <3> QED BY <1>8, <3>1, <3>2
  <2>3. p + 2 < k => IsOption(w[p + 2 + 1])
    <3> SUFFICES ASSUME p + 2 < k PROVE IsOption(w[p + 2 + 1])
      OBVIOUS
    <3>1. p + 2 + 1 \in 1..k /\ (p + 2 + 1) - 1 = p + 2
      BY <1>1, <1>4
    <3> QED BY <1>1, <2>2, <3>1 DEF OptionsFirst, TakesValue, IsOption
  <2>4. args' = SubSeq(args, 2 + 1, Len(args)) /\ pc' = pc
    BY <1>8
  <2> QED BY <1>6, <2>2, <2>3, <2>4
<1> QED BY <1>7, <1>8

LEMMA Dev_read ==
    ASSUME Reading, DevNext \/ BusChange, UNCHANGED cmdVars
    PROVE  Reading'
<1>1. PICK s \in Starts : \E p \in 0..Len(s.words) : InLine(s, p)
  BY DEF Reading
<1>0. PICK p \in 0..Len(s.words) : InLine(s, p)
  BY <1>1
<1>2. /\ OptionWords(s) \in Nat /\ OptionWords(s) <= Len(s.words)
      /\ Len(s.words) \in Nat /\ s.want \in Seq(Nat \ {0})
      /\ OptionsFirst(s.words, OptionWords(s))
  BY LineIs
<1>3. /\ args \in Seq(Words) /\ Len(args) = Len(s.words) - p /\ Len(args) \in Nat
      /\ \A j \in 1..Len(args) : args[j] = s.words[p + j]
  BY <1>0, ArgsIs
<1>4. pc \in Looking /\ pc' \in Looking \cup {"loop", "exit 0", "exit 1", "usage"}
  BY DevPc
<1>5. /\ log = <<>> /\ p <= OptionWords(s) /\ log' = <<>> /\ want' = want
      /\ words' = words /\ want = s.want /\ words = Sum(s.want)
  BY <1>0, <1>4 DEF InLine, cmdVars
<1>6. \/ \E name \in {"--list", "--list-socs", "--progress", "--verbose"} :
            HasOption(name) /\ args' = Tail(args) /\ pc' = pc
      \/ HasOption("--dev") /\ Len(args) > 1 /\ args[2].kind = "port"
         /\ args' = SubSeq(args, 3, Len(args)) /\ pc' = pc
      \/ HasOption("--sid") /\ Len(args) > 1
         /\ args' = SubSeq(args, 3, Len(args)) /\ pc' = pc
      \/ /\ args' = args
         /\ \/ pc' \in {"exit 1", "usage"} \/ pc' = pc
            \/ OptEnd
            \/ pc \in Looking \ {"options"} /\ pc' \in Looking \ {"options"}
            \/ pc = "listing" /\ pc' = "exit 0" /\ opt.list /\ opt' = opt
            \/ pc = "open" /\ pc' = "loop"
  <2>1. CASE Flag("--list", "list") \/ Flag("--list-socs", "socs")
             \/ Flag("--progress", "p") \/ Flag("--verbose", "v")
    BY <2>1, Zenon DEF Flag
  <2>2. CASE OptDev
    <3>1. CASE Len(args) > 1 /\ args[2].kind = "port" /\ args[2].num > 0
      BY <2>2, <3>1, Zenon DEF OptDev
    <3>2. CASE ~(Len(args) > 1 /\ args[2].kind = "port" /\ args[2].num > 0)
      <4>1. pc' = "exit 1" /\ args' = args
        BY <2>2, <3>2, Zenon DEF OptDev, Exit
      <4> QED BY <4>1
    <3> QED BY <3>1, <3>2
  <2>3. CASE OptSid
    BY <2>3, Zenon DEF OptSid
  <2>4. CASE Usage \/ OptEnd
    BY <2>4 DEF Usage, OptEnd, Exit
  <2>5. CASE ListStart
    BY <2>5 DEF ListStart, Looking
  <2>6. CASE ListOpen
    <3>1. args' = args /\ (pc' = pc \/ pc' = "exit 1")
      BY <2>6, Zenon DEF ListOpen, Exit
    <3> QED BY <3>1
  <2>7. CASE ListClose \/ BusChange
    BY <2>7 DEF ListClose, BusChange
  <2>8. CASE ListEnd
    <3>1. args' = args /\ pc = "listing"
      BY <2>8 DEF ListEnd
    <3>2. CASE opt.list
      <4>1. opt' = opt /\ pc' \in {"exit 0", "exit 1"}
        BY <2>8, <3>2 DEF ListEnd, Exit
      <4> QED BY <3>1, <3>2, <4>1
    <3>3. CASE ~opt.list
      <4>1. pc' \in {"exit 1", "open"}
        BY <2>8, <3>3 DEF ListEnd
      <4> QED BY <3>1, <4>1 DEF Looking
    <3> QED BY <3>2, <3>3
  <2>9. CASE Open
    <3>1. args' = args /\ pc = "open" /\ (pc' = "loop" \/ pc' = "exit 1")
      BY <2>9, Zenon DEF Open, Exit
    <3> QED BY <3>1
  <2> HIDE DEF OptDev, OptSid
  <2> QED BY <2>1, <2>2, <2>3, <2>4, <2>5, <2>6, <2>7, <2>8, <2>9, Zenon DEF DevNext
<1>7. IsSeq(log') /\ Uploading'
  <2>1. <<>> \in Seq({})
    OBVIOUS
  <2>2. pc' # "upload"
    BY <1>4 DEF Looking
  <2> QED BY <1>5, <2>1, <2>2 DEF IsSeq, Uploading
<1>8. want \in Seq(Nat \ {0}) /\ Len(want) \in Nat
  BY <1>2, <1>5
<1>9. ASSUME pc' = "loop" => words' - Len(args') = 0,
             pc' = "exit 0" => opt'.list \/ opt'.socs
      PROVE  InOrder'
  <2>1. Len(log') = 0 /\ DOMAIN log' = {} /\ Len(want') \in Nat
    BY <1>5, <1>8
  <2>2. Before(1)' = 0
    <3>1. Before(1) = 0
      BY <1>8, BeforeIs
    <3> QED BY <1>5, <3>1 DEF Before
  <2>3. pc' # "upload"
    BY <1>4 DEF Looking
  <2>4. Before(Len(log) + 1)' = 0
    <3>1. Len(log') + 1 = 1
      BY <2>1
    <3> QED BY <2>2, <3>1 DEF Before
  <2>5. (Len(log) <= Len(want))'
    BY <2>1
  <2>6. (\A i \in DOMAIN log : log[i][1] = Before(i) /\ log[i][2] = want[i])'
    BY <2>1
  <2>7. (words - Len(args) = Before(Len(log) + 1))' \/ pc' # "loop"
    BY <1>9, <2>4
  <2> QED BY <1>9, <2>3, <2>5, <2>6, <2>7 DEF InOrder
<1>10. CASE \/ \E name \in {"--list", "--list-socs", "--progress", "--verbose"} :
                  HasOption(name) /\ args' = Tail(args) /\ pc' = pc
            \/ HasOption("--dev") /\ Len(args) > 1 /\ args[2].kind = "port"
               /\ args' = SubSeq(args, 3, Len(args)) /\ pc' = pc
            \/ HasOption("--sid") /\ Len(args) > 1
               /\ args' = SubSeq(args, 3, Len(args)) /\ pc' = pc
  <2>1. \E q \in 0..Len(s.words) : InLine(s, q)'
    BY <1>0, <1>10, Options_read
  <2>2. InOrder'
    BY <1>4, <1>9, <1>10 DEF Looking
  <2> QED BY <1>7, <2>1, <2>2 DEF Reading
<1>11. ASSUME args' = args,
              pc' \in Looking \ {"options"} => p = OptionWords(s),
              pc' = "options" => pc = "options",
              pc' = "loop" => p = OptionWords(s),
              pc' = "exit 0" => opt'.list \/ opt'.socs
       PROVE  Reading'
  <2>1. InLine(s, p)'
    BY <1>0, <1>5, <1>11 DEF InLine
  <2>2. pc' = "loop" => words' - Len(args') = 0
    <3>0. Sum(s.want) \in Nat
      BY LineIs
    <3>1. p = OptionWords(s) => words = Len(args)
      BY <1>2, <1>3, <1>5, <3>0 DEF OptionWords
    <3>2. Len(args) \in Int
      BY <1>3
    <3> QED BY <1>5, <1>11, <3>1, <3>2
  <2>3. InOrder'
    BY <1>9, <1>11, <2>2
  <2> QED BY <1>7, <2>1, <2>3 DEF Reading
<1>12. pc \in Looking \ {"options"} => p = OptionWords(s)
  BY <1>0 DEF InLine
<1>13. CASE args' = args /\ OptEnd
  <2>1. CASE \E i \in DOMAIN args : args[i].kind = "opt"
    <3>1. pc' = "exit 1"
      BY <1>13, <2>1 DEF OptEnd
    <3> QED BY <1>11, <1>13, <3>1 DEF Looking
  <2>2. CASE ~\E i \in DOMAIN args : args[i].kind = "opt"
    <3>1. p = OptionWords(s)
      <4> SUFFICES ASSUME p < OptionWords(s) PROVE FALSE
        BY <1>2, <1>5
      <4>1. IsOption(s.words[p + 1])
        BY <1>0, <1>13 DEF InLine, OptEnd
      <4>2. 1 \in 1..Len(args) /\ DOMAIN args = 1..Len(args)
        BY <1>2, <1>3
      <4>3. args[1] = s.words[p + 1]
        BY <1>3, <4>2
      <4>4. args[1].kind = "bare"
        BY <2>2, <4>1, <4>2, <4>3 DEF IsOption
      <4>5. p + 1 \in 1..OptionWords(s)
        BY <1>2
      <4>6. args[1].name \in Bare
        BY <1>2, <4>3, <4>4, <4>5 DEF OptionsFirst
      <4>7. args # <<>> /\ pc = "options"
        <5>1. Len(args) > 0
          BY <1>3, <4>2
        <5>2. args # <<>>
          BY <5>1
        <5> QED BY <1>13, <5>2 DEF OptEnd
      <4>8. HasOption(args[1].name) /\ args[1].name \in {"--list", "--list-socs"}
        BY <4>4, <4>6, <4>7 DEF HasOption, Bare
      <4>9. IsPrefixOption
        BY <4>8 DEF IsPrefixOption
      <4> QED BY <1>13, <4>9 DEF OptEnd
    <3>2. pc' # "options" /\ pc' # "loop"
      BY <1>13 DEF OptEnd
    <3>3. pc' = "exit 0" => opt'.list \/ opt'.socs
      BY <1>13, <2>2 DEF OptEnd, devVars
    <3> QED BY <1>11, <1>13, <3>1, <3>2, <3>3
  <2> QED BY <2>1, <2>2
<1>14. CASE args' = args /\ (pc' \in {"exit 1", "usage"} \/ pc' = pc)
  BY <1>4, <1>11, <1>12, <1>14 DEF Looking
<1>15. CASE /\ args' = args /\ pc \in Looking \ {"options"}
            /\ pc' \in Looking \ {"options"}
  BY <1>11, <1>12, <1>15 DEF Looking
<1>16. CASE args' = args /\ pc = "listing" /\ pc' = "exit 0" /\ opt.list /\ opt' = opt
  BY <1>11, <1>16 DEF Looking
<1>17. CASE args' = args /\ pc = "open" /\ pc' = "loop"
  BY <1>11, <1>12, <1>17 DEF Looking
<1> HIDE DEF Reading
<1> QED BY <1>6, <1>10, <1>13, <1>14, <1>15, <1>16, <1>17, Zenon

-----------------------------------------------------------------------------
(* The commands. *)

\* A command that is complete is the next one of the line, and its length is
\* what usage() says.
LEMMA ThisCommand ==
    ASSUME Reading, ~Exed, pc \in {"loop", "upload"}, args # <<>>,
           UsageOf(args) \in Nat, UsageOf(args) <= Len(args)
    PROVE  LET i == Len(log) + 1
           IN  /\ i \in 1..Len(want) /\ Len(log) \in Nat /\ Len(want) \in Nat
               /\ words - Len(args) = Before(i) /\ want[i] = UsageOf(args)
               /\ words - (Len(args) - UsageOf(args)) = Before(i + 1)
               /\ i < Len(want) \/ UsageOf(args) = Len(args)
<1>1. PICK s \in Starts : \E p \in 0..Len(s.words) : InLine(s, p)
  BY DEF Reading
<1>2. PICK p \in 0..Len(s.words) : InLine(s, p)
  BY <1>1
<1>3. /\ s.words \in Seq(Words) /\ Len(s.words) \in Nat /\ Sum(s.want) \in Nat
      /\ s.want \in Seq(Nat \ {0}) /\ OptionWords(s) \in Nat
      /\ ThenCommands(s.words, s.want, OptionWords(s))
  BY LineIs
<1>4. /\ Len(args) = Len(s.words) - p /\ Len(args) \in Nat /\ args \in Seq(Words)
      /\ args = Rest(s.words, p) /\ want = s.want /\ words = Sum(s.want)
  BY <1>2, ArgsIs DEF InLine
<1>5. Len(args) > 0
  BY <1>4
<1> DEFINE i == Len(log) + 1
           n == UsageOf(args)
<1>6. Len(log) \in Nat
  BY IsSeqLen DEF Reading
<1>7. Len(log) <= Len(want) /\ words - Len(args) = Before(i)
  BY DEF Reading, InOrder
<1>8. /\ Len(want) \in Nat /\ Before(Len(want) + 1) = Sum(want)
      /\ \A j \in 1..Len(want) :
            /\ want[j] \in Nat /\ want[j] > 0 /\ Before(j) \in Nat
            /\ Before(j + 1) = Before(j) + want[j]
            /\ Before(j + 1) <= Sum(want)
  BY <1>3, <1>4, BeforeIs
<1>9. i \in 1..Len(want)
  <2> SUFFICES ASSUME i = Len(want) + 1 PROVE FALSE
    BY <1>6, <1>7, <1>8
  <2>1. words - Len(args) = words
    BY <1>4, <1>7, <1>8
  <2> QED BY <1>3, <1>4, <1>5, <2>1
<1>10. OptionWords(s) + Sum(SubSeq(s.want, 1, i - 1)) + 1 = p + 1
  <2>1. Sum(SubSeq(s.want, 1, i - 1)) = words - Len(args)
    BY <1>4, <1>7 DEF Before
  <2>2. p \in Int
    BY <1>3
  <2> QED BY <1>3, <1>4, <2>1, <2>2 DEF OptionWords
<1>11. want[i] = n \/ (i = Len(want) /\ want[i] < n)
  <2>1. i \in DOMAIN s.want
    BY <1>3, <1>4, <1>9
  <2>2. LET from == OptionWords(s) + Sum(SubSeq(s.want, 1, i - 1)) + 1
            m    == UsageOf(SubSeq(s.words, from, Len(s.words)))
        IN  s.want[i] = m \/ (i = Len(s.want) /\ s.want[i] < m)
    BY <1>3, <2>1 DEF ThenCommands
  <2>3. SubSeq(s.words, OptionWords(s) + Sum(SubSeq(s.want, 1, i - 1)) + 1,
               Len(s.words)) = args
    BY <1>4, <1>10 DEF Rest
  <2> QED BY <1>4, <2>2, <2>3
<1> HIDE DEF i, n
<1>12. /\ want[i] \in Nat /\ Before(i) \in Nat /\ Before(i + 1) = Before(i) + want[i]
       /\ Before(i + 1) <= Sum(want)
  BY <1>8, <1>9
<1>13. words \in Nat /\ Len(args) \in Nat /\ words - Len(args) = Before(i)
  BY <1>3, <1>4, <1>7 DEF i
<1>last. i = Len(want) => want[i] = Len(args)
  <2>1. i = Len(want) => Before(i + 1) = words
    BY <1>4, <1>8
  <2> QED BY <1>12, <1>13, <2>1
<1>14. n \in Nat /\ n <= Len(args)
  BY DEF n
<1>15. want[i] = n
  BY <1>11, <1>12, <1>13, <1>last, <1>14
<1>16. words - (Len(args) - n) = Before(i + 1)
  BY <1>12, <1>13, <1>14, <1>15
<1>17. i < Len(want) \/ n = Len(args)
  BY <1>8, <1>9, <1>last, <1>15
<1> QED BY <1>6, <1>7, <1>8, <1>9, <1>15, <1>16, <1>17 DEF i, n

\* Reading on: a command takes skip words and is in the log.
LEMMA Took_read ==
    ASSUME Reading, pc \in {"loop", "upload"}, pc' = "loop", args # <<>>,
           UsageOf(args) \in Nat, UsageOf(args) <= Len(args), NEW skip \in Nat,
           Took(UsageOf(args), skip),
           skip # UsageOf(args) => args[1].name = "exe" /\ skip > UsageOf(args),
           want' = want, words' = words
    PROVE  Reading'
<1>1. PICK s \in Starts : \E p \in 0..Len(s.words) : InLine(s, p)
  BY DEF Reading
<1>2. PICK p \in 0..Len(s.words) : InLine(s, p)
  BY <1>1
<1>3. /\ s.words \in Seq(Words) /\ Len(s.words) \in Nat /\ Sum(s.want) \in Nat
  BY LineIs
<1>4. /\ Len(args) = Len(s.words) - p /\ Len(args) \in Nat /\ args \in Seq(Words)
      /\ args = Rest(s.words, p) /\ want = s.want /\ words = Sum(s.want)
  BY <1>2, ArgsIs DEF InLine
<1> DEFINE n == UsageOf(args)
           e == <<words - Len(args), n, args[1].name>>
<1>5. args' = SubSeq(args, skip + 1, Len(args)) /\ log' = Append(log, e)
  BY DEF Took
<1>6. \E q \in 0..Len(s.words) :
         /\ args' = Rest(s.words, q)
         /\ q = IF skip <= Len(args) THEN p + skip ELSE Len(s.words)
  <2>1. CASE skip <= Len(args)
    <3>1. p + skip \in 0..Len(s.words) /\ p + skip <= Len(s.words)
      BY <1>3, <1>4, <2>1
    <3>2. SubSeq(Rest(s.words, p), skip + 1, Len(Rest(s.words, p)))
            = Rest(s.words, p + skip)
      BY <1>3, <3>1, RestOfRest
    <3>3. args' = Rest(s.words, p + skip)
      BY <1>4, <1>5, <3>2, Zenon
    <3> QED BY <2>1, <3>1, <3>3
  <2>2. CASE ~(skip <= Len(args))
    <3>1. p + skip > Len(s.words) /\ Len(s.words) \in 0..Len(s.words)
      BY <1>3, <1>4, <2>2
    <3>2. SubSeq(Rest(s.words, p), skip + 1, Len(Rest(s.words, p)))
            = Rest(s.words, Len(s.words))
      BY <1>3, <3>1, RestOfRest
    <3>3. args' = Rest(s.words, Len(s.words))
      BY <1>4, <1>5, <3>2, Zenon
    <3> QED BY <2>2, <3>1, <3>3
  <2> QED BY <2>1, <2>2
<1>7. PICK q \in 0..Len(s.words) :
         /\ args' = Rest(s.words, q)
         /\ q = IF skip <= Len(args) THEN p + skip ELSE Len(s.words)
  BY <1>6
<1>8. InLine(s, q)'
  BY <1>4, <1>7 DEF InLine, Looking
<1>9. Len(args') = IF skip <= Len(args) THEN Len(args) - skip ELSE 0
  <2>1. Len(Rest(s.words, q)) = Len(s.words) - q
    BY <1>3, RestIs
  <2>2. Len(args') = Len(s.words) - q
    BY <1>7, <2>1
  <2>3. /\ p \in Nat /\ q \in Nat /\ Len(s.words) - p = Len(args)
        /\ Len(args) \in Nat /\ Len(s.words) \in Nat
    BY <1>3, <1>4
  <2>4. CASE skip <= Len(args)
    <3>1. q = p + skip
      BY <1>7, <2>4
    <3>2. Len(s.words) - (p + skip) = Len(args) - skip
      BY <2>3
    <3>3. Len(args') = Len(args) - skip
      BY <2>2, <3>1, <3>2
    <3> QED BY <2>4, <3>3
  <2>5. CASE ~(skip <= Len(args))
    <3>1. q = Len(s.words)
      BY <1>7, <2>5
    <3>2. Len(args') = 0
      BY <2>2, <2>3, <3>1
    <3> QED BY <2>5, <3>2
  <2> QED BY <2>4, <2>5
<1> HIDE DEF e
<1>10. PICK S : log \in Seq(S)
  BY DEF Reading, IsSeq
<1>11. log \in Seq(S \cup {e})
  BY <1>10
<1>12. /\ log' \in Seq(S \cup {e}) /\ Len(log) \in Nat /\ Len(log') = Len(log) + 1
       /\ \A i \in 1..Len(log) : log'[i] = log[i]
       /\ log'[Len(log) + 1] = e
       /\ DOMAIN log = 1..Len(log) /\ DOMAIN log' = 1..(Len(log) + 1)
  BY <1>5, <1>11
<1>13. IsSeq(log')
  BY <1>12 DEF IsSeq
<1>14. Uploading'
  BY DEF Uploading
<1>15. Exed => Exed'
  <2> SUFFICES ASSUME NEW i \in DOMAIN log, log[i][3] = "exe", i < Len(want)
               PROVE  Exed'
    BY DEF Exed
  <2>1. i \in DOMAIN log' /\ log'[i] = log[i]
    BY <1>12
  <2> QED BY <2>1 DEF Exed
<1>16. ASSUME ~Exed PROVE Exed' \/ InOrder'
  <2>1. LET i == Len(log) + 1
        IN  /\ i \in 1..Len(want) /\ Len(want) \in Nat
            /\ words - Len(args) = Before(i) /\ want[i] = n
            /\ words - (Len(args) - n) = Before(i + 1)
            /\ i < Len(want) \/ n = Len(args)
    BY <1>16, ThisCommand
  <2> DEFINE i == Len(log) + 1
  <2>2. e[1] = Before(i) /\ e[2] = want[i] /\ e[3] = args[1].name
    BY <2>1 DEF e
  <2>3. CASE skip # n /\ i < Len(want)
    <3>1. i \in DOMAIN log' /\ log'[i][3] = "exe"
      BY <1>12, <2>2, <2>3
    <3> QED BY <2>3, <3>1 DEF Exed
  <2>4. CASE ~(skip # n /\ i < Len(want))
    <3>1. Len(args') = Len(args) - n
      <4>1. Len(args) \in Nat /\ n \in Nat /\ n <= Len(args)
        BY <1>4
      <4>2. skip = n \/ (skip > n /\ n = Len(args))
        BY <2>1, <2>4
      <4> HIDE DEF n
      <4> QED BY <1>9, <4>1, <4>2
    <3>2. words' - Len(args') = Before(i + 1)
      BY <2>1, <3>1
    <3>3. /\ Len(log') = i /\ i <= Len(want)
      BY <1>12, <2>1
    <3>4. InOrder
      BY <1>16 DEF Reading
    <3>5. ASSUME NEW j \in DOMAIN log'
          PROVE  log'[j][1] = Before(j) /\ log'[j][2] = want[j]
      <4>1. CASE j = i
        BY <1>12, <2>2, <4>1
      <4>2. CASE j # i
        <5>1. j \in 1..Len(log)
          BY <1>12, <4>2
        <5>2. log'[j] = log[j] /\ j \in DOMAIN log
          BY <1>12, <5>1
        <5> QED BY <3>4, <5>2 DEF InOrder
      <4> QED BY <4>1, <4>2
    <3>6. \A j : Before(j)' = Before(j)
      BY DEF Before
    <3>7. words' - Len(args') = Before(Len(log) + 1)'
      <4>1. Before(Len(log) + 1)' = Before(Len(log') + 1)
        BY DEF Before
      <4> QED BY <3>2, <3>3, <4>1
    <3> QED BY <3>3, <3>5, <3>6, <3>7 DEF InOrder
  <2> QED BY <2>3, <2>4
<1> QED BY <1>8, <1>13, <1>14, <1>15, <1>16 DEF Reading

\* Steps that leave the line and the log alone.
LEMMA Reading_frame ==
    ASSUME Reading, pc \in {"loop", "upload"},
           pc' = pc \/ pc' \in {"exit 1", "crashed"}
             \/ (pc' = "upload" /\ args # <<>>),
           UNCHANGED <<args, log, want, words>>,
           pc' = "upload" => /\ up'.base + 2 * up'.count = UsageOf(args)
                             /\ UsageOf(args) <= Len(args)
                             /\ args # <<>>
    PROVE  Reading'
<1>1. IsSeq(log')
  BY DEF Reading
<1>2. Uploading'
  BY DEF Uploading
<1>3. \E s \in Starts : \E p \in 0..Len(s.words) : InLine(s, p)'
  <2>1. PICK s \in Starts : \E p \in 0..Len(s.words) : InLine(s, p)
    BY DEF Reading
  <2>2. PICK p \in 0..Len(s.words) : InLine(s, p)
    BY <2>1
  <2>3. InLine(s, p)'
    BY <2>2 DEF InLine, Looking
  <2> QED BY <2>3
<1>4. Exed => Exed'
  BY DEF Exed
<1>5. InOrder => InOrder'
  <2> SUFFICES ASSUME InOrder PROVE InOrder'
    OBVIOUS
  <2>1. (Len(log) <= Len(want))'
    BY DEF InOrder
  <2>2. \A i : Before(i)' = Before(i)
    BY DEF Before
  <2>3. (\A i \in DOMAIN log : log[i][1] = Before(i) /\ log[i][2] = want[i])'
    BY <2>2 DEF InOrder
  <2>4. Reset' = Reset
    BY DEF Reset
  <2>5. (words - Len(args) = Before(Len(log) + 1))'
          = (words - Len(args) = Before(Len(log) + 1))
    BY DEF Before
  <2> QED BY <2>1, <2>3, <2>4, <2>5 DEF InOrder
<1> QED BY <1>1, <1>2, <1>3, <1>4, <1>5 DEF Reading

\* The lengths that main() adds to argv are those of usage().
LEMMA UsageIs ==
    ASSUME args \in Seq(Words), args # <<>>
    PROVE  /\ args[1].name \in {"ver", "sid", "wdreset", "spiflash-info"}
                => UsageOf(args) = 1
           /\ args[1].name \in {"readl", "exe", "echo-gauge", "spl", "uboot", "reset64"}
                => UsageOf(args) = 2
           /\ args[1].name \in {"hex", "writel", "clear", "write",
                                "write-with-progress", "spiflash-write"}
                => UsageOf(args) = 3
           /\ args[1].name \in {"memmove", "fill", "read", "spiflash-read"}
                => UsageOf(args) = 4
           /\ args[1].name = "multi" /\ Len(args) > 1
                => UsageOf(args) = 2 + 2 * strtoul(args[2])
BY DEF UsageOf

\* One command, carried out: its words, and what is skipped.
Obeys(n, skip) ==
    /\ pc = "loop" /\ pc' = "loop" /\ args # <<>>
    /\ UsageOf(args) = n /\ n <= Len(args) /\ Took(n, skip)
    /\ n # skip => args[1].name = "exe"
    /\ want' = want /\ words' = words

LEMMA Commands_obey ==
    ASSUME args \in Seq(Words),
           \/ NoEffects \/ Writes
           \/ Filled("clear", 2) \/ Filled("fill", 3)
           \/ ReadDone \/ FlashReadDone \/ FlashWriteDone
           \/ \E by \in {"spl", "uboot"} :
                 \/ SplOnly(by)
                 \/ \E img : LegacyDone(by, img) \/ FitDone(by, img)
    PROVE  \E n \in 1..4 : \E skip \in Nat : Obeys(n, skip) /\ (n # skip => skip > n)
<1>0. Len(args) \in Nat
  OBVIOUS
<1>1. ASSUME NEW name, NEW n \in 0..3, Command(name, n), Took(n + 1, n + 1),
             want' = want, words' = words, pc' = pc,
             \/ name \in {"ver", "sid", "wdreset", "spiflash-info"} /\ n = 0
             \/ name \in {"readl", "echo-gauge", "spl", "uboot"} /\ n = 1
             \/ name \in {"hex", "writel", "clear", "spiflash-write"} /\ n = 2
             \/ name \in {"memmove", "fill", "read", "spiflash-read"} /\ n = 3
      PROVE  \E k \in 1..4 : \E skip \in Nat : Obeys(k, skip) /\ (k # skip => skip > k)
  <2>1. /\ pc = "loop" /\ args # <<>> /\ args[1].name = name /\ Len(args) > n
    BY <1>1 DEF Command
  <2>2. UsageOf(args) = n + 1
    BY <1>1, <2>1, UsageIs
  <2>3. n + 1 <= Len(args) /\ n + 1 \in 1..4 /\ n + 1 \in Nat
    BY <1>0, <2>1
  <2>4. Obeys(n + 1, n + 1)
    BY <1>1, <2>1, <2>2, <2>3 DEF Obeys
  <2> QED BY <2>3, <2>4
<1>2. CASE NoEffects
  <2>1. ASSUME NEW name, NEW n, NoEffect(name, n)
        PROVE  /\ Command(name, n) /\ Took(n + 1, n + 1)
               /\ want' = want /\ words' = words /\ pc' = pc
    BY <2>1 DEF NoEffect, otherVars, givenVars
  <2>2. CASE aw_fel_hexdump
    BY <1>1, <2>1, <2>2 DEF aw_fel_hexdump
  <2>3. CASE fel_readl
    BY <1>1, <2>1, <2>3 DEF fel_readl
  <2>4. CASE aw_fel_print_version
    BY <1>1, <2>1, <2>4 DEF aw_fel_print_version
  <2>5. CASE aw_fel_print_sid
    BY <1>1, <2>1, <2>5 DEF aw_fel_print_sid
  <2>6. CASE echo_gauge
    BY <1>1, <2>1, <2>6 DEF echo_gauge
  <2>7. CASE aw_fel_spiflash_info
    BY <1>1, <2>1, <2>7 DEF aw_fel_spiflash_info
  <2> QED BY <1>2, <2>2, <2>3, <2>4, <2>5, <2>6, <2>7 DEF NoEffects
<1>3. CASE fel_memmove
  <2>1. Command("memmove", 3) /\ Took(3 + 1, 3 + 1) /\ want' = want /\ words' = words
        /\ pc' = pc
    BY <1>3 DEF fel_memmove, Unguarded, otherVars, givenVars
  <2> QED BY <1>1, <2>1
<1>4. CASE fel_writel
  <2>1. Command("writel", 2) /\ Took(2 + 1, 2 + 1) /\ want' = want /\ words' = words
        /\ pc' = pc
    BY <1>4 DEF fel_writel, Unguarded, otherVars, givenVars
  <2> QED BY <1>1, <2>1
<1>5. CASE aw_fel_execute
  <2>1. Command("exe", 1) /\ Took(2, 3) /\ want' = want /\ words' = words /\ pc' = pc
    BY <1>5 DEF aw_fel_execute, Unguarded, otherVars, givenVars
  <2>2. UsageOf(args) = 2 /\ args # <<>> /\ args[1].name = "exe" /\ 2 <= Len(args)
    BY <1>0, <2>1, UsageIs DEF Command
  <2>3. Obeys(2, 3)
    BY <2>1, <2>2 DEF Obeys, Command
  <2> QED BY <2>3
<1>6. CASE aw_wd_reset
  <2>1. Command("wdreset", 0) /\ Took(0 + 1, 0 + 1) /\ want' = want /\ words' = words
        /\ pc' = pc
    BY <1>6 DEF aw_wd_reset, Unguarded, otherVars, givenVars
  <2> QED BY <1>1, <2>1
<1>7. ASSUME NEW name, NEW n \in {2, 3}, Filled(name, n)
      PROVE  /\ Command(name, n) /\ Took(n + 1, n + 1)
             /\ want' = want /\ words' = words /\ pc' = pc
  <2>1. Command(name, n - 1) /\ Len(args) # n
    BY <1>7 DEF Filled
  <2>2. Command(name, n)
    BY <1>0, <2>1 DEF Command
  <2> QED BY <1>7, <2>2 DEF Filled, otherVars, givenVars
<1>8. CASE Filled("clear", 2)
  BY <1>1, <1>7, <1>8
<1>9. CASE Filled("fill", 3)
  BY <1>1, <1>7, <1>9
<1>10. CASE ReadDone
  <2>1. Command("read", 3) /\ Took(3 + 1, 3 + 1) /\ want' = want /\ words' = words
        /\ pc' = pc
    BY <1>10 DEF ReadDone, otherVars, givenVars
  <2> QED BY <1>1, <2>1
<1>11. CASE FlashReadDone
  <2>1. Command("spiflash-read", 3) /\ Took(3 + 1, 3 + 1) /\ want' = want
        /\ words' = words /\ pc' = pc
    BY <1>11 DEF FlashReadDone, otherVars, givenVars
  <2> QED BY <1>1, <2>1
<1>12. CASE FlashWriteDone
  <2>1. Command("spiflash-write", 2) /\ Took(2 + 1, 2 + 1) /\ want' = want
        /\ words' = words /\ pc' = pc
    BY <1>12 DEF FlashWriteDone, otherVars, givenVars
  <2> QED BY <1>1, <2>1
<1>13. ASSUME NEW by \in {"spl", "uboot"}, NEW img,
              SplOnly(by) \/ LegacyDone(by, img) \/ FitDone(by, img)
       PROVE  \E n \in 1..4 : \E skip \in Nat : Obeys(n, skip) /\ (n # skip => skip > n)
  <2>1. SplRun(by) /\ SplEffect(by)
    BY <1>13, Zenon DEF SplOnly, LegacyDone, FitDone
  <2>2. Command(by, 1) /\ Took(1 + 1, 1 + 1) /\ want' = want /\ words' = words
        /\ pc' = pc
    BY <2>1 DEF SplRun, SplEffect, otherVars, givenVars
  <2> QED BY <1>1, <2>2
<1> HIDE DEF Obeys
<1> QED BY <1>2, <1>3, <1>4, <1>5, <1>6, <1>8, <1>9, <1>10, <1>11, <1>12, <1>13
        DEF Writes

\* file_upload() is reached with as many words as it will take.
LEMMA Upload_begins ==
    ASSUME args \in Seq(Words), Begins
    PROVE  /\ pc = "loop" /\ UNCHANGED <<args, want, words, log>>
           /\ \/ pc' = "exit 1"
              \/ /\ pc' = "upload" /\ args # <<>>
                 /\ up'.base + 2 * up'.count = UsageOf(args)
                 /\ UsageOf(args) <= Len(args)
<1>1. ASSUME NEW count \in Nat, NEW base \in Nat, NEW cb, file_upload(count, base, cb),
             args # <<>>, UsageOf(args) = base + 2 * count
      PROVE  /\ UNCHANGED <<args, want, words, log>>
             /\ \/ pc' = "exit 1"
                \/ /\ pc' = "upload" /\ args # <<>>
                   /\ up'.base + 2 * up'.count = UsageOf(args)
                   /\ UsageOf(args) <= Len(args)
  <2>1. CASE \/ Len(args) - base < 2 * count
             \/ \E i \in 1..count : ~Exists(args[base + 2 * i])
    <3>1. Fatal
      BY <1>1, <2>1, Zenon DEF file_upload
    <3> QED BY <3>1 DEF Fatal, Exit, cmdVars
  <2>2. CASE ~(\/ Len(args) - base < 2 * count
               \/ \E i \in 1..count : ~Exists(args[base + 2 * i]))
    <3>1. /\ up' = [i |-> 1, count |-> count, base |-> base] /\ pc' = "upload"
          /\ UNCHANGED <<args, log, givenVars>>
      BY <1>1, <2>2, Zenon DEF file_upload
    <3>2. up'.base = base /\ up'.count = count
      BY <3>1
    <3>3. Len(args) \in Nat /\ ~(Len(args) - base < 2 * count)
      BY <2>2
    <3>4. base + 2 * count <= Len(args)
      BY <3>3
    <3> QED BY <1>1, <3>1, <3>2, <3>4 DEF givenVars
  <2> QED BY <2>1, <2>2
<1>2. CASE write
  <2>1. /\ pc = "loop" /\ args # <<>> /\ args[1].name = "write"
        /\ file_upload(1, 1, opt.p)
    BY <1>2 DEF write, Command
  <2>2. UsageOf(args) = 1 + 2 * 1
    BY <2>1, UsageIs
  <2> QED BY <1>1, <2>1, <2>2
<1>3. CASE write_with_progress
  <2>1. /\ pc = "loop" /\ args # <<>> /\ args[1].name = "write-with-progress"
        /\ file_upload(1, 1, TRUE)
    BY <1>3 DEF write_with_progress, Command
  <2>2. UsageOf(args) = 1 + 2 * 1
    BY <2>1, UsageIs
  <2> QED BY <1>1, <2>1, <2>2
<1>4. CASE multiwrite
  <2>1. /\ pc = "loop" /\ args # <<>> /\ args[1].name = "multi" /\ Len(args) > 3
        /\ file_upload(strtoul(args[2]), 2, TRUE)
    BY <1>4 DEF multiwrite, Command
  <2>2. Len(args) > 1 /\ strtoul(args[2]) \in Nat
    <3>1. Len(args) \in Nat /\ 2 <= Len(args)
      BY <2>1
    <3> QED BY <3>1, strtoulNat
  <2>3. UsageOf(args) = 2 + 2 * strtoul(args[2])
    BY <2>1, <2>2, UsageIs
  <2> QED BY <1>1, <2>1, <2>2, <2>3
<1> QED BY <1>2, <1>3, <1>4 DEF Begins

LEMMA Reset_read ==
    ASSUME Reading, reset64, args \in Seq(Words)
    PROVE  Reading'
<1>1. /\ pc = "loop" /\ pc' = "loop" /\ args # <<>> /\ args[1].name = "reset64"
      /\ Len(args) > 1 /\ args' = <<>> /\ want' = want /\ words' = words
      /\ log' = Append(log, <<words - Len(args), 2, "reset64">>)
  BY DEF reset64, Command, otherVars, givenVars
<1>2. UsageOf(args) = 2
  BY <1>1, UsageIs
<1>3. Len(args) \in Nat /\ 2 <= Len(args)
  BY <1>1
<1> DEFINE e == <<words - Len(args), 2, "reset64">>
<1> HIDE DEF e
<1>4. PICK S : log \in Seq(S)
  BY DEF Reading, IsSeq
<1>5. log \in Seq(S \cup {e})
  BY <1>4
<1>6. log' = Append(log, e)
  BY <1>1 DEF e
<1>7. /\ log' \in Seq(S \cup {e}) /\ Len(log) \in Nat /\ Len(log') = Len(log) + 1
      /\ \A i \in 1..Len(log) : log'[i] = log[i]
      /\ log'[Len(log) + 1] = e /\ log' # <<>>
      /\ DOMAIN log = 1..Len(log) /\ DOMAIN log' = 1..(Len(log) + 1)
  BY <1>5, <1>6
<1>8. IsSeq(log') /\ Uploading'
  BY <1>1, <1>7 DEF IsSeq, Uploading
<1>9. \E s \in Starts : \E p \in 0..Len(s.words) : InLine(s, p)'
  <2>1. PICK s \in Starts : \E p \in 0..Len(s.words) : InLine(s, p)
    BY DEF Reading
  <2>2. PICK p \in 0..Len(s.words) : InLine(s, p)
    BY <2>1
  <2>3. s.words \in Seq(Words) /\ Len(s.words) \in Nat /\ Len(s.words) \in 0..Len(s.words)
    BY LineIs
  <2>4. Rest(s.words, Len(s.words)) \in Seq(Words)
        /\ Len(Rest(s.words, Len(s.words))) = Len(s.words) - Len(s.words)
    BY <2>3, RestIs
  <2>5. Rest(s.words, Len(s.words)) = <<>>
    BY <2>3, <2>4
  <2>6. InLine(s, Len(s.words))'
    BY <1>1, <2>2, <2>5 DEF InLine, Looking
  <2> QED BY <2>3, <2>6
<1>10. Exed => Exed'
  <2> SUFFICES ASSUME NEW i \in DOMAIN log, log[i][3] = "exe", i < Len(want)
               PROVE  Exed'
    BY DEF Exed
  <2>1. i \in DOMAIN log' /\ log'[i] = log[i]
    BY <1>7
  <2> QED BY <1>1, <2>1 DEF Exed
<1>11. ASSUME ~Exed PROVE InOrder'
  <2>1. LET i == Len(log) + 1
        IN  /\ i \in 1..Len(want) /\ Len(want) \in Nat
            /\ words - Len(args) = Before(i) /\ want[i] = UsageOf(args)
    BY <1>1, <1>2, <1>3, <1>11, ThisCommand
  <2> DEFINE i == Len(log) + 1
  <2>2. e[1] = Before(i) /\ e[2] = want[i] /\ e[3] = "reset64"
    BY <1>2, <2>1 DEF e
  <2>3. (Len(log) <= Len(want))'
    BY <1>1, <1>7, <2>1
  <2>4. InOrder
    BY <1>11 DEF Reading
  <2>5. ASSUME NEW j \in DOMAIN log' PROVE log'[j][1] = Before(j) /\ log'[j][2] = want[j]
    <3>1. CASE j = i
      BY <1>7, <2>2, <3>1
    <3>2. CASE j # i
      <4>1. j \in 1..Len(log)
        BY <1>7, <3>2
      <4>2. log'[j] = log[j] /\ j \in DOMAIN log
        BY <1>7, <4>1
      <4> QED BY <2>4, <4>2 DEF InOrder
    <3> QED BY <3>1, <3>2
  <2>6. \A j : Before(j)' = Before(j)
    BY <1>1 DEF Before
  <2>7. (\A j \in DOMAIN log : log[j][1] = Before(j) /\ log[j][2] = want[j])'
    BY <1>1, <2>5, <2>6
  <2>8. Reset'
    BY <1>7, <2>2 DEF Reset
  <2> QED BY <1>1, <2>3, <2>7, <2>8 DEF InOrder
<1> QED BY <1>8, <1>9, <1>10, <1>11 DEF Reading

LEMMA End_read ==
    ASSUME Reading, End
    PROVE  Reading'
<1>1. /\ pc = "loop" /\ pc' = "exit 0" /\ args = <<>>
      /\ UNCHANGED <<args, log, want, words>>
  BY DEF End, Exit, givenVars
<1>2. IsSeq(log') /\ Uploading'
  BY <1>1 DEF Reading, Uploading
<1>3. PICK s \in Starts : \E p \in 0..Len(s.words) : InLine(s, p)
  BY DEF Reading
<1>4. PICK p \in 0..Len(s.words) : InLine(s, p)
  BY <1>3
<1>5. InLine(s, p)'
  BY <1>1, <1>4 DEF InLine, Looking
<1>6. Exed => Exed'
  BY <1>1 DEF Exed
<1>7. ASSUME InOrder PROVE InOrder'
  <2>1. (Len(log) <= Len(want))'
    BY <1>1, <1>7 DEF InOrder
  <2>2. \A i : Before(i)' = Before(i)
    BY <1>1 DEF Before
  <2>3. (\A i \in DOMAIN log : log[i][1] = Before(i) /\ log[i][2] = want[i])'
    BY <1>1, <1>7, <2>2 DEF InOrder
  <2>4. Reset \/ Len(log) = Len(want)
    <3> SUFFICES ASSUME ~Reset, Len(log) # Len(want) PROVE FALSE
      OBVIOUS
    <3>1. words - Len(args) = Before(Len(log) + 1) /\ Len(log) <= Len(want)
      BY <1>1, <1>7 DEF InOrder
    <3>2. /\ s.want \in Seq(Nat \ {0}) /\ Sum(s.want) \in Nat
          /\ want = s.want /\ words = Sum(s.want)
      BY <1>4, LineIs DEF InLine
    <3>3. Len(log) \in Nat /\ Len(want) \in Nat
      BY <3>2, IsSeqLen DEF Reading
    <3>4. Len(log) + 1 \in 1..Len(want)
      BY <3>1, <3>3
    <3>5. LET i == Len(log) + 1
          IN  /\ want[i] \in Nat /\ want[i] > 0 /\ Before(i) \in Nat
              /\ Before(i + 1) = Before(i) + want[i]
              /\ Before(i + 1) <= Sum(want)
      BY <3>2, <3>4, BeforeIs
    <3>6. words - Len(args) = words
      <4>1. Len(args) = 0
        BY <1>1
      <4> QED BY <3>2, <4>1
    <3> QED BY <3>1, <3>2, <3>5, <3>6
  <2>5. Reset' = Reset
    BY <1>1 DEF Reset
  <2> QED BY <1>1, <2>1, <2>3, <2>4, <2>5 DEF InOrder
<1> QED BY <1>2, <1>5, <1>6, <1>7 DEF Reading

LEMMA Reading_step == ASSUME IInv, Reading, Next PROVE Reading'
<1>1. args \in Seq(Words)
  BY DEF IInv, Inputs
<1>2. CASE (DevNext \/ BusChange) /\ UNCHANGED cmdVars
  BY <1>2, Dev_read
<1>3. CASE \/ NoEffects \/ Writes
           \/ Filled("clear", 2) \/ Filled("fill", 3)
           \/ ReadDone \/ FlashReadDone \/ FlashWriteDone
           \/ \E by \in {"spl", "uboot"} :
                 \/ SplOnly(by)
                 \/ \E img : LegacyDone(by, img) \/ FitDone(by, img)
  <2>1. PICK n \in 1..4 : \E skip \in Nat : Obeys(n, skip) /\ (n # skip => skip > n)
    <3> HIDE DEF Obeys
    <3> QED BY <1>1, <1>3, Commands_obey
  <2>2. PICK skip \in Nat : Obeys(n, skip) /\ (n # skip => skip > n)
    BY <2>1
  <2>3. /\ pc = "loop" /\ pc' = "loop" /\ args # <<>>
        /\ UsageOf(args) = n /\ n <= Len(args) /\ Took(n, skip)
        /\ n # skip => args[1].name = "exe"
        /\ want' = want /\ words' = words
    BY <2>2 DEF Obeys
  <2>4. Took(UsageOf(args), skip) /\ UsageOf(args) \in Nat
        /\ UsageOf(args) <= Len(args)
    BY <2>3
  <2> HIDE DEF Took
  <2> QED BY <2>2, <2>3, <2>4, Took_read
<1>4. CASE Begins
  <2>1. /\ pc = "loop" /\ UNCHANGED <<args, want, words, log>>
        /\ \/ pc' = "exit 1"
           \/ /\ pc' = "upload" /\ args # <<>>
              /\ up'.base + 2 * up'.count = UsageOf(args)
              /\ UsageOf(args) <= Len(args)
    BY <1>1, <1>4, Upload_begins
  <2> QED BY <2>1, Reading_frame
<1>5. CASE FileSent \/ FileChange
  <2>1. /\ pc = "upload" /\ pc' = pc /\ UNCHANGED <<args, want, words, log>>
    BY <1>5 DEF FileSent, FileChange, givenVars
  <2>2. up'.base = up.base /\ up'.count = up.count
    <3>1. CASE FileSent
      <4>1. up' = [up EXCEPT !.i = @ + 1]
        BY <3>1 DEF FileSent
      <4> QED BY <4>1
    <3>2. CASE FileChange
      BY <3>2 DEF FileChange
    <3> QED BY <1>5, <3>1, <3>2
  <2>3. /\ args # <<>> /\ up.base + 2 * up.count = UsageOf(args)
        /\ UsageOf(args) <= Len(args)
    BY <2>1 DEF Reading, Uploading
  <2> QED BY <2>1, <2>2, <2>3, Reading_frame
<1>6. CASE UploadEnd
  <2>1. /\ pc = "upload" /\ pc' = "loop" /\ want' = want /\ words' = words
        /\ Took(up.base + 2 * up.count, up.base + 2 * up.count)
    BY <1>6 DEF UploadEnd, givenVars
  <2>2. /\ args # <<>> /\ up.base + 2 * up.count = UsageOf(args)
        /\ UsageOf(args) <= Len(args)
    BY <2>1 DEF Reading, Uploading
  <2>3. up.base \in Nat /\ up.count \in Nat
    BY <2>1 DEF IInv, Metered
  <2>4. UsageOf(args) \in Nat
    BY <2>2, <2>3
  <2>5. Took(UsageOf(args), UsageOf(args))
    BY <2>1, <2>2
  <2> QED BY <2>1, <2>2, <2>4, <2>5, Took_read
<1>7. CASE Halts
  <2>1. /\ UNCHANGED <<args, want, words, log>> /\ pc' \in {"exit 1", "crashed"}
        /\ pc \notin Exited
    BY <1>7 DEF Halts, cmdVars
  <2>2. CASE pc \in {"loop", "upload"}
    BY <2>1, <2>2, Reading_frame
  <2>3. CASE pc \notin {"loop", "upload"}
    <3>1. IsSeq(log') /\ Uploading'
      BY <2>1 DEF Reading, Uploading
    <3>2. PICK s \in Starts : \E p \in 0..Len(s.words) : InLine(s, p)
      BY DEF Reading
    <3>3. PICK p \in 0..Len(s.words) : InLine(s, p)
      BY <3>2
    <3>4. InLine(s, p)'
      BY <2>1, <3>3 DEF InLine, Looking
    <3>5. (Exed => Exed') /\ (InOrder => InOrder')
      <4>1. \A i : Before(i)' = Before(i)
        BY <2>1 DEF Before
      <4> QED BY <2>1, <4>1 DEF Exed, InOrder
    <3> QED BY <3>1, <3>4, <3>5 DEF Reading
  <2> QED BY <2>2, <2>3
<1>8. CASE reset64
  BY <1>1, <1>8, Reset_read
<1>9. CASE End
  BY <1>9, End_read
<1>10. CASE CmdNext
  <2>1. opt.p \in BOOLEAN
    BY DEF IInv, DevTypes, Opts
  <2> QED BY <1>1, <1>3, <1>4, <1>5, <1>6, <1>7, <1>8, <1>9, <1>10, <2>1, CmdCases
<1> QED BY <1>2, <1>10 DEF Next

LEMMA Init_reading == ASSUME Init PROVE Reading
<1>1. PICK s \in Starts :
         /\ pc = "options" /\ args = s.words /\ log = <<>>
         /\ words = Sum(s.want) /\ want = s.want
  BY DEF Init
<1>2. /\ s.words \in Seq(Words) /\ Len(s.words) \in Nat /\ s.want \in Seq(Nat \ {0})
      /\ OptionWords(s) \in Nat /\ OptionWords(s) <= Len(s.words)
      /\ OptionsFirst(s.words, OptionWords(s))
  BY LineIs
<1>3. Rest(s.words, 0) = s.words
  <2>1. 0 \in 0..Len(s.words)
    BY <1>2
  <2>2. /\ Rest(s.words, 0) \in Seq(Words) /\ Len(Rest(s.words, 0)) = Len(s.words) - 0
        /\ \A j \in 1..(Len(s.words) - 0) : Rest(s.words, 0)[j] = s.words[0 + j]
    BY <1>2, <2>1, RestIs
  <2>3. /\ Len(Rest(s.words, 0)) = Len(s.words)
        /\ \A j \in 1..Len(s.words) : Rest(s.words, 0)[j] = s.words[j]
    BY <1>2, <2>2
  <2> QED BY <1>2, <2>2, <2>3, SameRest
<1>4. 0 < OptionWords(s) => IsOption(s.words[0 + 1])
  <2> SUFFICES ASSUME 0 < OptionWords(s) PROVE IsOption(s.words[1])
    OBVIOUS
  <2>1. 1 \in 1..OptionWords(s)
    BY <1>2
  <2> QED BY <1>2, <2>1 DEF OptionsFirst
<1>5. InLine(s, 0)
  BY <1>1, <1>2, <1>3, <1>4 DEF InLine, Looking
<1>6. IsSeq(log)
  <2>1. <<>> \in Seq({})
    OBVIOUS
  <2> QED BY <1>1, <2>1 DEF IsSeq
<1>7. InOrder
  <2>1. Len(log) = 0 /\ DOMAIN log = {} /\ Len(want) \in Nat
    BY <1>1, <1>2
  <2> QED BY <1>1, <2>1 DEF InOrder
<1>8. 0 \in 0..Len(s.words) /\ Uploading
  BY <1>1, <1>2 DEF Uploading
<1> QED BY <1>5, <1>6, <1>7, <1>8 DEF Reading

LEMMA Reading_stutter == ASSUME Reading, UNCHANGED vars PROVE Reading'
<1> USE DEF vars, devVars, cmdVars
<1>1. IsSeq(log') /\ Uploading'
  BY DEF Reading, Uploading
<1>2. PICK s \in Starts : \E p \in 0..Len(s.words) : InLine(s, p)
  BY DEF Reading
<1>3. PICK p \in 0..Len(s.words) : InLine(s, p)
  BY <1>2
<1>4. InLine(s, p)'
  BY <1>3 DEF InLine
<1>5. (Exed => Exed') /\ (InOrder => InOrder')
  <2>1. \A i : Before(i)' = Before(i)
    BY DEF Before
  <2>2. Reset' = Reset /\ Before(Len(log) + 1)' = Before(Len(log) + 1)
    BY DEF Reset, Before
  <2> QED BY <2>1, <2>2 DEF Exed, InOrder
<1> QED BY <1>1, <1>4, <1>5 DEF Reading

-----------------------------------------------------------------------------
(* The invariant and what follows from it. *)

LEMMA Init_inv == ASSUME Init PROVE IInv
<1>1. PICK s \in Starts :
       /\ pc = "options" /\ args = s.words /\ DevInit(s.bus, s.driver, s.changes)
       /\ files = s.files /\ fits = s.fits
       /\ uboot_entry = 0 /\ uboot_size = 0
       /\ enter_in_aarch64 = FALSE /\ uboot_autostart = FALSE
       /\ progress = NoProgress /\ up = NoUpload
       /\ spl = 0 /\ last = NoImage /\ lastFit = NoImage
       /\ fresh = FALSE /\ shot = << >> /\ script = NoInfo
       /\ meter = "none" /\ started = NotStarted
  BY DEF Init
<1>2. /\ s.words \in Seq(Words) /\ s.changes \in Nat
      /\ s.bus \in [Ports -> DOMAIN Board \cup {NoBoard}]
      /\ \A n \in DOMAIN s.files : s.files[n] \in Seq(Cell)
      /\ \A n \in DOMAIN FileInfo : FileInfo[n].tail.type = "flatdt" =>
            n \in DOMAIN s.fits /\ IsFitImage(s.fits[n])
  BY StartsAssumption
<1>3. Inputs
  BY <1>1, <1>2 DEF Inputs, IsSeq
<1>4. DevTypes
  <2>1. opt = NoOptions /\ bus = s.bus /\ todo = {} /\ found = <<>>
        /\ handle = NoBoard /\ busChanges = s.changes /\ listed = s.changes
    BY <1>1 DEF DevInit
  <2>2. NoOptions \in Opts
    <3>1. NoPort \in Int
      BY DEF NoPort
    <3> QED BY <3>1 DEF NoOptions, Opts
  <2>3. <<>> \in Seq(Entries)
    OBVIOUS
  <2> QED BY <1>2, <2>1, <2>2, <2>3 DEF DevTypes, Boards
<1>5. Drivers
  BY <1>1 DEF DevInit, Drivers
<1>6. Listing
  BY <1>1 DEF DevInit, Listing
<1>7. Selected
  BY <1>1 DEF Selected
<1>8. Guarded
  <2>1. DOMAIN shot = {}
    BY <1>1
  <2> QED BY <1>1, <2>1 DEF Guarded
<1>9. Metered
  BY <1>1 DEF Metered, NoProgress
<1>10. Loaded
  <2>1. last.kind = "none" /\ lastFit.kind = "none"
    BY <1>1 DEF NoImage
  <2>2. Aarch64Of(lastFit) = FALSE
    BY <2>1 DEF Aarch64Of
  <2> QED BY <1>1, <2>1, <2>2 DEF Loaded
<1>11. Told
  BY <1>1 DEF Told
<1>12. Started
  BY <1>1 DEF Started, StartRight, NotStarted
<1>13. Fresh
  BY <1>1 DEF Fresh, ImageLoaded
<1> QED BY <1>3, <1>4, <1>5, <1>6, <1>7, <1>8, <1>9, <1>10, <1>11, <1>12, <1>13 DEF IInv

LEMMA Stutter_inv == ASSUME IInv, UNCHANGED vars PROVE IInv'
<1> USE DEF vars, devVars, cmdVars
<1>1. Inputs'
  BY DEF IInv, Inputs
<1>2. DevTypes'
  BY DEF IInv, DevTypes
<1>3. Drivers' /\ Listing'
  BY DEF IInv, Drivers, Listing
<1>4. Selected'
  BY DEF IInv, Selected, NoMatch
<1>5. Guarded'
  BY DEF IInv, Guarded, InGuard
<1>6. Metered'
  BY DEF IInv, Metered, Sizes
<1>7. Loaded'
  BY LoadedFrame DEF IInv
<1>8. Told'
  BY DEF IInv, Told
<1>9. Started'
  <2>1. /\ EntryOf(last)' = EntryOf(last)
        /\ Aarch64Of(lastFit)' = Aarch64Of(lastFit)
    BY ImageFrame
  <2> QED BY <2>1 DEF IInv, Started, StartRight
<1>10. Fresh'
  BY FreshFrame DEF IInv
<1> QED BY <1>1, <1>2, <1>3, <1>4, <1>5, <1>6, <1>7, <1>8, <1>9, <1>10 DEF IInv

(***************************************************************************)
(* The invariant holds in every state of main(), whatever the command line *)
(* and the files are.                                                      *)
(***************************************************************************)
THEOREM Invariance == Spec => []IInv
<1>1. Init => IInv
  BY Init_inv
<1>2. IInv /\ [Next]_vars => IInv'
  <2>1. ASSUME IInv, Next PROVE IInv'
    BY <2>1, Inputs_step, Device_step, Guarded_step, Metered_step, Loaded_step,
       Told_step, Started_step, Fresh_step DEF IInv, Device
  <2> QED BY <2>1, Stutter_inv
<1> QED BY <1>1, <1>2, PTL DEF Spec

(***************************************************************************)
(* --sid opens the board with that SID, unless the bus changed after       *)
(* list_fel_devices() had begun or no board has it; and a tool that ends   *)
(* with status 0 has given every kernel driver back (feldev_open(),        *)
(* feldev_release(), select_by_sid()).                                     *)
(***************************************************************************)
THEOREM DeviceIsRight == Spec => []RightDevice
<1>1. IInv => RightDevice
  <2> SUFFICES ASSUME IInv PROVE RightDevice
    OBVIOUS
  <2>1. pc = "exit 0" => driver = driver0
    BY DEF IInv, Drivers
  <2>2. ASSUME pc = "loop", opt.sid # NoSid
        PROVE  \/ fel_read_sid(handle) = opt.sid
               \/ busChanges > listed
               \/ \A i \in DOMAIN found : found[i][2] # opt.sid
    <3>1. busChanges \in Nat /\ listed \in Nat /\ listed <= busChanges
      BY DEF IInv, DevTypes
    <3>2. busChanges = listed => NoMatch \/ fel_read_sid(handle) = opt.sid
      BY <2>2 DEF IInv, Selected
    <3> QED BY <3>1, <3>2 DEF NoMatch
  <2> QED BY <2>1, <2>2 DEF RightDevice
<1> QED BY <1>1, Invariance, PTL

(***************************************************************************)
(* What the guard of aw_write_buffer() is worth: whatever files are        *)
(* written and filled after a load, all of a legacy image stays as it was  *)
(* loaded, and of a FIT image the bytes within four of its entry point;    *)
(* only commands without the guard can reach these.                        *)
(***************************************************************************)
THEOREM UBootStaysIntact == Spec => []UBootIntact
<1>1. IInv => UBootIntact
  BY DEF IInv, Guarded, UBootIntact
<1> QED BY <1>1, Invariance, PTL

(***************************************************************************)
(* main() starts what was loaded last, by "uboot" or by a later "spl", at  *)
(* its entry point, in the mode of the last FIT image that had a           *)
(* configuration - enter_in_aarch64 is never reset -, and tells U-Boot of  *)
(* the script that was uploaded after its SPL, for every FIT image and     *)
(* every order of commands.                                                *)
(***************************************************************************)
THEOREM StartsTheLastImage == Spec => []StartRight
<1>1. IInv => StartRight
  BY DEF IInv, Started
<1> QED BY <1>1, Invariance, PTL

(***************************************************************************)
(* The progress of file_upload() never passes its total and meets it at    *)
(* the end, for any number of files of any size, unless one of them        *)
(* changes on the way.                                                     *)
(***************************************************************************)
THEOREM ProgressIsExact == Spec => []UploadProgress
<1>1. IInv => UploadProgress
  BY DEF IInv, Metered, UploadProgress
<1> QED BY <1>1, Invariance, PTL


(***************************************************************************)
(* After "spl" or "uboot" every byte of the image is where the image wants *)
(* it, for every FIT image: what no later image covers, and the DTB right  *)
(* behind U-Boot (aw_fel_process_spl_and_uboot(), load_fit_images()).      *)
(***************************************************************************)
THEOREM ImageIsLoaded == Spec => []ImageLoaded
<1>1. IInv => ImageLoaded
  BY DEF IInv, Fresh
<1> QED BY <1>1, Invariance, PTL

(***************************************************************************)
(* main() carries out the commands of a line in their order and uses each  *)
(* word once, however many commands there are and however long, as long as *)
(* the line is what usage() asks for; only "exe" takes a word too many.    *)
(***************************************************************************)
THEOREM EveryWordIsUsed == Spec => []NoWordLost
<1>1. Init => Reading
  BY Init_reading
<1>2. IInv /\ Reading /\ [Next]_vars => Reading'
  BY Reading_step, Reading_stutter
<1>3. IInv /\ Reading => NoWordLost
  <2> SUFFICES ASSUME IInv, Reading PROVE NoWordLost
    OBVIOUS
  <2>1. CASE Exed
    BY <2>1 DEF Exed, NoWordLost
  <2>2. CASE InOrder
    <3>1. Len(log) <= Len(want)
      BY <2>2 DEF InOrder
    <3>2. \A i \in DOMAIN log :
             log[i][1] = Sum(SubSeq(want, 1, i - 1)) /\ log[i][2] = want[i]
      BY <2>2 DEF InOrder, Before
    <3>3. pc = "loop" /\ args # <<>> =>
             words - Len(args) = Sum(SubSeq(want, 1, (Len(log) + 1) - 1))
      BY <2>2 DEF InOrder, Before
    <3>4. pc = "exit 0" /\ ~opt.list /\ ~opt.socs =>
             Len(log) = Len(want) \/ (log # <<>> /\ log[Len(log)][3] = "reset64")
      BY <2>2 DEF InOrder, Reset
    <3> QED BY <3>1, <3>2, <3>3, <3>4, Zenon DEF NoWordLost, WordsUsed
  <2> QED BY <2>1, <2>2 DEF Reading
<1> QED BY <1>1, <1>2, <1>3, Invariance, PTL DEF Spec
=============================================================================
