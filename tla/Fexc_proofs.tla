----------------------------- MODULE Fexc_proofs -----------------------------
(***************************************************************************)
(* The script compiler, for every file a user can write, any number of     *)
(* runs and any faults: the generator fills the buffer that was counted    *)
(* for it, the decompiler finds the same tree in it, the parser finds the  *)
(* same tree in a generated .fex, and the exit status tells the truth.     *)
(*                                                                         *)
(* The loops of the code are recursive functions in the model.  That they  *)
(* exist, and what holds after each turn, is proved by induction over sets *)
(* of numbers of turns (Induct).                                           *)
(***************************************************************************)
EXTENDS Fexc, SequenceTheorems, WellFoundedInduction, TLAPS

-----------------------------------------------------------------------------
(* Induction over natural numbers. *)

LEMMA Induct ==
    ASSUME NEW T \in SUBSET Nat, 0 \in T, \A m \in T : m + 1 \in T
    PROVE  T = Nat
<1> DEFINE Less == {ss \in Nat \X Nat : ss[1] < ss[2]}
           U == Nat \ T
<1>1. IsWellFoundedOn(Less, Nat)
  <2>1. OpToRel(<, Nat) = Less
    BY DEF OpToRel
  <2> QED BY <2>1, NatLessThanWellFounded
<1>2. SUFFICES ASSUME U # {} PROVE FALSE
  OBVIOUS
<1>3. U \in SUBSET Nat
  OBVIOUS
<1> HIDE DEF Less
<1>4. PICK x \in U : \A y \in U : <<y, x>> \notin Less
  BY <1>1, <1>2, <1>3, WFMin
<1>5. x \in Nat /\ x \notin T /\ x # 0
  OBVIOUS
<1>6. x - 1 \in Nat /\ (x - 1) + 1 = x
  BY <1>5
<1>7. <<x - 1, x>> \in Less
  BY <1>5, <1>6 DEF Less
<1>8. x - 1 \in T
  BY <1>4, <1>6, <1>7
<1> QED BY <1>5, <1>6, <1>8

-----------------------------------------------------------------------------
(* The loops.  Each is the function of its number of turns. *)

SumFun(f, s, n) == f = [i \in 0..n |-> IF i = 0 THEN 0 ELSE f[i - 1] + s[i]]

LEMMA SumExists ==
    ASSUME NEW s, NEW n \in Nat
    PROVE  \E f : SumFun(f, s, n)
<1> DEFINE T == {m \in Nat : \E f : SumFun(f, s, m)}
<1>1. 0 \in T
  <2>1. SumFun([i \in 0..0 |-> 0], s, 0)
    BY DEF SumFun
  <2> QED BY <2>1
<1>2. ASSUME NEW m \in T PROVE m + 1 \in T
  <2>1. PICK f : SumFun(f, s, m)
    OBVIOUS
  <2> DEFINE g == [i \in 0..(m + 1) |-> IF i = 0 THEN 0 ELSE f[i - 1] + s[i]]
  <2>2. \A i \in 0..m : g[i] = f[i]
    BY <2>1 DEF SumFun
  <2>3. \A i \in 0..(m + 1) : i # 0 => i - 1 \in 0..m
    OBVIOUS
  <2>4. SumFun(g, s, m + 1)
    BY <2>2, <2>3 DEF SumFun
  <2> QED BY <2>4
<1> HIDE DEF T
<1>3. T = Nat
  <2>1. T \in SUBSET Nat
    BY DEF T
  <2> QED BY <1>1, <1>2, <2>1, Induct
<1> QED BY <1>3 DEF T

GenFun(f, st, es, n) ==
    f = [i \in 0..n |-> IF i = 0 THEN st ELSE GenEntry(f[i - 1], es[i])]

LEMMA GenExists ==
    ASSUME NEW st, NEW es, NEW n \in Nat
    PROVE  \E f : GenFun(f, st, es, n)
<1> DEFINE T == {m \in Nat : \E f : GenFun(f, st, es, m)}
<1>1. 0 \in T
  <2>1. GenFun([i \in 0..0 |-> st], st, es, 0)
    BY DEF GenFun
  <2> QED BY <2>1
<1>2. ASSUME NEW m \in T PROVE m + 1 \in T
  <2>1. PICK f : GenFun(f, st, es, m)
    OBVIOUS
  <2> DEFINE g == [i \in 0..(m + 1) |->
                     IF i = 0 THEN st ELSE GenEntry(f[i - 1], es[i])]
  <2>2. \A i \in 0..m : g[i] = f[i]
    BY <2>1 DEF GenFun
  <2>3. \A i \in 0..(m + 1) : i # 0 => i - 1 \in 0..m
    OBVIOUS
  <2>4. GenFun(g, st, es, m + 1)
    BY <2>2, <2>3 DEF GenFun
  <2> QED BY <2>4
<1> HIDE DEF T
<1>3. T = Nat
  <2>1. T \in SUBSET Nat
    BY DEF T
  <2> QED BY <1>1, <1>2, <2>1, Induct
<1> QED BY <1>3 DEF T

LEMMA GenIs ==
    ASSUME NEW st, NEW es, Len(es) \in Nat
    PROVE  \E f : /\ f[0] = st
                  /\ \A i \in 1..Len(es) : f[i] = GenEntry(f[i - 1], es[i])
                  /\ GenEntries(st, es) = f[Len(es)]
<1> DEFINE after == CHOOSE f : GenFun(f, st, es, Len(es))
<1>1. GenFun(after, st, es, Len(es))
  BY GenExists
<1>2. GenEntries(st, es) = after[Len(es)]
  BY DEF GenEntries, GenFun
<1> HIDE DEF after
<1>3. after[0] = st
  BY <1>1 DEF GenFun
<1>4. ASSUME NEW i \in 1..Len(es) PROVE after[i] = GenEntry(after[i - 1], es[i])
  BY <1>1 DEF GenFun
<1> QED BY <1>2, <1>3, <1>4

GenSecFun(f, st, script, n) ==
    f = [i \in 0..n |-> IF i = 0 THEN st ELSE GenSection(f[i - 1], script[i])]

LEMMA GenSecExists ==
    ASSUME NEW st, NEW script, NEW n \in Nat
    PROVE  \E f : GenSecFun(f, st, script, n)
<1> DEFINE T == {m \in Nat : \E f : GenSecFun(f, st, script, m)}
<1>1. 0 \in T
  <2>1. GenSecFun([i \in 0..0 |-> st], st, script, 0)
    BY DEF GenSecFun
  <2> QED BY <2>1
<1>2. ASSUME NEW m \in T PROVE m + 1 \in T
  <2>1. PICK f : GenSecFun(f, st, script, m)
    OBVIOUS
  <2> DEFINE g == [i \in 0..(m + 1) |->
                     IF i = 0 THEN st ELSE GenSection(f[i - 1], script[i])]
  <2>2. \A i \in 0..m : g[i] = f[i]
    BY <2>1 DEF GenSecFun
  <2>3. \A i \in 0..(m + 1) : i # 0 => i - 1 \in 0..m
    OBVIOUS
  <2>4. GenSecFun(g, st, script, m + 1)
    BY <2>2, <2>3 DEF GenSecFun
  <2> QED BY <2>4
<1> HIDE DEF T
<1>3. T = Nat
  <2>1. T \in SUBSET Nat
    BY DEF T
  <2> QED BY <1>1, <1>2, <2>1, Induct
<1> QED BY <1>3 DEF T

LEMMA GenSecIs ==
    ASSUME NEW st, NEW script, Len(script) \in Nat
    PROVE  \E f : /\ f[0] = st
                  /\ \A i \in 1..Len(script) : f[i] = GenSection(f[i - 1], script[i])
                  /\ GenSections(st, script) = f[Len(script)]
<1> DEFINE after == CHOOSE f : GenSecFun(f, st, script, Len(script))
<1>1. GenSecFun(after, st, script, Len(script))
  BY GenSecExists
<1>2. GenSections(st, script) = after[Len(script)]
  BY DEF GenSections, GenSecFun
<1> HIDE DEF after
<1>3. after[0] = st
  BY <1>1 DEF GenSecFun
<1>4. ASSUME NEW i \in 1..Len(script) PROVE after[i] = GenSection(after[i - 1], script[i])
  BY <1>1 DEF GenSecFun
<1> QED BY <1>2, <1>3, <1>4

DecFun(f, b, bin, at, n) ==
    f = [i \in 0..n |-> IF i = 0 THEN b ELSE decompile_entry(f[i - 1], bin, at + (i - 1) * EntryWords)]

LEMMA DecExists ==
    ASSUME NEW b, NEW bin, NEW at, NEW n \in Nat
    PROVE  \E f : DecFun(f, b, bin, at, n)
<1> DEFINE T == {m \in Nat : \E f : DecFun(f, b, bin, at, m)}
<1>1. 0 \in T
  <2>1. DecFun([i \in 0..0 |-> b], b, bin, at, 0)
    BY DEF DecFun
  <2> QED BY <2>1
<1>2. ASSUME NEW m \in T PROVE m + 1 \in T
  <2>1. PICK f : DecFun(f, b, bin, at, m)
    OBVIOUS
  <2> DEFINE g == [i \in 0..(m + 1) |->
                     IF i = 0 THEN b ELSE decompile_entry(f[i - 1], bin, at + (i - 1) * EntryWords)]
  <2>2. \A i \in 0..m : g[i] = f[i]
    BY <2>1 DEF DecFun
  <2>3. \A i \in 0..(m + 1) : i # 0 => i - 1 \in 0..m
    OBVIOUS
  <2>4. DecFun(g, b, bin, at, m + 1)
    BY <2>2, <2>3 DEF DecFun
  <2> QED BY <2>4
<1> HIDE DEF T
<1>3. T = Nat
  <2>1. T \in SUBSET Nat
    BY DEF T
  <2> QED BY <1>1, <1>2, <2>1, Induct
<1> QED BY <1>3 DEF T

LEMMA DecIs ==
    ASSUME NEW b, NEW bin, NEW at, NEW n \in Nat
    PROVE  \E f : /\ f[0] = b
                  /\ \A i \in 1..n : f[i] = decompile_entry(f[i - 1], bin, at + (i - 1) * EntryWords)
                  /\ decompile_entries(b, bin, at, n) = f[n]
<1> DEFINE after == CHOOSE f : DecFun(f, b, bin, at, n)
<1>1. DecFun(after, b, bin, at, n)
  BY DecExists
<1>2. decompile_entries(b, bin, at, n) = after[n]
  BY DEF decompile_entries, DecFun
<1> HIDE DEF after
<1>3. after[0] = b
  BY <1>1 DEF DecFun
<1>4. ASSUME NEW i \in 1..n PROVE after[i] = decompile_entry(after[i - 1], bin, at + (i - 1) * EntryWords)
  BY <1>1 DEF DecFun
<1> QED BY <1>2, <1>3, <1>4

DecSecFun(f, bin, size, n) ==
    f = [i \in 0..n |-> IF i = 0 THEN Build("ok", <<>>) ELSE decompile_section(f[i - 1], bin, size,
                         HeadWords + (i - 1) * SectionWords)]

LEMMA DecSecExists ==
    ASSUME NEW bin, NEW size, NEW n \in Nat
    PROVE  \E f : DecSecFun(f, bin, size, n)
<1> DEFINE T == {m \in Nat : \E f : DecSecFun(f, bin, size, m)}
<1>1. 0 \in T
  <2>1. DecSecFun([i \in 0..0 |-> Build("ok", <<>>)], bin, size, 0)
    BY DEF DecSecFun
  <2> QED BY <2>1
<1>2. ASSUME NEW m \in T PROVE m + 1 \in T
  <2>1. PICK f : DecSecFun(f, bin, size, m)
    OBVIOUS
  <2> DEFINE g == [i \in 0..(m + 1) |->
                     IF i = 0 THEN Build("ok", <<>>) ELSE decompile_section(f[i - 1], bin, size,
                         HeadWords + (i - 1) * SectionWords)]
  <2>2. \A i \in 0..m : g[i] = f[i]
    BY <2>1 DEF DecSecFun
  <2>3. \A i \in 0..(m + 1) : i # 0 => i - 1 \in 0..m
    OBVIOUS
  <2>4. DecSecFun(g, bin, size, m + 1)
    BY <2>2, <2>3 DEF DecSecFun
  <2> QED BY <2>4
<1> HIDE DEF T
<1>3. T = Nat
  <2>1. T \in SUBSET Nat
    BY DEF T
  <2> QED BY <1>1, <1>2, <2>1, Induct
<1> QED BY <1>3 DEF T

LEMMA DecSecIs ==
    ASSUME NEW bin, NEW size, NEW n \in Nat
    PROVE  \E f : /\ f[0] = Build("ok", <<>>)
                  /\ \A i \in 1..n : f[i] = decompile_section(f[i - 1], bin, size,
                         HeadWords + (i - 1) * SectionWords)
                  /\ decompile_sections(bin, size, n) = f[n]
<1> DEFINE after == CHOOSE f : DecSecFun(f, bin, size, n)
<1>1. DecSecFun(after, bin, size, n)
  BY DecSecExists
<1>2. decompile_sections(bin, size, n) = after[n]
  BY DEF decompile_sections, DecSecFun
<1> HIDE DEF after
<1>3. after[0] = Build("ok", <<>>)
  BY <1>1 DEF DecSecFun
<1>4. ASSUME NEW i \in 1..n PROVE after[i] = decompile_section(after[i - 1], bin, size,
                         HeadWords + (i - 1) * SectionWords)
  BY <1>1 DEF DecSecFun
<1> QED BY <1>2, <1>3, <1>4

ParseFun(f, lines, n) ==
    f = [i \in 0..n |-> IF i = 0 THEN Build("ok", <<>>) ELSE ParseLine(f[i - 1], lines[i])]

LEMMA ParseExists ==
    ASSUME NEW lines, NEW n \in Nat
    PROVE  \E f : ParseFun(f, lines, n)
<1> DEFINE T == {m \in Nat : \E f : ParseFun(f, lines, m)}
<1>1. 0 \in T
  <2>1. ParseFun([i \in 0..0 |-> Build("ok", <<>>)], lines, 0)
    BY DEF ParseFun
  <2> QED BY <2>1
<1>2. ASSUME NEW m \in T PROVE m + 1 \in T
  <2>1. PICK f : ParseFun(f, lines, m)
    OBVIOUS
  <2> DEFINE g == [i \in 0..(m + 1) |->
                     IF i = 0 THEN Build("ok", <<>>) ELSE ParseLine(f[i - 1], lines[i])]
  <2>2. \A i \in 0..m : g[i] = f[i]
    BY <2>1 DEF ParseFun
  <2>3. \A i \in 0..(m + 1) : i # 0 => i - 1 \in 0..m
    OBVIOUS
  <2>4. ParseFun(g, lines, m + 1)
    BY <2>2, <2>3 DEF ParseFun
  <2> QED BY <2>4
<1> HIDE DEF T
<1>3. T = Nat
  <2>1. T \in SUBSET Nat
    BY DEF T
  <2> QED BY <1>1, <1>2, <2>1, Induct
<1> QED BY <1>3 DEF T

LEMMA ParseIs ==
    ASSUME NEW lines, Len(lines) \in Nat
    PROVE  \E f : /\ f[0] = Build("ok", <<>>)
                  /\ \A i \in 1..Len(lines) : f[i] = ParseLine(f[i - 1], lines[i])
                  /\ script_parse_fex(lines) = f[Len(lines)]
<1> DEFINE after == CHOOSE f : ParseFun(f, lines, Len(lines))
<1>1. ParseFun(after, lines, Len(lines))
  BY ParseExists
<1>2. script_parse_fex(lines) = after[Len(lines)]
  BY DEF script_parse_fex, ParseFun
<1> HIDE DEF after
<1>3. after[0] = Build("ok", <<>>)
  BY <1>1 DEF ParseFun
<1>4. ASSUME NEW i \in 1..Len(lines) PROVE after[i] = ParseLine(after[i - 1], lines[i])
  BY <1>1 DEF ParseFun
<1> QED BY <1>2, <1>3, <1>4

AddText(t, s) == t \o SectionText(s)

TextFun(f, script, n) ==
    f = [i \in 0..n |-> IF i = 0 THEN <<>> ELSE AddText(f[i - 1], script[i])]

LEMMA TextExists ==
    ASSUME NEW script, NEW n \in Nat
    PROVE  \E f : TextFun(f, script, n)
<1> DEFINE T == {m \in Nat : \E f : TextFun(f, script, m)}
<1>1. 0 \in T
  <2>1. TextFun([i \in 0..0 |-> <<>>], script, 0)
    BY DEF TextFun
  <2> QED BY <2>1
<1>2. ASSUME NEW m \in T PROVE m + 1 \in T
  <2>1. PICK f : TextFun(f, script, m)
    OBVIOUS
  <2> DEFINE g == [i \in 0..(m + 1) |->
                     IF i = 0 THEN <<>> ELSE AddText(f[i - 1], script[i])]
  <2>2. \A i \in 0..m : g[i] = f[i]
    BY <2>1 DEF TextFun
  <2>3. \A i \in 0..(m + 1) : i # 0 => i - 1 \in 0..m
    OBVIOUS
  <2>4. TextFun(g, script, m + 1)
    BY <2>2, <2>3 DEF TextFun
  <2> QED BY <2>4
<1> HIDE DEF T
<1>3. T = Nat
  <2>1. T \in SUBSET Nat
    BY DEF T
  <2> QED BY <1>1, <1>2, <2>1, Induct
<1> QED BY <1>3 DEF T

LEMMA TextIs ==
    ASSUME NEW script, Len(script) \in Nat
    PROVE  \E f : /\ f[0] = <<>>
                  /\ \A i \in 1..Len(script) : f[i] = AddText(f[i - 1], script[i])
                  /\ script_generate_fex(script) = f[Len(script)]
<1> DEFINE after == CHOOSE f : TextFun(f, script, Len(script))
<1>1. TextFun(after, script, Len(script))
  BY TextExists
<1>2. script_generate_fex(script) = after[Len(script)]
  BY DEF script_generate_fex, AddText, TextFun
<1> HIDE DEF after
<1>3. after[0] = <<>>
  BY <1>1 DEF TextFun
<1>4. ASSUME NEW i \in 1..Len(script) PROVE after[i] = AddText(after[i - 1], script[i])
  BY <1>1 DEF TextFun
<1> QED BY <1>2, <1>3, <1>4

\* Sum() adds the numbers of a sequence one by one.
LEMMA SumIs ==
    ASSUME NEW s \in Seq(Nat)
    PROVE  \E f \in [0..Len(s) -> Nat] :
              /\ f[0] = 0
              /\ \A i \in 1..Len(s) : f[i] = f[i - 1] + s[i]
              /\ \A i \in 0..Len(s) : f[i] <= f[Len(s)]
              /\ Sum(s) = f[Len(s)]
<1> DEFINE n == Len(s)
           sum == CHOOSE f : SumFun(f, s, n)
<1>1. n \in Nat /\ s \in [1..n -> Nat]
  OBVIOUS
<1>2. SumFun(sum, s, n)
  BY <1>1, SumExists
<1>3. Sum(s) = sum[n]
  BY DEF Sum, SumFun
<1> HIDE DEF sum, n
<1>4. sum[0] = 0 /\ \A i \in 1..n : sum[i] = sum[i - 1] + s[i]
  BY <1>1, <1>2 DEF SumFun
<1> DEFINE T == {m \in Nat : m <= n => \A i \in 0..m : /\ sum[i] \in Nat
                                                    /\ sum[i] <= sum[m]}
<1>5. 0 \in T
  BY <1>1, <1>4
<1>6. ASSUME NEW m \in T PROVE m + 1 \in T
  <2> SUFFICES ASSUME m + 1 <= n
               PROVE  \A i \in 0..(m + 1) : sum[i] \in Nat /\ sum[i] <= sum[m + 1]
    OBVIOUS
  <2>1. m \in Nat /\ m <= n /\ m + 1 \in 1..n /\ (m + 1) - 1 = m
    BY <1>1
  <2>2. \A i \in 0..m : sum[i] \in Nat /\ sum[i] <= sum[m]
    BY <2>1
  <2>3. sum[m + 1] = sum[m] + s[m + 1] /\ s[m + 1] \in Nat
    BY <1>1, <1>4, <2>1
  <2>4. sum[m + 1] \in Nat /\ sum[m] <= sum[m + 1]
    BY <2>2, <2>3
  <2>5. ASSUME NEW i \in 0..(m + 1) PROVE sum[i] \in Nat /\ sum[i] <= sum[m + 1]
    <3>1. CASE i = m + 1
      BY <2>4, <3>1
    <3>2. CASE i \in 0..m
      <4>1. /\ sum[i] \in Nat /\ sum[m] \in Nat /\ sum[m + 1] \in Nat
            /\ sum[i] <= sum[m] /\ sum[m] <= sum[m + 1]
        BY <2>1, <2>2, <2>4, <3>2
      <4> QED BY <4>1
    <3> QED BY <2>1, <3>1, <3>2
  <2> QED BY <2>5
<1> HIDE DEF T
<1>7. T = Nat
  <2>1. T \in SUBSET Nat
    BY DEF T
  <2> QED BY <1>5, <1>6, <2>1, Induct
<1>8. \A m \in 0..n : sum[m] \in Nat /\ sum[m] <= sum[n]
  <2>1. \A m \in 0..n : m \in T /\ m <= n
    BY <1>1, <1>7
  <2>2. n \in T
    BY <1>1, <1>7
  <2> QED BY <1>1, <2>1, <2>2 DEF T
<1>9. sum \in [0..n -> Nat]
  <2>1. sum = [i \in 0..n |-> sum[i]]
    BY <1>2 DEF SumFun
  <2> QED BY <1>8, <2>1
<1> QED BY <1>3, <1>4, <1>8, <1>9 DEF n

-----------------------------------------------------------------------------
(* The trees that the parser builds. *)

TreeNames == {n \in Names : n.len <= 31}
Gpios == {v \in [port : Nat, num : 0..255, data : [1..4 -> -1..IntMax]] :
             v.port = PortPower \/ v.port \in 1..(GPIO_BANK_MAX + 1)}
ValuesOf(type) == CASE type = "null" -> {0}
                    [] type = "single" -> 0..(WORD - 1)
                    [] type = "string" -> Texts
                    [] type = "gpio" -> Gpios
Types == {"null", "single", "string", "gpio"}

IsEntry(e) ==
    /\ e = [name |-> e.name, type |-> e.type, value |-> e.value]
    /\ e.name \in TreeNames /\ e.type \in Types
    /\ e.name.len > 0 \/ e.type = "string"
    /\ e.value \in ValuesOf(e.type)
IsSection(s) ==
    /\ s = [name |-> s.name, entries |-> s.entries]
    /\ s.name \in TreeNames /\ s.name.len > 0
    /\ \A j \in DOMAIN s.entries : IsEntry(s.entries[j])

\* Sequences, of anything.
IsSeq(s) == \E S : s \in Seq(S)

IsTree(t) ==
    /\ IsSeq(t)
    /\ \A i \in DOMAIN t : IsSection(t[i]) /\ IsSeq(t[i].entries)

LEMMA SeqIs ==
    ASSUME NEW s, IsSeq(s)
    PROVE  Len(s) \in Nat /\ DOMAIN s = 1..Len(s)
BY DEF IsSeq

LEMMA AppendIs ==
    ASSUME NEW s, IsSeq(s), NEW x
    PROVE  /\ IsSeq(Append(s, x)) /\ Len(Append(s, x)) = Len(s) + 1
           /\ \A i \in 1..Len(s) : Append(s, x)[i] = s[i]
           /\ Append(s, x)[Len(s) + 1] = x
<1>1. PICK S : s \in Seq(S)
  BY DEF IsSeq
<1>2. s \in Seq(S \cup {x}) /\ x \in S \cup {x}
  BY <1>1
<1>3. Append(s, x) \in Seq(S \cup {x})
  BY <1>2
<1> QED BY <1>2, <1>3 DEF IsSeq

LEMMA FrontIs ==
    ASSUME NEW s, IsSeq(s), NEW n \in 0..Len(s)
    PROVE  /\ IsSeq(SubSeq(s, 1, n)) /\ Len(SubSeq(s, 1, n)) = n
           /\ \A i \in 1..n : SubSeq(s, 1, n)[i] = s[i]
<1>1. PICK S : s \in Seq(S)
  BY DEF IsSeq
<1>2. SubSeq(s, 1, n) \in Seq(S)
  BY <1>1
<1> QED BY <1>1, <1>2 DEF IsSeq

LEMMA WholeIs ==
    ASSUME NEW s, IsSeq(s)
    PROVE  SubSeq(s, 1, Len(s)) = s /\ SubSeq(s, 1, 0) = <<>>
<1>1. PICK S : s \in Seq(S)
  BY DEF IsSeq
<1>2. SubSeq(s, 1, Len(s)) = s
  BY <1>1
<1>3. SubSeq(s, 1, 0) = <<>>
  BY <1>1
<1> QED BY <1>2, <1>3

\* A prefix grows by the next element.
LEMMA FrontGrows ==
    ASSUME NEW s, IsSeq(s), NEW n \in 1..Len(s)
    PROVE  Append(SubSeq(s, 1, n - 1), s[n]) = SubSeq(s, 1, n)
<1>1. PICK S : s \in Seq(S)
  BY DEF IsSeq
<1>2. Len(s) \in Nat /\ s[n] \in S /\ n - 1 \in 0..Len(s)
  BY <1>1
<1>3. SubSeq(s, 1, n - 1) \in Seq(S) /\ SubSeq(s, 1, n) \in Seq(S)
  BY <1>1
<1>4. /\ Len(SubSeq(s, 1, n - 1)) = n - 1 /\ Len(SubSeq(s, 1, n)) = n
      /\ \A i \in 1..(n - 1) : SubSeq(s, 1, n - 1)[i] = s[i]
      /\ \A i \in 1..n : SubSeq(s, 1, n)[i] = s[i]
  BY <1>1, <1>2
<1> DEFINE a == SubSeq(s, 1, n - 1)
           b == SubSeq(s, 1, n)
<1> HIDE DEF a, b
<1>5. /\ Append(a, s[n]) \in Seq(S) /\ Len(Append(a, s[n])) = n
      /\ \A i \in 1..n : Append(a, s[n])[i] = b[i]
  BY <1>2, <1>3, <1>4 DEF a, b
<1> QED BY <1>3, <1>4, <1>5, SeqEqual DEF a, b

-----------------------------------------------------------------------------
(* Words of a value, and stores into the buffer. *)

LEMMA WordsIs ==
    ASSUME NEW l \in Nat
    PROVE  /\ Words(l) \in Nat /\ l <= 4 * Words(l) /\ 4 * Words(l) < l + 4
           /\ Words(4) = 1 /\ Words(24) = 6
BY DEF Words

\* The words of a value.
Size4(e) == Words(ValueBytes(e))

LEMMA ValueIs ==
    ASSUME NEW e, IsEntry(e)
    PROVE  /\ Size4(e) \in Nat /\ DOMAIN ValueData(e) = 1..Size4(e)
           /\ e.type = "null" => Size4(e) = 1 /\ ValueData(e)[1] = Zero
           /\ e.type = "single" => Size4(e) = 1 /\ ValueData(e)[1] = Num(e.value)
           /\ e.type = "gpio" =>
                 /\ Size4(e) = 6
                 /\ ValueData(e)[1] = Num(e.value.port)
                 /\ ValueData(e)[2] = Num(e.value.num)
                 /\ \A i \in 1..4 : ValueData(e)[2 + i] = Num(e.value.data[i])
<1>1. e.type \in Types /\ e.value \in ValuesOf(e.type)
  BY DEF IsEntry
<1>2. CASE e.type = "null"
  BY <1>2, WordsIs DEF Size4, ValueBytes, ValueData
<1>3. CASE e.type = "single"
  BY <1>3, WordsIs DEF Size4, ValueBytes, ValueData
<1>4. CASE e.type = "string"
  <2>1. e.value.l \in Nat
    BY <1>1, <1>4 DEF ValuesOf, Texts
  <2>2. Size4(e) = Words(e.value.l) /\ Size4(e) \in Nat
    BY <1>4, <2>1, WordsIs DEF Size4, ValueBytes
  <2> QED BY <1>4, <2>2 DEF ValueData
<1>5. CASE e.type = "gpio"
  <2> DEFINE d == [i \in 1..4 |-> Num(e.value.data[i])]
             h == <<Num(e.value.port), Num(e.value.num)>>
             S == {h[1], h[2], d[1], d[2], d[3], d[4]}
  <2>1. h \in Seq(S) /\ Len(h) = 2 /\ h[1] = Num(e.value.port) /\ h[2] = Num(e.value.num)
    OBVIOUS
  <2>2. d \in Seq(S) /\ Len(d) = 4 /\ \A i \in 1..4 : d[i] = Num(e.value.data[i])
    <3>1. d \in [1..4 -> S]
      <4>1. \A i \in 1..4 : i \in {1, 2, 3, 4}
        OBVIOUS
      <4> QED BY <4>1
    <3> QED BY <3>1
  <2>3. ValueData(e) = h \o d
    BY <1>5 DEF ValueData
  <2> HIDE DEF h, d, S
  <2>4. /\ h \o d \in Seq(S) /\ Len(h \o d) = 6
        /\ \A i \in 1..6 : (h \o d)[i] = IF i <= 2 THEN h[i] ELSE d[i - 2]
    <3>1. /\ h \o d \in Seq(S) /\ Len(h \o d) = Len(h) + Len(d)
          /\ \A i \in 1..(Len(h) + Len(d)) :
                (h \o d)[i] = IF i <= Len(h) THEN h[i] ELSE d[i - Len(h)]
      <4>1. h \in Seq(S) /\ d \in Seq(S)
        BY <2>1, <2>2
      <4> QED BY ONLY <4>1, ConcatProperties
    <3>2. Len(h) = 2 /\ Len(d) = 4
      BY <2>1, <2>2
    <3> QED BY <3>1, <3>2
  <2>5. Size4(e) = 6
    BY <1>5, WordsIs DEF Size4, ValueBytes
  <2>6. DOMAIN (h \o d) = 1..6
    BY <2>4
  <2>7. (h \o d)[1] = Num(e.value.port) /\ (h \o d)[2] = Num(e.value.num)
    BY <2>1, <2>4
  <2>8. ASSUME NEW i \in 1..4 PROVE (h \o d)[2 + i] = Num(e.value.data[i])
    <3>1. 2 + i \in 1..6 /\ ~(2 + i <= 2) /\ (2 + i) - 2 = i
      OBVIOUS
    <3> QED BY <2>2, <2>4, <3>1
  <2> QED BY <1>5, <2>3, <2>5, <2>6, <2>7, <2>8
<1> QED BY <1>1, <1>2, <1>3, <1>4, <1>5 DEF Types

\* new is bin with the words ws, one name or two words stored at off.
Stored(n, bin, new, off, k, ws) ==
    /\ DOMAIN new = 0..(n - 1)
    /\ \A i \in 1..k : new[off + i - 1] = ws[i]
    /\ \A i \in 0..(n - 1) : i < off \/ i >= off + k => new[i] = bin[i]
NameStored(n, bin, new, off, name) ==
    /\ DOMAIN new = 0..(n - 1) /\ new[off] = [name |-> name]
    /\ \A i \in 0..(n - 1) : i # off => new[i] = bin[i]
PairStored(n, bin, new, off, x, y) ==
    /\ DOMAIN new = 0..(n - 1) /\ new[off] = x /\ new[off + 1] = y
    /\ \A i \in 0..(n - 1) : i # off /\ i # off + 1 => new[i] = bin[i]

LEMMA PutIs ==
    ASSUME NEW n \in Nat, NEW bin, DOMAIN bin = 0..(n - 1),
           NEW off \in Nat, NEW k \in Nat, off + k <= n,
           NEW ws, DOMAIN ws = 1..k
    PROVE  Stored(n, bin, Put(bin, off, ws), off, k, ws)
<1> DEFINE dom == DOMAIN bin \cup {off + i - 1 : i \in DOMAIN ws}
<1>1. dom = 0..(n - 1)
  OBVIOUS
<1> HIDE DEF dom
<1>2. Put(bin, off, ws) = [i \in dom |-> IF i - off + 1 \in DOMAIN ws
                                         THEN ws[i - off + 1] ELSE bin[i]]
  BY DEF Put, dom
<1>3. DOMAIN Put(bin, off, ws) = 0..(n - 1)
  BY <1>1, <1>2
<1>4. ASSUME NEW i \in 1..k PROVE Put(bin, off, ws)[off + i - 1] = ws[i]
  <2>1. off + i - 1 \in dom /\ (off + i - 1) - off + 1 = i
    BY <1>1
  <2> QED BY <1>2, <2>1
<1>5. ASSUME NEW i \in 0..(n - 1), i < off \/ i >= off + k
      PROVE  Put(bin, off, ws)[i] = bin[i]
  <2>1. i \in dom /\ i - off + 1 \notin 1..k
    BY <1>1, <1>5
  <2> QED BY <1>2, <2>1
<1> QED BY <1>3, <1>4, <1>5 DEF Stored

\* A name, and two words behind it.
LEMMA PutOne ==
    ASSUME NEW n \in Nat, NEW bin, DOMAIN bin = 0..(n - 1),
           NEW off \in Nat, off + 1 <= n, NEW name
    PROVE  NameStored(n, bin, Put(bin, off, NameField(name)), off, name)
<1> DEFINE ws == NameField(name)
<1>1. PICK k \in Nat : k = 1
  OBVIOUS
<1>2. DOMAIN ws = 1..k /\ ws[1] = [name |-> name]
  BY <1>1 DEF NameField
<1> HIDE DEF ws
<1>3. off + k <= n
  BY <1>1
<1>4. Stored(n, bin, Put(bin, off, ws), off, k, ws)
  <2>1. /\ n \in Nat /\ DOMAIN bin = 0..(n - 1) /\ off \in Nat /\ k \in Nat
        /\ off + k <= n /\ DOMAIN ws = 1..k
    BY <1>2, <1>3
  <2> QED BY ONLY <2>1, PutIs
<1>5. 1 \in 1..k /\ off + 1 - 1 = off
  BY <1>1
<1>6. Put(bin, off, ws)[off] = ws[1]
  BY <1>4, <1>5 DEF Stored
<1>7. \A i \in 0..(n - 1) : i # off => i < off \/ i >= off + k
  BY <1>1
<1> QED BY <1>2, <1>4, <1>6, <1>7 DEF ws, Stored, NameStored

LEMMA PutTwo ==
    ASSUME NEW n \in Nat, NEW bin, DOMAIN bin = 0..(n - 1),
           NEW off \in Nat, off + 2 <= n, NEW x, NEW y
    PROVE  PairStored(n, bin, Put(bin, off, <<x, y>>), off, x, y)
<1> DEFINE ws == <<x, y>>
<1>1. PICK k \in Nat : k = 2
  OBVIOUS
<1>2. DOMAIN ws = 1..k /\ ws[1] = x /\ ws[2] = y
  BY <1>1
<1> HIDE DEF ws
<1>3. off + k <= n
  BY <1>1
<1>4. Stored(n, bin, Put(bin, off, ws), off, k, ws)
  <2>1. /\ n \in Nat /\ DOMAIN bin = 0..(n - 1) /\ off \in Nat /\ k \in Nat
        /\ off + k <= n /\ DOMAIN ws = 1..k
    BY <1>2, <1>3
  <2> QED BY ONLY <2>1, PutIs
<1>5. 1 \in 1..k /\ off + 1 - 1 = off /\ 2 \in 1..k /\ off + 2 - 1 = off + 1
  BY <1>1
<1>6. Put(bin, off, ws)[off] = ws[1] /\ Put(bin, off, ws)[off + 1] = ws[2]
  BY <1>4, <1>5 DEF Stored
<1>7. \A i \in 0..(n - 1) : i # off /\ i # off + 1 => i < off \/ i >= off + k
  BY <1>1
<1> QED BY <1>2, <1>4, <1>6, <1>7 DEF ws, Stored, PairStored

-----------------------------------------------------------------------------
(***************************************************************************)
(* What the generator stores.  Entries lie from lo to hi and their values  *)
(* from hi on; those stored so far lie below the pointers E and D.         *)
(***************************************************************************)
EntryIn(bin, at, e, E, D, lo, hi) ==
    /\ at \in Nat /\ lo <= at /\ at + EntryWords <= E
    /\ bin[at] = [name |-> e.name]
    /\ bin[at + 9] = Pattern(e.type, Size4(e))
    /\ \E d \in Nat : /\ hi <= d /\ d + Size4(e) <= D
                      /\ bin[at + 8] = Num(d)
                      /\ \A k \in 1..Size4(e) : bin[d + k - 1] = ValueData(e)[k]

SectionIn(bin, at, s, E, D, lo, hi) ==
    /\ bin[at] = [name |-> s.name]
    /\ bin[at + 8] = Num(Len(s.entries))
    /\ \E o \in Nat :
          /\ lo <= o /\ o + Len(s.entries) * EntryWords <= E
          /\ bin[at + 9] = Num(o)
          /\ \A j \in 1..Len(s.entries) :
                EntryIn(bin, o + (j - 1) * EntryWords, s.entries[j], E, D, lo, hi)

\* Later stores leave alone what is below the pointers.
Kept(bin, new, E, D, lo, hi) ==
    /\ \A i \in lo..(E - 1) : new[i] = bin[i]
    /\ \A i \in hi..(D - 1) : new[i] = bin[i]

LEMMA EntryKept ==
    ASSUME NEW bin, NEW new, NEW at, NEW e, IsEntry(e),
           NEW E \in Nat, NEW D \in Nat, NEW lo \in Nat, NEW hi \in Nat,
           NEW E2 \in Nat, NEW D2 \in Nat, E <= E2, D <= D2,
           Kept(bin, new, E, D, lo, hi), EntryIn(bin, at, e, E, D, lo, hi)
    PROVE  EntryIn(new, at, e, E2, D2, lo, hi)
<1>1. at \in Nat /\ lo <= at /\ at + 10 <= E
  BY DEF EntryIn, EntryWords
<1>2. new[at] = bin[at] /\ new[at + 8] = bin[at + 8] /\ new[at + 9] = bin[at + 9]
  BY <1>1 DEF Kept
<1>3. PICK d \in Nat : /\ hi <= d /\ d + Size4(e) <= D
                       /\ bin[at + 8] = Num(d)
                       /\ \A k \in 1..Size4(e) : bin[d + k - 1] = ValueData(e)[k]
  BY DEF EntryIn
<1>4. Size4(e) \in Nat
  BY ValueIs
<1>5. ASSUME NEW k \in 1..Size4(e) PROVE new[d + k - 1] = ValueData(e)[k]
  <2>1. d + k - 1 \in hi..(D - 1)
    BY <1>3, <1>4
  <2>2. new[d + k - 1] = bin[d + k - 1]
    BY <2>1 DEF Kept
  <2> QED BY <1>3, <2>2
<1>6. d + Size4(e) <= D2
  BY <1>3, <1>4
<1>7. at + EntryWords <= E2
  BY <1>1 DEF EntryWords
<1>8. bin[at] = [name |-> e.name] /\ bin[at + 9] = Pattern(e.type, Size4(e))
  BY DEF EntryIn
<1> HIDE DEF EntryIn
<1> QED BY <1>1, <1>2, <1>3, <1>5, <1>6, <1>7, <1>8 DEF EntryIn

LEMMA FillIs ==
    ASSUME NEW b, NEW s, NEW e, NEW d
    PROVE  /\ Fill(b, s, e, d).bin = b /\ Fill(b, s, e, d).section = s
           /\ Fill(b, s, e, d).entry = e /\ Fill(b, s, e, d).data = d
BY DEF Fill

\* r is st with the entry e stored at the pointers E and D.
EntryAdded(n, st, r, e, E, D, lo, hi) ==
    /\ DOMAIN r.bin = 0..(n - 1) /\ r.section = st.section
    /\ r.entry = E + 10 /\ r.data = D + Size4(e)
    /\ \A i \in 0..(n - 1) :
          \/ i < E \/ (E + 10 <= i /\ i < D) \/ D + Size4(e) <= i
          => r.bin[i] = st.bin[i]
    /\ EntryIn(r.bin, E, e, E + 10, D + Size4(e), lo, hi)

\* A turn of the inner loop.
LEMMA EntryMade ==
    ASSUME NEW n \in Nat, NEW st, DOMAIN st.bin = 0..(n - 1),
           NEW lo \in Nat, NEW hi \in Nat, NEW e, IsEntry(e),
           NEW E \in Nat, NEW D \in Nat, st.entry = E, st.data = D,
           lo <= E, E + 10 <= hi, hi <= D, D + Size4(e) <= n
    PROVE  EntryAdded(n, st, GenEntry(st, e), e, E, D, lo, hi)
<1> DEFINE w == Size4(e)
           vd == ValueData(e)
           b1 == Put(st.bin, E, NameField(e.name))
           b2 == Put(b1, E + 8, <<Num(D), Pattern(e.type, w)>>)
           b3 == Put(b2, D, vd)
           r == GenEntry(st, e)
<1>1. w \in Nat /\ DOMAIN vd = 1..w
  BY ValueIs
<1>4. r = Fill(b3, st.section, E + 10, D + w)
  BY DEF GenEntry, EntryHead, EntryWords, Size4
<1>5. r.bin = b3 /\ r.section = st.section /\ r.entry = E + 10 /\ r.data = D + w
  BY <1>4, FillIs
<1> HIDE DEF w, vd, b1, b2, b3, r
<1>6. /\ DOMAIN b1 = 0..(n - 1) /\ b1[E] = [name |-> e.name]
      /\ \A i \in 0..(n - 1) : i # E => b1[i] = st.bin[i]
  <2>1. E + 1 <= n /\ n \in Nat /\ E \in Nat /\ DOMAIN st.bin = 0..(n - 1)
    BY <1>1 DEF w
  <2> DEFINE old == st.bin
             name == e.name
  <2> HIDE DEF old, name
  <2>2. NameStored(n, old, Put(old, E, NameField(name)), E, name)
    <3>1. E + 1 <= n /\ n \in Nat /\ E \in Nat /\ DOMAIN old = 0..(n - 1)
      BY <2>1 DEF old
    <3> QED BY ONLY <3>1, PutOne
  <2> QED BY <2>2 DEF NameStored, b1, old, name
<1>7. /\ DOMAIN b2 = 0..(n - 1)
      /\ b2[E + 8] = Num(D) /\ b2[E + 9] = Pattern(e.type, w)
      /\ \A i \in 0..(n - 1) : i # E + 8 /\ i # E + 9 => b2[i] = b1[i]
  <2>1. E + 8 + 2 <= n /\ E + 8 \in Nat /\ E + 8 + 1 = E + 9
    BY <1>1 DEF w
  <2> DEFINE o == E + 8
             x == Num(D)
             y == Pattern(e.type, w)
  <2> HIDE DEF o, x, y
  <2>2. PairStored(n, b1, Put(b1, o, <<x, y>>), o, x, y)
    <3>1. o + 2 <= n /\ n \in Nat /\ o \in Nat /\ DOMAIN b1 = 0..(n - 1)
      BY <1>6, <2>1 DEF o
    <3> QED BY ONLY <3>1, PutTwo
  <2>3. /\ DOMAIN b2 = 0..(n - 1) /\ b2[o] = x /\ b2[o + 1] = y
        /\ \A i \in 0..(n - 1) : i # o /\ i # o + 1 => b2[i] = b1[i]
    BY <2>2 DEF PairStored, b2, o, x, y
  <2>4. o = E + 8 /\ o + 1 = E + 9
    BY <2>1 DEF o
  <2> QED BY <2>3, <2>4 DEF x, y
<1>8. /\ DOMAIN b3 = 0..(n - 1)
      /\ \A i \in 1..w : b3[D + i - 1] = vd[i]
      /\ \A i \in 0..(n - 1) : i < D \/ i >= D + w => b3[i] = b2[i]
  <2>1. D + w <= n /\ w \in Nat /\ DOMAIN b2 = 0..(n - 1) /\ DOMAIN vd = 1..w
    BY <1>1, <1>7 DEF w
  <2>2. n \in Nat /\ D \in Nat
    OBVIOUS
  <2>3. Stored(n, b2, Put(b2, D, vd), D, w, vd)
    BY ONLY <2>1, <2>2, PutIs
  <2> QED BY <2>3 DEF Stored, b3
<1>9. ASSUME NEW i \in 0..(n - 1),
             i < E \/ (E + 10 <= i /\ i < D) \/ D + w <= i
      PROVE  b3[i] = st.bin[i]
  <2>1. /\ i < D \/ i >= D + w
        /\ i # E + 8 /\ i # E + 9 /\ i # E
    BY <1>1, <1>9
  <2> QED BY <1>6, <1>7, <1>8, <2>1
<1>10. D + w <= n /\ E + 10 <= n
  BY <1>1 DEF w
<1>11. b3[E] = [name |-> e.name]
  <2>1. E \in 0..(n - 1) /\ E < D /\ E # E + 8 /\ E # E + 9
    BY <1>10
  <2> QED BY <1>6, <1>7, <1>8, <2>1
<1>12. b3[E + 8] = Num(D) /\ b3[E + 9] = Pattern(e.type, w)
  <2>1. /\ E + 8 \in 0..(n - 1) /\ E + 8 < D
        /\ E + 9 \in 0..(n - 1) /\ E + 9 < D
    BY <1>10
  <2> QED BY <1>7, <1>8, <2>1
<1>13. EntryIn(b3, E, e, E + 10, D + w, lo, hi)
  <2>1. \E d \in Nat : /\ hi <= d /\ d + w <= D + w
                       /\ b3[E + 8] = Num(d)
                       /\ \A k \in 1..w : b3[d + k - 1] = vd[k]
    <3> WITNESS D \in Nat
    <3>1. hi <= D /\ D + w <= D + w
      BY <1>1
    <3>2. \A k \in 1..w : b3[D + k - 1] = vd[k]
      BY <1>8
    <3> QED BY <1>12, <3>1, <3>2
  <2> QED BY <1>11, <1>12, <2>1 DEF EntryIn, EntryWords, w, vd
<1> QED BY <1>5, <1>8, <1>9, <1>13 DEF r, w, EntryAdded

LEMMA DataWordsIs ==
    ASSUME NEW es, IsSeq(es), \A j \in DOMAIN es : IsEntry(es[j])
    PROVE  \E q \in [0..Len(es) -> Nat] :
              /\ q[0] = 0
              /\ \A j \in 1..Len(es) : q[j] = q[j - 1] + Size4(es[j])
              /\ \A j \in 0..Len(es) : q[j] <= q[Len(es)]
              /\ DataWords(es) = q[Len(es)]
<1> DEFINE s == [j \in DOMAIN es |-> Words(ValueBytes(es[j]))]
           n == Len(es)
<1>1. n \in Nat /\ DOMAIN es = 1..n
  BY SeqIs
<1>2. \A j \in 1..n : s[j] = Size4(es[j]) /\ s[j] \in Nat
  BY <1>1, ValueIs DEF Size4
<1>3. DataWords(es) = Sum(s)
  BY DEF DataWords
<1>4. s \in Seq(Nat) /\ Len(s) = n
  <2>1. s \in [1..n -> Nat]
    BY <1>1, <1>2
  <2> HIDE DEF s, n
  <2> QED BY <1>1, <2>1
<1> HIDE DEF s, n
<1>5. PICK q \in [0..n -> Nat] :
          /\ q[0] = 0
          /\ \A i \in 1..n : q[i] = q[i - 1] + s[i]
          /\ \A i \in 0..n : q[i] <= q[n]
          /\ Sum(s) = q[n]
  <2>1. \E q \in [0..Len(s) -> Nat] :
          /\ q[0] = 0
          /\ \A i \in 1..Len(s) : q[i] = q[i - 1] + s[i]
          /\ \A i \in 0..Len(s) : q[i] <= q[Len(s)]
          /\ Sum(s) = q[Len(s)]
    BY <1>4, SumIs
  <2> QED BY <1>4, <2>1
<1>6. \A i \in 1..n : q[i] = q[i - 1] + Size4(es[i])
  BY <1>2, <1>5
<1> QED BY <1>3, <1>5, <1>6 DEF n

\* r is st with the entries es stored from the pointers E and D on.
EntriesAdded(n, st, r, es, E, D, lo, hi) ==
    /\ DOMAIN r.bin = 0..(n - 1) /\ r.section = st.section
    /\ r.entry = E + Len(es) * 10 /\ r.data = D + DataWords(es)
    /\ \A i \in 0..(n - 1) :
          i < E \/ (hi <= i /\ i < D) => r.bin[i] = st.bin[i]
    /\ \A j \in 1..Len(es) :
          EntryIn(r.bin, E + (j - 1) * 10, es[j], r.entry, r.data, lo, hi)

\* The inner loop.
LEMMA EntriesMade ==
    ASSUME NEW n \in Nat, NEW st, DOMAIN st.bin = 0..(n - 1),
           NEW lo \in Nat, NEW hi \in Nat,
           NEW es, IsSeq(es), \A j \in DOMAIN es : IsEntry(es[j]),
           NEW E \in Nat, NEW D \in Nat, st.entry = E, st.data = D,
           lo <= E, E + Len(es) * 10 <= hi, hi <= D, D + DataWords(es) <= n
    PROVE  EntriesAdded(n, st, GenEntries(st, es), es, E, D, lo, hi)
<1> DEFINE len == Len(es)
<1>1. len \in Nat /\ DOMAIN es = 1..len
  BY SeqIs
<1>2. PICK q \in [0..len -> Nat] :
          /\ q[0] = 0
          /\ \A j \in 1..len : q[j] = q[j - 1] + Size4(es[j])
          /\ \A j \in 0..len : q[j] <= q[len]
          /\ DataWords(es) = q[len]
  BY DataWordsIs
<1>3. PICK f : /\ f[0] = st
               /\ \A j \in 1..len : f[j] = GenEntry(f[j - 1], es[j])
               /\ GenEntries(st, es) = f[len]
  BY <1>1, GenIs DEF len
<1>4. E + len * 10 <= hi /\ q[len] \in Nat /\ D + q[len] <= n
  BY <1>1, <1>2
<1> HIDE DEF len
<1> DEFINE P(m) ==
      /\ DOMAIN f[m].bin = 0..(n - 1) /\ f[m].section = st.section
      /\ f[m].entry = E + m * 10 /\ f[m].data = D + q[m]
      /\ \A i \in 0..(n - 1) :
            i < E \/ (hi <= i /\ i < D) => f[m].bin[i] = st.bin[i]
      /\ \A j \in 1..m :
            EntryIn(f[m].bin, E + (j - 1) * 10, es[j], E + m * 10, D + q[m], lo, hi)
           T == {m \in Nat : m <= len => P(m)}
<1>5. 0 \in T
  <2>1. P(0)
    BY <1>2, <1>3
  <2> QED BY <2>1
<1> HIDE DEF P
<1>6. ASSUME NEW m \in T PROVE m + 1 \in T
  <2> SUFFICES ASSUME m + 1 <= len PROVE P(m + 1)
    OBVIOUS
  <2>1. m \in Nat /\ m <= len /\ m + 1 \in 1..len /\ (m + 1) - 1 = m /\ m \in 0..len
        /\ m + 1 \in 0..len
    BY <1>1
  <2>2. P(m)
    BY <2>1
  <2> DEFINE e == es[m + 1]
             E1 == E + m * 10
             D1 == D + q[m]
             r == f[m + 1]
  <2>3. IsEntry(e) /\ r = GenEntry(f[m], e) /\ q[m + 1] = q[m] + Size4(e)
    BY <1>1, <1>2, <1>3, <2>1
  <2>4. Size4(e) \in Nat /\ q[m] \in Nat /\ q[m + 1] \in Nat /\ q[m + 1] <= q[len]
    BY <1>2, <2>1, <2>3, ValueIs
  <2>5. /\ E1 \in Nat /\ D1 \in Nat /\ lo <= E1 /\ E1 + 10 <= hi /\ hi <= D1
        /\ D1 + Size4(e) <= n
    <3> DEFINE w == Size4(e)
               a == q[m]
               b == q[m + 1]
               c == q[len]
    <3>1. /\ len \in Nat /\ m \in Nat /\ w \in Nat /\ a \in Nat /\ b \in Nat
          /\ c \in Nat /\ m + 1 <= len /\ b = a + w /\ b <= c /\ D + c <= n
          /\ E + len * 10 <= hi
      BY <1>1, <1>4, <2>1, <2>3, <2>4
    <3> HIDE DEF w, a, b, c
    <3>2. E + m * 10 \in Nat /\ lo <= E + m * 10 /\ (E + m * 10) + 10 <= hi
      BY <3>1
    <3>3. D + a \in Nat /\ hi <= D + a /\ (D + a) + w <= n
      BY <3>1
    <3> QED BY <3>2, <3>3 DEF w, a
  <2>6. DOMAIN f[m].bin = 0..(n - 1) /\ f[m].entry = E1 /\ f[m].data = D1
        /\ f[m].section = st.section
    BY <2>2 DEF P
  <2> HIDE DEF e, E1, D1
  <2>7. /\ DOMAIN r.bin = 0..(n - 1) /\ r.section = f[m].section
        /\ r.entry = E1 + 10 /\ r.data = D1 + Size4(e)
        /\ \A i \in 0..(n - 1) :
              \/ i < E1 \/ (E1 + 10 <= i /\ i < D1) \/ D1 + Size4(e) <= i
              => r.bin[i] = f[m].bin[i]
        /\ EntryIn(r.bin, E1, e, E1 + 10, D1 + Size4(e), lo, hi)
    <3> DEFINE prev == f[m]
    <3>1. /\ n \in Nat /\ lo \in Nat /\ hi \in Nat /\ IsEntry(e)
          /\ DOMAIN prev.bin = 0..(n - 1) /\ prev.entry = E1 /\ prev.data = D1
      BY <2>3, <2>6
    <3> HIDE DEF prev
    <3>2. EntryAdded(n, prev, GenEntry(prev, e), e, E1, D1, lo, hi)
      BY ONLY <2>5, <3>1, EntryMade
    <3> QED BY <2>3, <3>2 DEF prev, EntryAdded
  <2>8. E1 + 10 = E + (m + 1) * 10 /\ D1 + Size4(e) = D + q[m + 1]
    BY <2>1, <2>3, <2>4 DEF E1, D1
  <2>9. ASSUME NEW i \in 0..(n - 1), i < E \/ (hi <= i /\ i < D)
        PROVE  r.bin[i] = st.bin[i]
    <3>1. i < E1 \/ (E1 + 10 <= i /\ i < D1)
      BY <2>1, <2>4, <2>5, <2>9 DEF E1, D1
    <3>2. f[m].bin[i] = st.bin[i]
      BY <2>2, <2>9 DEF P
    <3> QED BY <2>7, <3>1, <3>2
  <2>10. ASSUME NEW j \in 1..(m + 1)
         PROVE  EntryIn(r.bin, E + (j - 1) * 10, es[j], E1 + 10, D1 + Size4(e), lo, hi)
    <3>1. CASE j = m + 1
      <4>1. E + (j - 1) * 10 = E1 /\ es[j] = e
        BY <2>1, <3>1 DEF E1, e
      <4> QED BY <2>7, <4>1
    <3>2. CASE j # m + 1
      <4>1. j \in 1..m /\ IsEntry(es[j])
        BY <1>1, <2>1, <3>2
      <4>2. EntryIn(f[m].bin, E + (j - 1) * 10, es[j], E1, D1, lo, hi)
        BY <2>2, <4>1 DEF P, E1, D1
      <4>3. Kept(f[m].bin, r.bin, E1, D1, lo, hi)
        <5>1. \A i \in lo..(E1 - 1) : i \in 0..(n - 1) /\ i < E1
          BY <2>4, <2>5
        <5>2. \A i \in hi..(D1 - 1) : i \in 0..(n - 1) /\ E1 + 10 <= i /\ i < D1
          BY <2>4, <2>5
        <5> QED BY <2>7, <5>1, <5>2 DEF Kept
      <4>4. /\ E1 \in Nat /\ D1 \in Nat /\ E1 + 10 \in Nat /\ D1 + Size4(e) \in Nat
            /\ E1 <= E1 + 10 /\ D1 <= D1 + Size4(e)
        BY <2>4, <2>5
      <4>5. lo \in Nat /\ hi \in Nat
        OBVIOUS
      <4> DEFINE new == r.bin
                 old == f[m].bin
                 at == E + (j - 1) * 10
                 ej == es[j]
                 E2 == E1 + 10
                 D2 == D1 + Size4(e)
      <4>6. /\ IsEntry(ej) /\ E1 \in Nat /\ D1 \in Nat /\ E2 \in Nat /\ D2 \in Nat
            /\ E1 <= E2 /\ D1 <= D2
            /\ Kept(old, new, E1, D1, lo, hi) /\ EntryIn(old, at, ej, E1, D1, lo, hi)
        BY <4>1, <4>2, <4>3, <4>4
      <4> HIDE DEF new, old, at, ej, E2, D2
      <4>7. EntryIn(new, at, ej, E2, D2, lo, hi)
        BY ONLY <4>5, <4>6, EntryKept
      <4> QED BY <4>7 DEF new, at, ej, E2, D2
    <3> QED BY <3>1, <3>2
  <2>11. r.section = st.section
    BY <2>6, <2>7
  <2> QED BY <2>7, <2>8, <2>9, <2>10, <2>11 DEF P
<1> HIDE DEF T
<1>7. T = Nat
  <2>1. T \in SUBSET Nat
    BY DEF T
  <2> QED BY <1>5, <1>6, <2>1, Induct
<1>8. P(len)
  BY <1>1, <1>7 DEF T
<1> QED BY <1>2, <1>3, <1>4, <1>8 DEF P, len, EntriesAdded


LEMMA SectionKept ==
    ASSUME NEW bin, NEW new, NEW at, NEW s, IsSection(s), IsSeq(s.entries),
           NEW E \in Nat, NEW D \in Nat, NEW lo \in Nat, NEW hi \in Nat,
           NEW E2 \in Nat, NEW D2 \in Nat, E <= E2, D <= D2,
           Kept(bin, new, E, D, lo, hi), SectionIn(bin, at, s, E, D, lo, hi),
           new[at] = bin[at], new[at + 8] = bin[at + 8], new[at + 9] = bin[at + 9]
    PROVE  SectionIn(new, at, s, E2, D2, lo, hi)
<1> DEFINE len == Len(s.entries)
<1>1. len \in Nat /\ DOMAIN s.entries = 1..len
  BY SeqIs
<1>2. PICK o \in Nat :
          /\ lo <= o /\ o + len * EntryWords <= E
          /\ bin[at + 9] = Num(o)
          /\ \A j \in 1..len :
                EntryIn(bin, o + (j - 1) * EntryWords, s.entries[j], E, D, lo, hi)
  BY DEF SectionIn
<1>3. ASSUME NEW j \in 1..len
      PROVE  EntryIn(new, o + (j - 1) * EntryWords, s.entries[j], E2, D2, lo, hi)
  <2> DEFINE e == s.entries[j]
             a == o + (j - 1) * EntryWords
  <2>1. /\ IsEntry(e) /\ EntryIn(bin, a, e, E, D, lo, hi)
        /\ Kept(bin, new, E, D, lo, hi) /\ E <= E2 /\ D <= D2
        /\ E \in Nat /\ D \in Nat /\ lo \in Nat /\ hi \in Nat
        /\ E2 \in Nat /\ D2 \in Nat
    BY <1>1, <1>2 DEF IsSection
  <2> HIDE DEF e, a
  <2>2. EntryIn(new, a, e, E2, D2, lo, hi)
    BY ONLY <2>1, EntryKept
  <2> QED BY <2>2 DEF e, a
<1>4. o + len * EntryWords <= E2
  BY <1>1, <1>2 DEF EntryWords
<1>5. bin[at] = [name |-> s.name] /\ bin[at + 8] = Num(len)
  BY DEF SectionIn
<1>6. \E p \in Nat :
          /\ lo <= p /\ p + len * EntryWords <= E2
          /\ new[at + 9] = Num(p)
          /\ \A j \in 1..len :
                EntryIn(new, p + (j - 1) * EntryWords, s.entries[j], E2, D2, lo, hi)
  <2> WITNESS o \in Nat
  <2> QED BY <1>2, <1>3, <1>4
<1> QED BY <1>5, <1>6 DEF SectionIn

\* r is st with the section s stored at the pointers S, E and D.
SectionAdded(n, st, r, s, S, E, D, lo, hi) ==
    /\ DOMAIN r.bin = 0..(n - 1) /\ r.section = S + 10
    /\ r.entry = E + Len(s.entries) * 10
    /\ r.data = D + DataWords(s.entries)
    /\ \A i \in 0..(n - 1) :
          \/ i < E /\ i # S /\ i # S + 8 /\ i # S + 9
          \/ hi <= i /\ i < D
          => r.bin[i] = st.bin[i]
    /\ SectionIn(r.bin, S, s, r.entry, r.data, lo, hi)

\* A turn of the outer loop.
LEMMA SectionMade ==
    ASSUME NEW n \in Nat, NEW st, DOMAIN st.bin = 0..(n - 1),
           NEW lo \in Nat, NEW hi \in Nat, NEW s, IsSection(s), IsSeq(s.entries),
           NEW S \in Nat, NEW E \in Nat, NEW D \in Nat,
           st.section = S, st.entry = E, st.data = D, S + 10 <= lo, lo <= E,
           E + Len(s.entries) * 10 <= hi, hi <= D,
           D + DataWords(s.entries) <= n
    PROVE  SectionAdded(n, st, GenSection(st, s), s, S, E, D, lo, hi)
<1> DEFINE es == s.entries
           len == Len(es)
           w == DataWords(es)
           b1 == Put(st.bin, S, NameField(s.name))
           st1 == Fill(b1, S, E, D)
           fd == GenEntries(st1, es)
           b2 == fd.bin
           b3 == Put(b2, S + 8, <<Num(len), Num(E)>>)
           E2 == E + len * 10
           D2 == D + w
           r == GenSection(st, s)
<1>1. IsSeq(es) /\ len \in Nat /\ DOMAIN es = 1..len /\ \A j \in DOMAIN es : IsEntry(es[j])
  BY SeqIs DEF IsSection
<1>2. w \in Nat
  <2>1. PICK q \in [0..len -> Nat] : DataWords(es) = q[len]
    <3> HIDE DEF es
    <3> QED BY <1>1, DataWordsIs
  <2> QED BY <1>1, <2>1
<1>3. r = Fill(b3, S + 10, fd.entry, fd.data)
  BY DEF GenSection, SectionWords
<1>4. r.bin = b3 /\ r.section = S + 10 /\ r.entry = fd.entry /\ r.data = fd.data
  BY <1>3, FillIs
<1>5. st1.bin = b1 /\ st1.section = S /\ st1.entry = E /\ st1.data = D
  BY FillIs
<1>6. E + len * 10 <= hi /\ D + w <= n
  OBVIOUS
<1> HIDE DEF es, len, w, b1, st1, fd, b2, b3, E2, D2, r
<1>7. /\ DOMAIN b1 = 0..(n - 1) /\ b1[S] = [name |-> s.name]
      /\ \A i \in 0..(n - 1) : i # S => b1[i] = st.bin[i]
  <2>1. S + 1 <= n /\ n \in Nat /\ S \in Nat /\ DOMAIN st.bin = 0..(n - 1)
    BY <1>1, <1>2, <1>6
  <2> DEFINE old == st.bin
             name == s.name
  <2> HIDE DEF old, name
  <2>2. NameStored(n, old, Put(old, S, NameField(name)), S, name)
    <3>1. S + 1 <= n /\ n \in Nat /\ S \in Nat /\ DOMAIN old = 0..(n - 1)
      BY <2>1 DEF old
    <3> QED BY ONLY <3>1, PutOne
  <2> QED BY <2>2 DEF NameStored, b1, old, name
<1>8. EntriesAdded(n, st1, fd, es, E, D, lo, hi)
  <2>1. /\ n \in Nat /\ DOMAIN st1.bin = 0..(n - 1) /\ lo \in Nat /\ hi \in Nat
        /\ IsSeq(es) /\ (\A j \in DOMAIN es : IsEntry(es[j]))
        /\ E \in Nat /\ D \in Nat /\ st1.entry = E /\ st1.data = D
        /\ lo <= E /\ E + Len(es) * 10 <= hi /\ hi <= D /\ D + DataWords(es) <= n
    BY <1>1, <1>5, <1>6, <1>7 DEF len, w
  <2>2. EntriesAdded(n, st1, GenEntries(st1, es), es, E, D, lo, hi)
    BY ONLY <2>1, EntriesMade
  <2> QED BY <2>2 DEF fd
<1>9. /\ DOMAIN b2 = 0..(n - 1) /\ fd.entry = E2 /\ fd.data = D2
      /\ \A i \in 0..(n - 1) : i < E \/ (hi <= i /\ i < D) => b2[i] = b1[i]
      /\ \A j \in 1..len : EntryIn(b2, E + (j - 1) * 10, es[j], E2, D2, lo, hi)
  BY <1>5, <1>8 DEF EntriesAdded, b2, E2, D2, len, w
<1>10. E2 \in Nat /\ D2 \in Nat /\ E <= E2 /\ D <= D2 /\ E2 <= hi /\ D2 <= n
       /\ S + 10 <= n
  BY <1>1, <1>2, <1>6 DEF E2, D2
<1>11. /\ DOMAIN b3 = 0..(n - 1) /\ b3[S + 8] = Num(len) /\ b3[S + 9] = Num(E)
       /\ \A i \in 0..(n - 1) : i # S + 8 /\ i # S + 9 => b3[i] = b2[i]
  <2> DEFINE o == S + 8
             x == Num(len)
             y == Num(E)
  <2>1. /\ o + 2 <= n /\ o \in Nat /\ o + 1 = S + 9 /\ n \in Nat
        /\ DOMAIN b2 = 0..(n - 1) /\ b3 = Put(b2, o, <<x, y>>)
    BY <1>9, <1>10 DEF b3
  <2> HIDE DEF o, x, y
  <2>2. /\ DOMAIN b3 = 0..(n - 1)
        /\ b3[o] = x /\ b3[o + 1] = y
        /\ \A i \in 0..(n - 1) : i # o /\ i # o + 1 => b3[i] = b2[i]
    <3>1. PairStored(n, b2, Put(b2, o, <<x, y>>), o, x, y)
      BY ONLY <2>1, PutTwo
    <3> QED BY <2>1, <3>1 DEF PairStored
  <2> QED BY <2>1, <2>2 DEF o, x, y
<1>12. Kept(b2, b3, E2, D2, lo, hi)
  <2>1. \A i \in lo..(E2 - 1) : i \in 0..(n - 1) /\ i # S + 8 /\ i # S + 9
    BY <1>10
  <2>2. \A i \in hi..(D2 - 1) : i \in 0..(n - 1) /\ i # S + 8 /\ i # S + 9
    BY <1>10
  <2> QED BY <1>11, <2>1, <2>2 DEF Kept
<1>13. ASSUME NEW j \in 1..len
       PROVE  EntryIn(b3, E + (j - 1) * EntryWords, es[j], E2, D2, lo, hi)
  <2> DEFINE e == es[j]
             a == E + (j - 1) * EntryWords
  <2>0. IsEntry(e) /\ EntryIn(b2, a, e, E2, D2, lo, hi)
    BY <1>1, <1>9 DEF EntryWords
  <2> HIDE DEF e, a
  <2>1. /\ IsEntry(e) /\ EntryIn(b2, a, e, E2, D2, lo, hi)
        /\ Kept(b2, b3, E2, D2, lo, hi) /\ E2 <= E2 /\ D2 <= D2
        /\ E2 \in Nat /\ D2 \in Nat /\ lo \in Nat /\ hi \in Nat
    BY <1>10, <1>12, <2>0
  <2> HIDE DEF e, a
  <2>2. EntryIn(b3, a, e, E2, D2, lo, hi)
    BY ONLY <2>1, EntryKept
  <2> QED BY <2>2 DEF e, a
<1>14. b3[S] = [name |-> s.name]
  <2>1. S \in 0..(n - 1) /\ S < E /\ S # S + 8 /\ S # S + 9
    BY <1>10
  <2> QED BY <1>7, <1>9, <1>11, <2>1
<1>15. SectionIn(b3, S, s, E2, D2, lo, hi)
  <2>1. \E p \in Nat :
          /\ lo <= p /\ p + len * EntryWords <= E2
          /\ b3[S + 9] = Num(p)
          /\ \A j \in 1..len :
                EntryIn(b3, p + (j - 1) * EntryWords, es[j], E2, D2, lo, hi)
    <3> WITNESS E \in Nat
    <3>1. E + len * EntryWords <= E2
      BY <1>1 DEF E2, EntryWords
    <3> QED BY <1>11, <1>13, <3>1
  <2> QED BY <1>11, <1>14, <2>1 DEF SectionIn, es, len
<1>16. ASSUME NEW i \in 0..(n - 1),
              \/ i < E /\ i # S /\ i # S + 8 /\ i # S + 9
              \/ hi <= i /\ i < D
       PROVE  b3[i] = st.bin[i]
  <2>1. (i < E \/ (hi <= i /\ i < D)) /\ i # S /\ i # S + 8 /\ i # S + 9
    BY <1>10, <1>16
  <2> QED BY <1>7, <1>9, <1>11, <2>1
<1>17. /\ DOMAIN r.bin = 0..(n - 1) /\ r.section = S + 10
       /\ r.entry = E2 /\ r.data = D2 /\ r.bin = b3
  BY <1>4, <1>9, <1>11
<1> QED BY <1>15, <1>16, <1>17 DEF SectionAdded, E2, D2, len, w, es, r

\* The sums over the sections of a tree, prefix by prefix.
LEMMA CountsAre ==
    ASSUME NEW t, IsTree(t)
    PROVE  \E c \in [0..Len(t) -> Nat], w \in [0..Len(t) -> Nat] :
              /\ c[0] = 0 /\ w[0] = 0
              /\ \A i \in 1..Len(t) : /\ c[i] = c[i - 1] + Len(t[i].entries)
                                      /\ w[i] = w[i - 1] + DataWords(t[i].entries)
              /\ \A i \in 0..Len(t) : c[i] <= c[Len(t)] /\ w[i] <= w[Len(t)]
              /\ EntryCount(t) = c[Len(t)] /\ WordCount(t) = w[Len(t)]
<1> DEFINE n == Len(t)
           r == [i \in DOMAIN t |-> Len(t[i].entries)]
           s == [i \in DOMAIN t |-> DataWords(t[i].entries)]
<1>1. n \in Nat /\ DOMAIN t = 1..n
  BY SeqIs DEF IsTree
<1>2. ASSUME NEW i \in 1..n
      PROVE  Len(t[i].entries) \in Nat /\ DataWords(t[i].entries) \in Nat
  <2> DEFINE es == t[i].entries
  <2>1. IsSeq(es) /\ \A j \in DOMAIN es : IsEntry(es[j])
    BY <1>1 DEF IsTree, IsSection
  <2> HIDE DEF es
  <2>2. Len(es) \in Nat
    BY <2>1, SeqIs
  <2>3. PICK q \in [0..Len(es) -> Nat] : DataWords(es) = q[Len(es)]
    BY <2>1, DataWordsIs
  <2>4. DataWords(es) \in Nat
    BY <2>2, <2>3
  <2> QED BY <2>2, <2>4 DEF es
<1>3. EntryCount(t) = Sum(r) /\ WordCount(t) = Sum(s)
  BY DEF EntryCount, WordCount
<1>4. r \in [1..n -> Nat] /\ s \in [1..n -> Nat]
  BY <1>1, <1>2
<1>5. \A i \in 1..n : r[i] = Len(t[i].entries) /\ s[i] = DataWords(t[i].entries)
  BY <1>1
<1> HIDE DEF r, s, n
<1>6. r \in Seq(Nat) /\ Len(r) = n /\ s \in Seq(Nat) /\ Len(s) = n
  BY <1>1, <1>4
<1>7. PICK c \in [0..n -> Nat] :
          /\ c[0] = 0
          /\ \A i \in 1..n : c[i] = c[i - 1] + r[i]
          /\ \A i \in 0..n : c[i] <= c[n]
          /\ Sum(r) = c[n]
  <2>1. \E q \in [0..Len(r) -> Nat] :
          /\ q[0] = 0
          /\ \A i \in 1..Len(r) : q[i] = q[i - 1] + r[i]
          /\ \A i \in 0..Len(r) : q[i] <= q[Len(r)]
          /\ Sum(r) = q[Len(r)]
    BY <1>6, SumIs
  <2> QED BY <1>6, <2>1
<1>8. PICK w \in [0..n -> Nat] :
          /\ w[0] = 0
          /\ \A i \in 1..n : w[i] = w[i - 1] + s[i]
          /\ \A i \in 0..n : w[i] <= w[n]
          /\ Sum(s) = w[n]
  <2>1. \E q \in [0..Len(s) -> Nat] :
          /\ q[0] = 0
          /\ \A i \in 1..Len(s) : q[i] = q[i - 1] + s[i]
          /\ \A i \in 0..Len(s) : q[i] <= q[Len(s)]
          /\ Sum(s) = q[Len(s)]
    BY <1>6, SumIs
  <2> QED BY <1>6, <2>1
<1>9. /\ \A i \in 1..n : c[i] = c[i - 1] + Len(t[i].entries)
      /\ \A i \in 1..n : w[i] = w[i - 1] + DataWords(t[i].entries)
  BY <1>5, <1>7, <1>8
<1>10. \E cc \in [0..n -> Nat], ww \in [0..n -> Nat] :
          /\ cc[0] = 0 /\ ww[0] = 0
          /\ \A i \in 1..n : /\ cc[i] = cc[i - 1] + Len(t[i].entries)
                             /\ ww[i] = ww[i - 1] + DataWords(t[i].entries)
          /\ \A i \in 0..n : cc[i] <= cc[n] /\ ww[i] <= ww[n]
          /\ EntryCount(t) = cc[n] /\ WordCount(t) = ww[n]
  <2> WITNESS c \in [0..n -> Nat], w \in [0..n -> Nat]
  <2> QED BY <1>3, <1>7, <1>8, <1>9
<1> QED BY <1>10 DEF n

\* The file: head, then sections, entries and values, in three zones.
EntryZone(t) == HeadWords + Len(t) * SectionWords
DataZone(t) == EntryZone(t) + EntryCount(t) * EntryWords

Generated(bin, t) ==
    LET n == script_bin_size(t)
    IN  /\ n \in Nat /\ EntryZone(t) \in Nat /\ DataZone(t) \in Nat
        /\ EntryZone(t) <= DataZone(t) /\ DataZone(t) <= n
        /\ DOMAIN bin = 0..(n - 1)
        /\ bin[0] = Num(Len(t)) /\ bin[2] = Num(1) /\ bin[3] = Num(2)
        /\ \A j \in 1..Len(t) :
              SectionIn(bin, HeadWords + (j - 1) * SectionWords, t[j],
                        DataZone(t), n, EntryZone(t), DataZone(t))

\* The outer loop.
LEMMA SectionsMade ==
    ASSUME NEW n \in Nat, NEW st, DOMAIN st.bin = 0..(n - 1), NEW t, IsTree(t),
           NEW lo \in Nat, NEW hi \in Nat, lo = 4 + Len(t) * 10,
           hi = lo + EntryCount(t) * 10, n = hi + WordCount(t),
           st.section = 4, st.entry = lo, st.data = hi
    PROVE  LET r == GenSections(st, t)
           IN  /\ DOMAIN r.bin = 0..(n - 1)
               /\ \A i \in 0..3 : r.bin[i] = st.bin[i]
               /\ \A j \in 1..Len(t) :
                     SectionIn(r.bin, 4 + (j - 1) * 10, t[j], hi, n, lo, hi)
<1> DEFINE len == Len(t)
<1>1. len \in Nat /\ DOMAIN t = 1..len
  BY SeqIs DEF IsTree
<1>2. PICK c \in [0..len -> Nat], w \in [0..len -> Nat] :
          /\ c[0] = 0 /\ w[0] = 0
          /\ \A i \in 1..len : /\ c[i] = c[i - 1] + Len(t[i].entries)
                               /\ w[i] = w[i - 1] + DataWords(t[i].entries)
          /\ \A i \in 0..len : c[i] <= c[len] /\ w[i] <= w[len]
          /\ EntryCount(t) = c[len] /\ WordCount(t) = w[len]
  BY CountsAre
<1>3. PICK f : /\ f[0] = st
               /\ \A j \in 1..len : f[j] = GenSection(f[j - 1], t[j])
               /\ GenSections(st, t) = f[len]
  <2>1. Len(t) \in Nat
    BY <1>1
  <2>2. \E g : /\ g[0] = st
               /\ \A i \in 1..Len(t) : g[i] = GenSection(g[i - 1], t[i])
               /\ GenSections(st, t) = g[Len(t)]
    BY ONLY <2>1, GenSecIs, ZenonT(60)
  <2> QED BY <2>2
<1>4. /\ c[len] \in Nat /\ w[len] \in Nat
      /\ lo = 4 + len * 10 /\ hi = lo + c[len] * 10 /\ n = hi + w[len]
  BY <1>1, <1>2
<1> HIDE DEF len
<1> DEFINE P(m) ==
      /\ DOMAIN f[m].bin = 0..(n - 1)
      /\ f[m].section = 4 + m * 10
      /\ f[m].entry = lo + c[m] * 10 /\ f[m].data = hi + w[m]
      /\ \A i \in 0..3 : f[m].bin[i] = st.bin[i]
      /\ \A j \in 1..m : SectionIn(f[m].bin, 4 + (j - 1) * 10, t[j],
                                   lo + c[m] * 10, hi + w[m], lo, hi)
           T == {m \in Nat : m <= len => P(m)}
<1>5. 0 \in T
  <2>1. P(0)
    BY <1>2, <1>3
  <2> QED BY <2>1
<1> HIDE DEF P
<1>6. ASSUME NEW m \in T PROVE m + 1 \in T
  <2> SUFFICES ASSUME m + 1 <= len PROVE P(m + 1)
    OBVIOUS
  <2>1. m \in Nat /\ m <= len /\ m + 1 \in 1..len /\ (m + 1) - 1 = m /\ m \in 0..len
        /\ m + 1 \in 0..len
    BY <1>1
  <2>2. P(m)
    BY <2>1
  <2> DEFINE s == t[m + 1]
             S1 == 4 + m * 10
             E1 == lo + c[m] * 10
             D1 == hi + w[m]
             es == s.entries
             prev == f[m]
             r == f[m + 1]
  <2>3. /\ IsSection(s) /\ IsSeq(es) /\ r = GenSection(prev, s)
        /\ c[m + 1] = c[m] + Len(es) /\ w[m + 1] = w[m] + DataWords(es)
    BY <1>1, <1>2, <1>3, <2>1 DEF IsTree
  <2>4. /\ c[m] \in Nat /\ c[m + 1] \in Nat /\ c[m + 1] <= c[len]
        /\ w[m] \in Nat /\ w[m + 1] \in Nat /\ w[m + 1] <= w[len]
    BY <1>2, <2>1
  <2>5. Len(es) \in Nat /\ DataWords(es) \in Nat
    <3>1. Len(es) \in Nat /\ \A j \in DOMAIN es : IsEntry(es[j])
      BY <2>3, SeqIs DEF IsSection
    <3> HIDE DEF es
    <3>2. PICK q \in [0..Len(es) -> Nat] : DataWords(es) = q[Len(es)]
      BY <2>3, <3>1, DataWordsIs
    <3> QED BY <3>1, <3>2
  <2>6. /\ DOMAIN prev.bin = 0..(n - 1) /\ prev.section = S1
        /\ prev.entry = E1 /\ prev.data = D1
    BY <2>2 DEF P
  <2>7. /\ S1 \in Nat /\ E1 \in Nat /\ D1 \in Nat /\ S1 + 10 <= lo /\ lo <= E1
        /\ E1 + Len(es) * 10 <= hi /\ hi <= D1 /\ D1 + DataWords(es) <= n
        /\ E1 + Len(es) * 10 = lo + c[m + 1] * 10
        /\ D1 + DataWords(es) = hi + w[m + 1]
    <3> DEFINE x == Len(es)
               y == DataWords(es)
               a == c[m]
               a1 == c[m + 1]
               a2 == c[len]
               b == w[m]
               b1 == w[m + 1]
               b2 == w[len]
    <3>1. /\ len \in Nat /\ m \in Nat /\ m + 1 <= len /\ x \in Nat /\ y \in Nat
          /\ a \in Nat /\ a1 = a + x /\ a1 <= a2 /\ a2 \in Nat
          /\ b \in Nat /\ b1 = b + y /\ b1 <= b2 /\ b2 \in Nat
          /\ lo = 4 + len * 10 /\ hi = lo + a2 * 10 /\ n = hi + b2
          /\ lo \in Nat /\ hi \in Nat /\ n \in Nat
      BY <1>1, <1>4, <2>1, <2>3, <2>4, <2>5
    <3> HIDE DEF x, y, a, a1, a2, b, b1, b2
    <3>2. 4 + m * 10 \in Nat /\ (4 + m * 10) + 10 <= lo
      BY ONLY <3>1
    <3>3. /\ lo + a * 10 \in Nat /\ lo <= lo + a * 10
          /\ (lo + a * 10) + x * 10 <= hi /\ (lo + a * 10) + x * 10 = lo + a1 * 10
      BY ONLY <3>1
    <3>4. hi + b \in Nat /\ hi <= hi + b /\ (hi + b) + y <= n /\ (hi + b) + y = hi + b1
      BY ONLY <3>1
    <3> QED BY <3>2, <3>3, <3>4 DEF x, y, a, a1, a2, b, b1, b2
  <2> HIDE DEF s, S1, E1, D1, prev, r
  <2>8. SectionAdded(n, prev, r, s, S1, E1, D1, lo, hi)
    <3>1. /\ n \in Nat /\ DOMAIN prev.bin = 0..(n - 1) /\ lo \in Nat /\ hi \in Nat
          /\ IsSection(s) /\ IsSeq(s.entries)
          /\ S1 \in Nat /\ E1 \in Nat /\ D1 \in Nat
          /\ prev.section = S1 /\ prev.entry = E1 /\ prev.data = D1
          /\ S1 + 10 <= lo /\ lo <= E1
          /\ E1 + Len(s.entries) * 10 <= hi /\ hi <= D1
          /\ D1 + DataWords(s.entries) <= n
      BY <2>3, <2>6, <2>7
    <3>2. SectionAdded(n, prev, GenSection(prev, s), s, S1, E1, D1, lo, hi)
      BY ONLY <3>1, SectionMade
    <3> QED BY <2>3, <3>2
  <2> DEFINE E2 == lo + c[m + 1] * 10
             D2 == hi + w[m + 1]
  <2>9. /\ DOMAIN r.bin = 0..(n - 1) /\ r.section = S1 + 10
        /\ r.entry = E2 /\ r.data = D2
        /\ \A i \in 0..(n - 1) :
              \/ i < E1 /\ i # S1 /\ i # S1 + 8 /\ i # S1 + 9
              \/ hi <= i /\ i < D1
              => r.bin[i] = prev.bin[i]
        /\ SectionIn(r.bin, S1, s, E2, D2, lo, hi)
    BY <2>7, <2>8 DEF SectionAdded
  <2>10. /\ E2 \in Nat /\ D2 \in Nat /\ E1 <= E2 /\ D1 <= D2 /\ E2 <= hi /\ D2 <= n
         /\ S1 >= 4 /\ hi <= n
    <3> DEFINE x == Len(es)
               y == DataWords(es)
    <3>1. /\ E2 = E1 + x * 10 /\ D2 = D1 + y /\ S1 = 4 + m * 10 /\ m \in Nat
          /\ x \in Nat /\ y \in Nat /\ E1 \in Nat /\ D1 \in Nat /\ hi \in Nat
          /\ E1 + x * 10 <= hi /\ hi <= D1 /\ D1 + y <= n /\ n \in Nat
      BY <2>1, <2>5, <2>7 DEF S1
    <3> HIDE DEF E2, D2, x, y
    <3> QED BY ONLY <3>1
  <2> HIDE DEF E2, D2, es
  <2>11. ASSUME NEW i \in 0..3 PROVE r.bin[i] = st.bin[i]
    <3>1. i \in 0..(n - 1) /\ i < E1 /\ i # S1 /\ i # S1 + 8 /\ i # S1 + 9
      BY <2>7, <2>10
    <3>2. prev.bin[i] = st.bin[i]
      BY <2>2 DEF P, prev
    <3> QED BY <2>9, <3>1, <3>2
  <2>12. Kept(prev.bin, r.bin, E1, D1, lo, hi)
    <3>1. \A i \in lo..(E1 - 1) : /\ i \in 0..(n - 1) /\ i < E1
                                 /\ i # S1 /\ i # S1 + 8 /\ i # S1 + 9
      BY <2>7, <2>10
    <3>2. \A i \in hi..(D1 - 1) : i \in 0..(n - 1) /\ hi <= i /\ i < D1
      BY <2>7, <2>10
    <3> QED BY <2>9, <3>1, <3>2 DEF Kept
  <2>13. ASSUME NEW j \in 1..(m + 1)
         PROVE  SectionIn(r.bin, 4 + (j - 1) * 10, t[j], E2, D2, lo, hi)
    <3>1. CASE j = m + 1
      <4>1. 4 + (j - 1) * 10 = S1 /\ t[j] = s
        BY <2>1, <3>1 DEF S1, s
      <4> QED BY <2>9, <4>1
    <3>2. CASE j # m + 1
      <4> DEFINE at == 4 + (j - 1) * 10
                 sj == t[j]
                 old == prev.bin
                 new == r.bin
      <4>0. j \in 1..m /\ j \in DOMAIN t
        BY <1>1, <2>1, <3>2
      <4>1. j \in 1..m /\ IsSection(sj) /\ IsSeq(sj.entries)
        BY <4>0 DEF IsTree
      <4>2. SectionIn(old, at, sj, E1, D1, lo, hi)
        BY <2>2, <4>1 DEF P, E1, D1, prev
      <4>3. at \in Nat /\ at + 10 <= S1
        <5>1. j \in 1..m /\ m \in Nat
          BY <2>1, <4>0
        <5> QED BY ONLY <5>1 DEF S1
      <4> HIDE DEF at, sj
      <4>4. new[at] = old[at] /\ new[at + 8] = old[at + 8] /\ new[at + 9] = old[at + 9]
        <5>1. \A i \in {at, at + 8, at + 9} :
                 i \in 0..(n - 1) /\ i < E1 /\ i # S1 /\ i # S1 + 8 /\ i # S1 + 9
          <6>1. /\ at \in Nat /\ at + 10 <= S1 /\ S1 + 10 <= lo /\ lo <= E1
                /\ E1 <= E2 /\ E2 <= hi /\ hi <= n /\ S1 \in Nat /\ lo \in Nat
                /\ E1 \in Nat /\ E2 \in Nat /\ hi \in Nat /\ n \in Nat
            BY <2>7, <2>10, <4>3
          <6>2. ASSUME NEW i \in Nat, at <= i, i <= at + 9
                PROVE  i \in 0..(n - 1) /\ i < E1 /\ i # S1 /\ i # S1 + 8 /\ i # S1 + 9
            BY ONLY <6>1, <6>2
          <6>3. \A i \in {at, at + 8, at + 9} : i \in Nat /\ at <= i /\ i <= at + 9
            BY ONLY <6>1
          <6> QED BY <6>2, <6>3
        <5> QED BY <2>9, <5>1
      <4>5. /\ IsSection(sj) /\ IsSeq(sj.entries)
            /\ E1 \in Nat /\ D1 \in Nat /\ lo \in Nat /\ hi \in Nat
            /\ E2 \in Nat /\ D2 \in Nat /\ E1 <= E2 /\ D1 <= D2
            /\ Kept(old, new, E1, D1, lo, hi) /\ SectionIn(old, at, sj, E1, D1, lo, hi)
        BY <2>7, <2>10, <2>12, <4>1, <4>2
      <4> HIDE DEF old, new
      <4>6. SectionIn(new, at, sj, E2, D2, lo, hi)
        BY ONLY <4>4, <4>5, SectionKept
      <4> QED BY <4>6 DEF new, at, sj
    <3> QED BY <3>1, <3>2
  <2>14. S1 + 10 = 4 + (m + 1) * 10
    BY <2>1 DEF S1
  <2> QED BY <2>9, <2>11, <2>13, <2>14 DEF P, r, E2, D2
<1> HIDE DEF T
<1>7. T = Nat
  <2>1. T \in SUBSET Nat
    BY DEF T
  <2> QED BY <1>5, <1>6, <2>1, Induct
<1>8. P(len)
  BY <1>1, <1>7 DEF T
<1> QED BY <1>3, <1>4, <1>8 DEF P, len

LEMMA FileMade ==
    ASSUME NEW t, IsTree(t)
    PROVE  Generated(script_generate_bin(t), t)
<1> DEFINE len == Len(t)
           lo == EntryZone(t)
           hi == DataZone(t)
           n == script_bin_size(t)
           blank == [i \in 0..(n - 1) |-> Zero]
           ws == <<Num(len), Num(n), Num(1), Num(2)>>
           head == Put(blank, 0, ws)
           st == Fill(head, 4, lo, hi)
<1>1. len \in Nat
  BY SeqIs DEF IsTree
<1>2. EntryCount(t) \in Nat /\ WordCount(t) \in Nat
  <2>1. PICK c \in [0..len -> Nat], w \in [0..len -> Nat] :
            EntryCount(t) = c[len] /\ WordCount(t) = w[len]
    BY CountsAre
  <2> QED BY <1>1, <2>1
<1>3. lo = 4 + len * 10 /\ hi = lo + EntryCount(t) * 10 /\ n = hi + WordCount(t)
  BY DEF EntryZone, DataZone, script_bin_size, HeadWords, SectionWords, EntryWords
<1>4. script_generate_bin(t) = GenSections(st, t).bin
  BY DEF script_generate_bin, EntryZone, DataZone, HeadWords
<1>5. DOMAIN blank = 0..(n - 1)
  OBVIOUS
<1>6. DOMAIN ws = 1..4 /\ ws[1] = Num(len) /\ ws[3] = Num(1) /\ ws[4] = Num(2)
  OBVIOUS
<1>7. st.bin = head /\ st.section = 4 /\ st.entry = lo /\ st.data = hi
  BY FillIs
<1> HIDE DEF len, lo, hi, n, blank, ws, head, st
<1>8. /\ lo \in Nat /\ hi \in Nat /\ n \in Nat /\ lo <= hi /\ hi <= n /\ 4 <= n
  BY ONLY <1>1, <1>2, <1>3
<1>9. /\ DOMAIN head = 0..(n - 1)
      /\ head[0] = Num(len) /\ head[2] = Num(1) /\ head[3] = Num(2)
  <2>1. PICK k \in Nat, off \in Nat : k = 4 /\ off = 0
    OBVIOUS
  <2>2. /\ n \in Nat /\ DOMAIN blank = 0..(n - 1) /\ off \in Nat /\ k \in Nat
        /\ off + k <= n /\ DOMAIN ws = 1..k
    BY <1>5, <1>6, <1>8, <2>1
  <2>3. /\ DOMAIN Put(blank, off, ws) = 0..(n - 1)
        /\ \A i \in 1..k : Put(blank, off, ws)[off + i - 1] = ws[i]
    <3>1. Stored(n, blank, Put(blank, off, ws), off, k, ws)
      BY ONLY <2>2, PutIs
    <3> QED BY <3>1 DEF Stored
  <2>4. \A i \in 1..4 : head[0 + i - 1] = ws[i]
    BY <2>1, <2>3 DEF head
  <2>5. head[0] = ws[1] /\ head[2] = ws[3] /\ head[3] = ws[4]
    <3>1. 0 = 0 + 1 - 1 /\ 2 = 0 + 3 - 1 /\ 3 = 0 + 4 - 1
      OBVIOUS
    <3>2. 1 \in 1..4 /\ 3 \in 1..4 /\ 4 \in 1..4
      OBVIOUS
    <3> QED BY <2>4, <3>1, <3>2
  <2> QED BY <1>6, <2>1, <2>3, <2>5 DEF head
<1> DEFINE bin == GenSections(st, t).bin
<1>10. /\ DOMAIN bin = 0..(n - 1)
       /\ \A i \in 0..3 : bin[i] = st.bin[i]
       /\ \A j \in 1..len : SectionIn(bin, 4 + (j - 1) * 10, t[j], hi, n, lo, hi)
  <2>1. /\ n \in Nat /\ DOMAIN st.bin = 0..(n - 1) /\ IsTree(t)
        /\ lo \in Nat /\ hi \in Nat /\ lo = 4 + Len(t) * 10
        /\ hi = lo + EntryCount(t) * 10 /\ n = hi + WordCount(t)
        /\ st.section = 4 /\ st.entry = lo /\ st.data = hi
    BY <1>3, <1>7, <1>8, <1>9 DEF len
  <2> QED BY ONLY <2>1, SectionsMade DEF len
<1>11. bin[0] = Num(len) /\ bin[2] = Num(1) /\ bin[3] = Num(2)
  <2>1. 0 \in 0..3 /\ 2 \in 0..3 /\ 3 \in 0..3
    OBVIOUS
  <2> HIDE DEF bin
  <2> QED BY <1>7, <1>9, <1>10, <2>1
<1> HIDE DEF bin
<1>12. script_generate_bin(t) = bin
  BY <1>4 DEF bin
<1>13. \A j \in 1..len :
          SectionIn(bin, HeadWords + (j - 1) * SectionWords, t[j], hi, n, lo, hi)
  BY <1>10 DEF HeadWords, SectionWords
<1> QED BY <1>8, <1>10, <1>11, <1>12, <1>13 DEF Generated, len, n, lo, hi

-----------------------------------------------------------------------------
(* What the decompiler finds. *)

LEMMA BuildIs ==
    ASSUME NEW s, NEW t
    PROVE  Build(s, t).status = s /\ Build(s, t).script = t
BY DEF Build

LEMMA TruncatedIs ==
    ASSUME NEW name \in Names
    PROVE  /\ Truncated(name) \in TreeNames
           /\ name.len > 0 => Truncated(name).len > 0
           /\ name.len <= 31 => Truncated(name) = name
BY DEF Truncated, TreeNames, Names

\* A tree in the making: the sections before, and the one that gets entries.
Open1(t, name, es) == Append(t, [name |-> name, entries |-> es])

LEMMA EntryNew ==
    ASSUME NEW t, IsSeq(t), NEW sn, NEW es, NEW name, NEW type, NEW value,
           name.len # 0 \/ type = "string"
    PROVE  script_entry_new(Build("ok", Open1(t, sn, es)), name, type, value)
             = Build("ok", Open1(t, sn, Append(es, script_entry(name, type, value))))
<1> DEFINE x == script_entry(name, type, value)
           s == [name |-> sn, entries |-> es]
           s2 == [name |-> sn, entries |-> Append(es, x)]
           a == Append(t, s)
           c == Append(t, s2)
           L == Len(t)
<1>1. /\ L \in Nat /\ IsSeq(a) /\ Len(a) = L + 1 /\ IsSeq(c) /\ Len(c) = L + 1
      /\ \A i \in 1..L : a[i] = t[i] /\ c[i] = t[i]
      /\ a[L + 1] = s /\ c[L + 1] = s2
  <2> HIDE DEF s, s2
  <2> QED BY AppendIs, SeqIs
<1>2. DOMAIN a = 1..(L + 1) /\ DOMAIN c = 1..(L + 1)
  <2> HIDE DEF a, c
  <2> QED BY <1>1, SeqIs
<1> HIDE DEF a, c, L
<1>3. [a EXCEPT ![L + 1].entries = Append(@, x)] = [a EXCEPT ![L + 1] = s2]
  <2>1. [s EXCEPT !.entries = Append(@, x)] = s2
    OBVIOUS
  <2> QED BY <1>1, <1>2, <2>1
<1>4. [a EXCEPT ![L + 1] = s2] = c
  <2>1. c = [i \in 1..(L + 1) |-> c[i]]
    <3>1. PICK S : c \in Seq(S)
      BY <1>1 DEF IsSeq
    <3> QED BY <1>2, <3>1
  <2> HIDE DEF s2
  <2>2. ASSUME NEW i \in 1..(L + 1) PROVE c[i] = IF i = L + 1 THEN s2 ELSE a[i]
    <3>1. i = L + 1 \/ i \in 1..L
      BY <1>1
    <3> QED BY <1>1, <3>1
  <2>3. [a EXCEPT ![L + 1] = s2] = [i \in 1..(L + 1) |-> IF i = L + 1 THEN s2 ELSE a[i]]
    BY <1>2
  <2> QED BY <2>1, <2>2, <2>3
<1> HIDE DEF s, s2, x
<1>5. script_entry_new(Build("ok", a), name, type, value)
        = Build("ok", [a EXCEPT ![L + 1].entries = Append(@, x)])
  <2> DEFINE b == Build("ok", a)
  <2>1. b.script = a /\ Len(b.script) = L + 1
    BY <1>1, BuildIs
  <2> HIDE DEF b
  <2>2. script_entry_new(b, name, type, value)
          = Build("ok", [b.script EXCEPT ![Len(b.script)].entries = Append(@, x)])
    BY DEF script_entry_new, x
  <2> QED BY <2>1, <2>2 DEF b
<1> QED BY <1>3, <1>4, <1>5 DEF Open1, a, c, s, s2, x

LEMMA EntryItself ==
    ASSUME NEW e, IsEntry(e)
    PROVE  script_entry(e.name, e.type, e.value) = e
<1>1. e = [name |-> e.name, type |-> e.type, value |-> e.value]
  BY DEF IsEntry
<1>2. e.name \in Names /\ e.name.len <= 31
  BY DEF IsEntry, TreeNames
<1>3. Truncated(e.name) = e.name
  BY <1>2, TruncatedIs
<1> QED BY <1>1, <1>3 DEF script_entry

LEMMA NumIs ==
    ASSUME NEW bin, NEW i \in DOMAIN bin, NEW k, bin[i] = Num(k)
    PROVE  NumAt(bin, i) = k
BY DEF NumAt, Field, Num

LEMMA NameIs ==
    ASSUME NEW bin, NEW i \in DOMAIN bin, NEW name, bin[i] = [name |-> name]
    PROVE  NameAt(bin, i) = name
BY DEF NameAt, Field

LEMMA PatternIs ==
    ASSUME NEW bin, NEW i \in DOMAIN bin, NEW type, NEW words,
           bin[i] = Pattern(type, words)
    PROVE  /\ Field(bin, i, "type", "none") = type
           /\ Field(bin, i, "words", 0) = words
BY DEF Field, Pattern

\* A word of a string: what it holds, and how full it is.
Full(l, k) == IF 4 * k <= l THEN 4 ELSE l % 4
Piece(id, l, k) == [str |-> id, n |-> Full(l, k)]

StrAt(bin, i) == Field(bin, i, "str", "")
FullAt(bin, i) == Field(bin, i, "n", 0)

LEMMA PieceStr ==
    ASSUME NEW bin, NEW i \in DOMAIN bin, NEW id, NEW l, NEW k, bin[i] = Piece(id, l, k)
    PROVE  StrAt(bin, i) = id
BY DEF StrAt, Field, Piece

LEMMA PieceFull ==
    ASSUME NEW bin, NEW i \in DOMAIN bin, NEW id, NEW l, NEW k, bin[i] = Piece(id, l, k)
    PROVE  FullAt(bin, i) = Full(l, k)
BY DEF FullAt, Field, Piece

\* Only the last word of a string may be less than full.
LEMMA FullIs ==
    ASSUME NEW l \in Nat, NEW w \in Nat, l <= 4 * w, 4 * w < l + 4
    PROVE  /\ l % 4 = 0 => l = 4 * w /\ \A k \in 1..w : Full(l, k) = 4
           /\ l % 4 # 0 => /\ w \in 1..w /\ Full(l, w) < 4 /\ Full(l, w) \in Nat
                          /\ l = 4 * (w - 1) + Full(l, w)
                          /\ \A k \in 1..w : k # w => Full(l, k) = 4
<1>1. l % 4 \in 0..3 /\ (l % 4 = 0 => l = 4 * w) /\ (l % 4 # 0 => l = 4 * (w - 1) + (l % 4))
  <2> DEFINE q == l \div 4
             r == l % 4
  <2>1. l = 4 * q + r
    OBVIOUS
  <2>2. q \in Nat /\ r \in 0..3
    OBVIOUS
  <2> HIDE DEF q, r
  <2>3. (r = 0 => l = 4 * w) /\ (r # 0 => l = 4 * (w - 1) + r)
    BY <2>1, <2>2
  <2>4. l % 4 = r
    BY DEF r
  <2> QED BY <2>2, <2>3, <2>4
<1>2. CASE l % 4 = 0
  <2>1. \A k \in 1..w : 4 * k <= l
    BY <1>1, <1>2
  <2> QED BY <1>1, <1>2, <2>1 DEF Full
<1>3. CASE l % 4 # 0
  <2>1. w \in 1..w /\ ~(4 * w <= l) /\ \A k \in 1..w : k # w => 4 * k <= l
    BY <1>1, <1>3
  <2>2. Full(l, w) = l % 4 /\ \A k \in 1..w : k # w => Full(l, k) = 4
    BY <2>1 DEF Full
  <2> QED BY <1>1, <1>3, <2>1, <2>2
<1> QED BY <1>2, <1>3

StringIn(bin, d, id, l) ==
    \A k \in 1..Words(l) : /\ d + k - 1 \in DOMAIN bin
                          /\ bin[d + k - 1] = Piece(id, l, k)

\* The end of a string is the end of its words or in the last one.
LEMMA StringRead ==
    ASSUME NEW bin, NEW d \in Nat, NEW id, NEW l \in Nat,
           StringIn(bin, d, id, l),
           l = 0 => [id |-> id, l |-> l] = NoText
    PROVE  StringAt(bin, d, Words(l)) = [id |-> id, l |-> l]
<1> DEFINE w == Words(l)
           n == [k \in 1..w |-> FullAt(bin, d + k - 1)]
           I == {i \in 1..Len(n) : n[i] < 4}
           full == IF I # {} THEN Min(I) ELSE 0
           m == IF full = 0 THEN 4 * w ELSE 4 * (full - 1) + n[full]
<1>1. w \in Nat /\ l <= 4 * w /\ 4 * w < l + 4
  BY WordsIs
<1>2. \A k \in 1..w : n[k] = Full(l, k)
  BY PieceFull DEF StringIn
<1>3. Len(n) = w
  <2>1. n \in [1..w -> {n[k] : k \in 1..w}]
    OBVIOUS
  <2> HIDE DEF n, w
  <2> QED BY <1>1, <2>1
<1>4. StringAt(bin, d, w)
        = IF m = 0 THEN NoText ELSE [id |-> StrAt(bin, d), l |-> m]
  <2>1. SelectInSeq(n, LAMBDA x : x < 4) = full
    BY DEF SelectInSeq
  <2> QED BY <2>1 DEF StringAt, StrAt, FullAt
<1> HIDE DEF n, w, I
<1>5. m = l
  <2>0. /\ l % 4 = 0 => l = 4 * w /\ \A k \in 1..w : Full(l, k) = 4
        /\ l % 4 # 0 => /\ w \in 1..w /\ Full(l, w) < 4 /\ Full(l, w) \in Nat
                       /\ l = 4 * (w - 1) + Full(l, w)
                       /\ \A k \in 1..w : k # w => Full(l, k) = 4
    BY <1>1, FullIs
  <2>1. CASE l % 4 = 0
    <3>1. \A k \in 1..w : n[k] = 4
      BY <1>2, <2>0, <2>1
    <3>2. I = {}
      BY <1>3, <3>1 DEF I
    <3> QED BY <2>0, <2>1, <3>2
  <2>2. CASE l % 4 # 0
    <3>1. w \in 1..w /\ n[w] = Full(l, w) /\ n[w] < 4 /\ \A k \in 1..w : k # w => n[k] = 4
      BY <1>2, <2>0, <2>2
    <3>2. I = {w}
      BY <1>3, <3>1 DEF I
    <3>3. Min({w}) = w
      BY <1>1 DEF Min
    <3>4. full = w /\ w # 0
      BY <1>1, <3>1, <3>2, <3>3
    <3> QED BY <2>0, <2>2, <3>1, <3>4
  <2> QED BY <2>1, <2>2
<1> HIDE DEF m
<1>6. CASE l = 0
  <2>1. StringAt(bin, d, w) = NoText
    BY <1>4, <1>5, <1>6
  <2> QED BY <1>6, <2>1 DEF w
<1>7. CASE l # 0
  <2>1. 1 \in 1..w /\ d + 1 - 1 = d
    BY <1>1, <1>7
  <2>2. d \in DOMAIN bin /\ bin[d] = Piece(id, l, 1)
    BY <2>1 DEF w, StringIn
  <2>3. StrAt(bin, d) = id
    BY <2>2, PieceStr
  <2> QED BY <1>4, <1>5, <1>7, <2>3 DEF w
<1> QED BY <1>6, <1>7

BankO(e) == e.type = "gpio" /\ e.value.port = GPIO_BANK_MAX + 1

\* The value that the decompiler reads of an entry.
LEMMA ValueRead ==
    ASSUME NEW n \in Nat, NEW bin, DOMAIN bin = 0..(n - 1), NEW e, IsEntry(e),
           NEW d \in Nat, d + Size4(e) <= n,
           \A k \in 1..Size4(e) : bin[d + k - 1] = ValueData(e)[k]
    PROVE  /\ e.type = "single" => NumAt(bin, d) = e.value
           /\ e.type = "string" => StringAt(bin, d, Size4(e)) = e.value
           /\ e.type = "gpio" => /\ NumAt(bin, d) = e.value.port
                                 /\ GpioAt(bin, d) = e.value
           /\ e.type = "null" => e.value = 0
<1>1. Size4(e) \in Nat
  BY ValueIs
<1>2. \A k \in 1..Size4(e) : d + k - 1 \in DOMAIN bin
  BY <1>1
<1>3. e.value \in ValuesOf(e.type)
  BY DEF IsEntry
<1>4. CASE e.type = "single"
  <2>1. Size4(e) = 1 /\ ValueData(e)[1] = Num(e.value)
    BY <1>4, ValueIs
  <2>2. 1 \in 1..Size4(e) /\ d + 1 - 1 = d
    BY <2>1
  <2>3. d \in DOMAIN bin /\ bin[d] = Num(e.value)
    BY <1>2, <2>1, <2>2
  <2> QED BY <1>4, <2>3, NumIs
<1>5. CASE e.type = "string"
  <2> DEFINE l == e.value.l
             id == e.value.id
  <2>1. e.value \in Texts
    BY <1>3, <1>5 DEF ValuesOf
  <2>2. /\ l \in Nat /\ (l = 0 => [id |-> id, l |-> l] = NoText)
        /\ e.value = [id |-> id, l |-> l]
    <3>1. e.value \in [id : STRING, l : Nat] /\ (l = 0 => e.value = NoText)
      BY <2>1 DEF Texts
    <3> QED BY <3>1
  <2>3. Size4(e) = Words(l)
    BY <1>5 DEF Size4, ValueBytes
  <2>4. \A k \in 1..Words(l) :
           ValueData(e)[k] = Piece(id, l, k)
    BY <1>5 DEF ValueData, Piece, Full
  <2> HIDE DEF l, id
  <2>5. StringIn(bin, d, id, l)
    BY <1>2, <2>3, <2>4 DEF StringIn
  <2>6. d \in Nat
    OBVIOUS
  <2>7. StringAt(bin, d, Words(l)) = [id |-> id, l |-> l]
    BY ONLY <2>2, <2>5, <2>6, StringRead
  <2> QED BY <1>5, <2>2, <2>3, <2>7
<1>6. CASE e.type = "gpio"
  <2> DEFINE v == e.value
  <2>1. /\ Size4(e) = 6
        /\ ValueData(e)[1] = Num(v.port) /\ ValueData(e)[2] = Num(v.num)
        /\ \A i \in 1..4 : ValueData(e)[2 + i] = Num(v.data[i])
    BY <1>6, ValueIs
  <2>2. v = [port |-> v.port, num |-> v.num, data |-> [i \in 1..4 |-> v.data[i]]]
    BY <1>3, <1>6 DEF ValuesOf, Gpios
  <2> HIDE DEF v
  <2>3. NumAt(bin, d) = v.port
    <3>1. 1 \in 1..Size4(e) /\ d + 1 - 1 = d
      BY <2>1
    <3>2. d \in DOMAIN bin /\ bin[d] = Num(v.port)
      BY <1>2, <2>1, <3>1
    <3> QED BY <3>2, NumIs
  <2>4. NumAt(bin, d + 1) = v.num
    <3>1. 2 \in 1..Size4(e) /\ d + 2 - 1 = d + 1
      BY <2>1
    <3>2. d + 1 \in DOMAIN bin /\ bin[d + 1] = Num(v.num)
      BY <1>2, <2>1, <3>1
    <3> QED BY <3>2, NumIs
  <2>5. ASSUME NEW i \in 1..4 PROVE NumAt(bin, d + 1 + i) = v.data[i]
    <3>1. 2 + i \in 1..Size4(e) /\ d + (2 + i) - 1 = d + 1 + i
      BY <2>1
    <3>2. d + 1 + i \in DOMAIN bin /\ bin[d + 1 + i] = Num(v.data[i])
      BY <1>2, <2>1, <3>1
    <3> QED BY <3>2, NumIs
  <2>6. GpioAt(bin, d) = v
    BY <2>2, <2>3, <2>4, <2>5 DEF GpioAt
  <2> QED BY <1>6, <2>3, <2>6 DEF v
<1>7. CASE e.type = "null"
  BY <1>3, <1>7 DEF ValuesOf
<1> QED BY <1>4, <1>5, <1>6, <1>7

\* A turn of the loop of decompile_section().
LEMMA EntryRead ==
    ASSUME NEW n \in Nat, NEW bin, DOMAIN bin = 0..(n - 1), NEW e, IsEntry(e),
           NEW at, NEW E \in Nat, NEW D \in Nat, NEW lo \in Nat, NEW hi \in Nat,
           E <= n, D <= n, EntryIn(bin, at, e, E, D, lo, hi),
           NEW t, IsSeq(t), NEW sn, NEW es
    PROVE  decompile_entry(Build("ok", Open1(t, sn, es)), bin, at)
             = IF BankO(e) THEN Build("fail", Open1(t, sn, es))
               ELSE Build("ok", Open1(t, sn, Append(es, e)))
<1> DEFINE w == Size4(e)
           b == Build("ok", Open1(t, sn, es))
<1>1. /\ at \in Nat /\ lo <= at /\ at + 10 <= E
      /\ bin[at] = [name |-> e.name] /\ bin[at + 9] = Pattern(e.type, w)
  BY DEF EntryIn, EntryWords
<1>2. PICK d \in Nat : /\ hi <= d /\ d + w <= D /\ bin[at + 8] = Num(d)
                       /\ \A k \in 1..w : bin[d + k - 1] = ValueData(e)[k]
  BY DEF EntryIn
<1>3. w \in Nat
  BY ValueIs
<1>4. at \in DOMAIN bin /\ at + 8 \in DOMAIN bin /\ at + 9 \in DOMAIN bin
  BY <1>1
<1>5. /\ NameAt(bin, at) = e.name /\ NumAt(bin, at + 8) = d
      /\ Field(bin, at + 9, "type", "none") = e.type
      /\ Field(bin, at + 9, "words", 0) = w
  BY <1>1, <1>2, <1>4, NameIs, NumIs, PatternIs
<1>6. /\ e.type = "single" => NumAt(bin, d) = e.value
      /\ e.type = "string" => StringAt(bin, d, w) = e.value
      /\ e.type = "gpio" => NumAt(bin, d) = e.value.port /\ GpioAt(bin, d) = e.value
      /\ e.type = "null" => e.value = 0
  <2>1. d + w <= n
    BY <1>2, <1>3
  <2> QED BY <1>2, <2>1, ValueRead
<1>7. e.type \in Types /\ (e.name.len # 0 \/ e.type = "string")
  <2>1. e.type \in Types /\ (e.name.len > 0 \/ e.type = "string") /\ e.name.len \in Nat
    BY DEF IsEntry, TreeNames, Names
  <2> QED BY <2>1
<1>8. b.status = "ok" /\ b.script = Open1(t, sn, es)
  BY BuildIs
<1>9. script_entry_new(b, e.name, e.type, e.value) = Build("ok", Open1(t, sn, Append(es, e)))
  <2>1. script_entry(e.name, e.type, e.value) = e
    BY EntryItself
  <2>2. script_entry_new(b, e.name, e.type, e.value)
          = Build("ok", Open1(t, sn, Append(es, script_entry(e.name, e.type, e.value))))
    BY <1>7, EntryNew
  <2> QED BY <2>1, <2>2
<1> HIDE DEF w, b
<1>10. CASE e.type = "single"
  <2>1. decompile_entry(b, bin, at) = script_entry_new(b, e.name, e.type, e.value)
    BY <1>5, <1>6, <1>8, <1>10 DEF decompile_entry
  <2> QED BY <1>9, <1>10, <2>1 DEF BankO, b
<1>11. CASE e.type = "string"
  <2>1. decompile_entry(b, bin, at) = script_entry_new(b, e.name, e.type, e.value)
    BY <1>5, <1>6, <1>8, <1>11 DEF decompile_entry
  <2> QED BY <1>9, <1>11, <2>1 DEF BankO, b
<1>12. CASE e.type = "gpio"
  <2>1. w = 6
    BY <1>12, ValueIs DEF w
  <2>2. decompile_entry(b, bin, at)
          = IF w = 6 /\ e.value.port # PortPower /\ e.value.port \notin 1..GPIO_BANK_MAX
            THEN Build("fail", b.script)
            ELSE script_entry_new(b, e.name, e.type, e.value)
    BY <1>5, <1>6, <1>8, <1>12 DEF decompile_entry
  <2>3. e.value.port = PortPower \/ e.value.port \in 1..(GPIO_BANK_MAX + 1)
    BY <1>12 DEF IsEntry, ValuesOf, Gpios
  <2>4. (e.value.port # PortPower /\ e.value.port \notin 1..GPIO_BANK_MAX)
          <=> e.value.port = GPIO_BANK_MAX + 1
    <3> DEFINE p == e.value.port
    <3>1. p = 65535 \/ p \in 1..15
      BY <2>3 DEF PortPower, GPIO_BANK_MAX
    <3> HIDE DEF p
    <3>2. (p # 65535 /\ p \notin 1..14) <=> p = 15
      BY ONLY <3>1
    <3>3. PortPower = 65535 /\ GPIO_BANK_MAX = 14 /\ GPIO_BANK_MAX + 1 = 15
      BY DEF PortPower, GPIO_BANK_MAX
    <3> QED BY <3>2, <3>3 DEF p
  <2> QED BY <1>8, <1>9, <1>12, <2>1, <2>2, <2>4 DEF BankO, b
<1>13. CASE e.type = "null"
  <2>1. e.name.len # 0
    BY <1>7, <1>13
  <2>2. decompile_entry(b, bin, at) = script_entry_new(b, e.name, e.type, e.value)
    BY <1>5, <1>6, <1>8, <1>13, <2>1 DEF decompile_entry
  <2> QED BY <1>9, <1>13, <2>2 DEF BankO, b
<1> QED BY <1>7, <1>10, <1>11, <1>12, <1>13 DEF Types

\* Once it has failed, the loop goes no further.
LEMMA EntryFailed ==
    ASSUME NEW b, b.status # "ok", NEW bin, NEW at
    PROVE  decompile_entry(b, bin, at) = b
BY DEF decompile_entry

EntriesFound(r, t, sn, es) ==
    IF \E j \in 1..Len(es) : BankO(es[j]) THEN r.status = "fail"
    ELSE r = Build("ok", Open1(t, sn, es))

LEMMA EntriesRead ==
    ASSUME NEW n \in Nat, NEW bin, DOMAIN bin = 0..(n - 1), NEW o,
           NEW es, IsSeq(es), \A j \in DOMAIN es : IsEntry(es[j]),
           NEW E \in Nat, NEW D \in Nat, NEW lo \in Nat, NEW hi \in Nat,
           E <= n, D <= n,
           \A j \in 1..Len(es) :
              EntryIn(bin, o + (j - 1) * EntryWords, es[j], E, D, lo, hi),
           NEW t, IsSeq(t), NEW sn
    PROVE  EntriesFound(
              decompile_entries(Build("ok", Open1(t, sn, <<>>)), bin, o, Len(es)),
              t, sn, es)
<1> DEFINE len == Len(es)
           b0 == Build("ok", Open1(t, sn, <<>>))
<1>1. len \in Nat /\ DOMAIN es = 1..len
  BY SeqIs
<1>2. PICK f : /\ f[0] = b0
               /\ \A i \in 1..len : f[i] = decompile_entry(f[i - 1], bin, o + (i - 1) * EntryWords)
               /\ decompile_entries(b0, bin, o, len) = f[len]
  <2> HIDE DEF len, b0
  <2> QED BY ONLY <1>1, DecIs
<1>3. SubSeq(es, 1, 0) = <<>> /\ SubSeq(es, 1, len) = es
  BY WholeIs
<1> DEFINE Bad(m) == \E j \in 1..m : BankO(es[j])
           P(m) == IF Bad(m) THEN f[m].status = "fail"
                   ELSE f[m] = Build("ok", Open1(t, sn, SubSeq(es, 1, m)))
           T == {m \in Nat : m <= len => P(m)}
<1> HIDE DEF len
<1>4. 0 \in T
  <2>1. ~Bad(0)
    OBVIOUS
  <2>2. P(0)
    BY <1>2, <1>3, <2>1
  <2> QED BY <2>2
<1> HIDE DEF P, Bad, b0
<1>5. ASSUME NEW m \in T PROVE m + 1 \in T
  <2> SUFFICES ASSUME m + 1 <= len PROVE P(m + 1)
    OBVIOUS
  <2>1. m \in Nat /\ m <= len /\ m + 1 \in 1..len /\ (m + 1) - 1 = m
    BY <1>1
  <2>2. P(m)
    BY <2>1
  <2> DEFINE at == o + m * EntryWords
             e == es[m + 1]
             fr == SubSeq(es, 1, m)
  <2>3. f[m + 1] = decompile_entry(f[m], bin, at) /\ IsEntry(e)
        /\ EntryIn(bin, at, e, E, D, lo, hi)
    BY <1>1, <1>2, <2>1 DEF len
  <2>4. Bad(m + 1) <=> Bad(m) \/ BankO(e)
    <3>1. \A j : j \in 1..(m + 1) <=> j \in 1..m \/ j = m + 1
      BY <2>1
    <3> QED BY <3>1 DEF Bad
  <2>5. CASE Bad(m)
    <3>1. f[m].status = "fail"
      BY <2>2, <2>5 DEF P
    <3>2. f[m + 1] = f[m]
      BY <2>3, <3>1, EntryFailed
    <3> QED BY <2>4, <2>5, <3>1, <3>2 DEF P
  <2>6. CASE ~Bad(m)
    <3>1. f[m] = Build("ok", Open1(t, sn, fr))
      BY <2>2, <2>6 DEF P
    <3>2. decompile_entry(Build("ok", Open1(t, sn, fr)), bin, at)
             = IF BankO(e) THEN Build("fail", Open1(t, sn, fr))
               ELSE Build("ok", Open1(t, sn, Append(fr, e)))
      <4>1. /\ n \in Nat /\ DOMAIN bin = 0..(n - 1) /\ IsEntry(e)
            /\ E \in Nat /\ D \in Nat /\ lo \in Nat /\ hi \in Nat
            /\ E <= n /\ D <= n /\ EntryIn(bin, at, e, E, D, lo, hi) /\ IsSeq(t)
        BY <2>3
      <4> HIDE DEF at, e, fr
      <4> QED BY ONLY <4>1, EntryRead
    <3>3. Append(fr, e) = SubSeq(es, 1, m + 1)
      <4>1. m + 1 \in 1..Len(es)
        BY <2>1 DEF len
      <4> QED BY <2>1, <4>1, FrontGrows
    <3>4. f[m + 1] = IF BankO(e) THEN Build("fail", Open1(t, sn, fr))
                     ELSE Build("ok", Open1(t, sn, SubSeq(es, 1, m + 1)))
      BY <2>3, <3>1, <3>2, <3>3
    <3> HIDE DEF e, fr
    <3>5. CASE BankO(e)
      BY <2>4, <3>4, <3>5, BuildIs DEF P
    <3>6. CASE ~BankO(e)
      BY <2>4, <2>6, <3>4, <3>6 DEF P
    <3> QED BY <3>5, <3>6
  <2> QED BY <2>5, <2>6
<1> HIDE DEF T
<1>6. T = Nat
  <2>1. T \in SUBSET Nat
    BY DEF T
  <2> QED BY <1>4, <1>5, <2>1, Induct
<1>7. P(len)
  BY <1>1, <1>6 DEF T
<1>8. IF Bad(len) THEN f[len].status = "fail" ELSE f[len] = Build("ok", Open1(t, sn, es))
  BY <1>3, <1>7 DEF P
<1> QED BY <1>2, <1>8 DEF Bad, len, b0, EntriesFound

SectionBankO(s) == \E j \in 1..Len(s.entries) : BankO(s.entries[j])

LEMMA SectionRead ==
    ASSUME NEW n \in Nat, NEW bin, DOMAIN bin = 0..(n - 1),
           NEW s, IsSection(s), IsSeq(s.entries),
           NEW E \in Nat, NEW D \in Nat, NEW lo \in Nat, NEW hi \in Nat,
           E <= n, D <= n, NEW at \in Nat, at + 10 <= n,
           SectionIn(bin, at, s, E, D, lo, hi), NEW t, IsSeq(t)
    PROVE  LET r == decompile_section(Build("ok", t), bin, n, at)
           IN  IF SectionBankO(s) THEN r.status = "fail"
               ELSE r = Build("ok", Append(t, s))
<1> DEFINE es == s.entries
           len == Len(es)
           b == Build("ok", t)
<1>1. /\ bin[at] = [name |-> s.name] /\ bin[at + 8] = Num(len)
  BY DEF SectionIn
<1>2. PICK o \in Nat :
          /\ lo <= o /\ o + len * EntryWords <= E
          /\ bin[at + 9] = Num(o)
          /\ \A j \in 1..len :
                EntryIn(bin, o + (j - 1) * EntryWords, es[j], E, D, lo, hi)
  BY DEF SectionIn
<1>3. IsSeq(es) /\ len \in Nat /\ \A j \in DOMAIN es : IsEntry(es[j])
  BY SeqIs DEF IsSection
<1>4. at \in DOMAIN bin /\ at + 8 \in DOMAIN bin /\ at + 9 \in DOMAIN bin
  OBVIOUS
<1>5. NameAt(bin, at) = s.name /\ NumAt(bin, at + 8) = len /\ NumAt(bin, at + 9) = o
  BY <1>1, <1>2, <1>4, NameIs, NumIs
<1>6. ~(o > n) /\ ~(len > (n - o) \div EntryWords)
  <2>1. /\ len \in Nat /\ o \in Nat /\ n \in Nat /\ E \in Nat
        /\ o + len * 10 <= E /\ E <= n
    BY <1>2, <1>3 DEF EntryWords
  <2> HIDE DEF len
  <2>2. o + len * 10 <= n
    BY ONLY <2>1
  <2>3. PICK q \in Nat, r \in 0..9 : n - o = 10 * q + r /\ q = (n - o) \div 10
    <3>1. n - o \in Nat
      BY ONLY <2>1, <2>2
    <3> DEFINE x == n - o
    <3> HIDE DEF x
    <3>2. x = 10 * (x \div 10) + (x % 10) /\ x \div 10 \in Nat /\ x % 10 \in 0..9
      BY <3>1 DEF x
    <3> QED BY <3>2 DEF x
  <2>4. len <= q
    BY ONLY <2>1, <2>2, <2>3
  <2>5. len <= (n - o) \div EntryWords /\ (n - o) \div EntryWords \in Nat
    BY <2>3, <2>4 DEF EntryWords
  <2> QED BY <2>1, <2>2, <2>5
<1>7. b.status = "ok" /\ b.script = t
  BY BuildIs
<1>8. script_section_new(b, s.name) = Build("ok", Open1(t, s.name, <<>>))
  <2>1. s.name \in Names /\ s.name.len <= 31 /\ s.name.len > 0 /\ s.name.len \in Nat
    BY DEF IsSection, TreeNames, Names
  <2>2. Truncated(s.name) = s.name /\ s.name.len # 0
    BY <2>1, TruncatedIs
  <2> HIDE DEF b
  <2> QED BY <1>7, <2>2 DEF script_section_new, script_section, Open1
<1>9. decompile_section(b, bin, n, at)
        = decompile_entries(Build("ok", Open1(t, s.name, <<>>)), bin, o, len)
  <2> HIDE DEF b, len
  <2> QED BY <1>5, <1>6, <1>7, <1>8 DEF decompile_section
<1>10. EntriesFound(
          decompile_entries(Build("ok", Open1(t, s.name, <<>>)), bin, o, Len(es)),
          t, s.name, es)
  <2> DEFINE sn == s.name
  <2>1. /\ n \in Nat /\ DOMAIN bin = 0..(n - 1) /\ IsSeq(es)
        /\ (\A j \in DOMAIN es : IsEntry(es[j]))
        /\ E \in Nat /\ D \in Nat /\ lo \in Nat /\ hi \in Nat /\ E <= n /\ D <= n
        /\ (\A j \in 1..Len(es) :
              EntryIn(bin, o + (j - 1) * EntryWords, es[j], E, D, lo, hi))
        /\ IsSeq(t)
    BY <1>2, <1>3
  <2> HIDE DEF es, sn
  <2>2. EntriesFound(
           decompile_entries(Build("ok", Open1(t, sn, <<>>)), bin, o, Len(es)),
           t, sn, es)
    BY ONLY <2>1, EntriesRead
  <2> QED BY <2>2 DEF sn
<1>11. Open1(t, s.name, es) = Append(t, s)
  <2>1. s = [name |-> s.name, entries |-> es]
    BY DEF IsSection
  <2> QED BY <2>1 DEF Open1
<1>12. SectionBankO(s) <=> \E j \in 1..Len(es) : BankO(es[j])
  BY DEF SectionBankO
<1> QED BY <1>9, <1>10, <1>11, <1>12 DEF EntriesFound

LEMMA SectionFailed ==
    ASSUME NEW b, b.status # "ok", NEW bin, NEW size, NEW at
    PROVE  decompile_section(b, bin, size, at) = b
BY DEF decompile_section

TreeBankO(t) == \E i \in 1..Len(t) : SectionBankO(t[i])

LEMMA SectionsRead ==
    ASSUME NEW t, IsTree(t), NEW bin, Generated(bin, t)
    PROVE  LET r == decompile_sections(bin, script_bin_size(t), Len(t))
           IN  IF TreeBankO(t) THEN r.status = "fail" ELSE r = Build("ok", t)
<1> DEFINE len == Len(t)
           n == script_bin_size(t)
           lo == EntryZone(t)
           hi == DataZone(t)
<1>1. IsSeq(t) /\ len \in Nat /\ DOMAIN t = 1..len
  BY SeqIs DEF IsTree
<1>2. /\ n \in Nat /\ lo \in Nat /\ hi \in Nat /\ lo <= hi /\ hi <= n
      /\ DOMAIN bin = 0..(n - 1)
      /\ \A j \in 1..len : SectionIn(bin, HeadWords + (j - 1) * SectionWords, t[j],
                                     hi, n, lo, hi)
  BY DEF Generated
<1>3. lo = 4 + len * 10
  BY DEF EntryZone, HeadWords, SectionWords
<1> HIDE DEF n, lo, hi
<1>4. PICK f : /\ f[0] = Build("ok", <<>>)
               /\ \A i \in 1..len : f[i] = decompile_section(f[i - 1], bin, n,
                                              HeadWords + (i - 1) * SectionWords)
               /\ decompile_sections(bin, n, len) = f[len]
  <2> HIDE DEF len
  <2> QED BY ONLY <1>1, DecSecIs
<1>5. SubSeq(t, 1, 0) = <<>> /\ SubSeq(t, 1, len) = t
  BY <1>1, WholeIs
<1> DEFINE Bad(m) == \E i \in 1..m : SectionBankO(t[i])
           P(m) == IF Bad(m) THEN f[m].status = "fail"
                   ELSE f[m] = Build("ok", SubSeq(t, 1, m))
           T == {m \in Nat : m <= len => P(m)}
<1> HIDE DEF len
<1>6. 0 \in T
  <2>1. ~Bad(0)
    OBVIOUS
  <2>2. P(0)
    BY <1>4, <1>5, <2>1
  <2> QED BY <2>2
<1> HIDE DEF P, Bad
<1>7. ASSUME NEW m \in T PROVE m + 1 \in T
  <2> SUFFICES ASSUME m + 1 <= len PROVE P(m + 1)
    OBVIOUS
  <2>1. m \in Nat /\ m <= len /\ m + 1 \in 1..len /\ (m + 1) - 1 = m /\ m \in 0..len
    BY <1>1
  <2>2. P(m)
    BY <2>1
  <2> DEFINE at == HeadWords + m * SectionWords
             s == t[m + 1]
             fr == SubSeq(t, 1, m)
  <2>3. /\ f[m + 1] = decompile_section(f[m], bin, n, at)
        /\ SectionIn(bin, at, s, hi, n, lo, hi)
    BY <1>2, <1>4, <2>1
  <2>4. IsSection(s) /\ IsSeq(s.entries)
    BY <1>1, <2>1 DEF IsTree
  <2>5. at \in Nat /\ at + 10 <= n
    <3>1. /\ m \in Nat /\ len \in Nat /\ m + 1 <= len /\ lo = 4 + len * 10 /\ lo <= hi
          /\ hi <= n /\ lo \in Nat /\ hi \in Nat /\ n \in Nat
      BY <1>1, <1>2, <1>3, <2>1
    <3> QED BY ONLY <3>1 DEF HeadWords, SectionWords
  <2>6. IsSeq(fr)
    BY <1>1, <2>1, FrontIs DEF len
  <2>7. Bad(m + 1) <=> Bad(m) \/ SectionBankO(s)
    <3>1. \A j : j \in 1..(m + 1) <=> j \in 1..m \/ j = m + 1
      BY <2>1
    <3> QED BY <3>1 DEF Bad
  <2> HIDE DEF at
  <2>8. CASE Bad(m)
    <3>1. f[m].status = "fail"
      BY <2>2, <2>8 DEF P
    <3>2. f[m + 1] = f[m]
      BY <2>3, <3>1, SectionFailed
    <3> QED BY <2>7, <2>8, <3>1, <3>2 DEF P
  <2>9. CASE ~Bad(m)
    <3>1. f[m] = Build("ok", fr)
      BY <2>2, <2>9 DEF P
    <3>2. LET r == decompile_section(Build("ok", fr), bin, n, at)
          IN  IF SectionBankO(s) THEN r.status = "fail"
              ELSE r = Build("ok", Append(fr, s))
      <4>1. /\ n \in Nat /\ DOMAIN bin = 0..(n - 1) /\ IsSection(s) /\ IsSeq(s.entries)
            /\ lo \in Nat /\ hi \in Nat /\ hi <= n /\ n <= n
            /\ at \in Nat /\ at + 10 <= n
            /\ SectionIn(bin, at, s, hi, n, lo, hi) /\ IsSeq(fr)
        BY <1>2, <2>3, <2>4, <2>5, <2>6
      <4> HIDE DEF s, fr
      <4> QED BY ONLY <4>1, SectionRead
    <3>3. Append(fr, s) = SubSeq(t, 1, m + 1)
      <4>1. m + 1 \in 1..Len(t)
        BY <2>1 DEF len
      <4> QED BY <1>1, <2>1, <4>1, FrontGrows
    <3>4. IF SectionBankO(s) THEN f[m + 1].status = "fail"
          ELSE f[m + 1] = Build("ok", SubSeq(t, 1, m + 1))
      BY <2>3, <3>1, <3>2, <3>3
    <3> HIDE DEF s, fr
    <3> QED BY <2>7, <2>9, <3>4 DEF P
  <2> QED BY <2>8, <2>9
<1> HIDE DEF T
<1>8. T = Nat
  <2>1. T \in SUBSET Nat
    BY DEF T
  <2> QED BY <1>6, <1>7, <2>1, Induct
<1>9. P(len)
  BY <1>1, <1>8 DEF T
<1>10. IF Bad(len) THEN f[len].status = "fail" ELSE f[len] = Build("ok", t)
  BY <1>5, <1>9 DEF P
<1> QED BY <1>4, <1>10 DEF Bad, len, n, TreeBankO

(***************************************************************************)
(* The decompiler finds the tree in the file that the generator made of    *)
(* it, unless it refuses it for a port in bank O or too many sections.     *)
(***************************************************************************)
LEMMA Decompiled ==
    ASSUME NEW t, IsTree(t)
    PROVE  LET r == script_decompile_bin(script_generate_bin(t), script_bin_size(t))
           IN  IF Len(t) > SCRIPT_BIN_SECTION_LIMIT \/ TreeBankO(t)
               THEN r.status = "fail" ELSE r = Build("ok", t)
<1> DEFINE bin == script_generate_bin(t)
           n == script_bin_size(t)
<1>1. Generated(bin, t)
  BY FileMade
<1> HIDE DEF bin
<1>2. /\ n \in Nat /\ DOMAIN bin = 0..(n - 1)
      /\ bin[0] = Num(Len(t)) /\ bin[2] = Num(1) /\ bin[3] = Num(2) /\ 4 <= n
  <2>1. /\ n \in Nat /\ DOMAIN bin = 0..(n - 1) /\ EntryZone(t) \in Nat
        /\ bin[0] = Num(Len(t)) /\ bin[2] = Num(1) /\ bin[3] = Num(2)
        /\ EntryZone(t) <= DataZone(t) /\ DataZone(t) <= n /\ DataZone(t) \in Nat
    BY <1>1 DEF Generated
  <2>2. EntryZone(t) >= 4
    <3>1. Len(t) \in Nat
      BY SeqIs DEF IsTree
    <3> QED BY <3>1 DEF EntryZone, HeadWords, SectionWords
  <2> HIDE DEF n
  <2> QED BY <2>1, <2>2
<1> HIDE DEF n
<1>3. 0 \in DOMAIN bin /\ 2 \in DOMAIN bin /\ 3 \in DOMAIN bin
  BY <1>2
<1>4. NumAt(bin, 0) = Len(t) /\ NumAt(bin, 2) = 1 /\ NumAt(bin, 3) = 2
  BY <1>2, <1>3, NumIs
<1>5. ~ \E i \in {2, 3} : NumAt(bin, i) > SCRIPT_BIN_VERSION_LIMIT
  BY <1>4 DEF SCRIPT_BIN_VERSION_LIMIT
<1>6. script_decompile_bin(bin, n)
        = IF Len(t) > SCRIPT_BIN_SECTION_LIMIT THEN Build("fail", <<>>)
          ELSE decompile_sections(bin, n, Len(t))
  BY <1>4, <1>5 DEF script_decompile_bin
<1>7. LET r == decompile_sections(bin, n, Len(t))
      IN  IF TreeBankO(t) THEN r.status = "fail" ELSE r = Build("ok", t)
  BY <1>1, SectionsRead DEF n
<1>8. Build("fail", <<>>).status = "fail"
  BY BuildIs
<1>9. CASE Len(t) > SCRIPT_BIN_SECTION_LIMIT
  BY <1>6, <1>8, <1>9 DEF bin, n
<1>10. CASE ~(Len(t) > SCRIPT_BIN_SECTION_LIMIT)
  BY <1>6, <1>7, <1>10 DEF bin, n
<1> QED BY <1>9, <1>10

-----------------------------------------------------------------------------
(* What the parser builds. *)

LEMMA ModIs ==
    ASSUME NEW x \in Int
    PROVE  x % WORD \in 0..(WORD - 1)
BY WordAssumption

LEMMA EntryOk ==
    ASSUME NEW name \in Names, NEW type \in Types, NEW value \in ValuesOf(type),
           name.len # 0 \/ type = "string"
    PROVE  IsEntry(script_entry(name, type, value))
<1> DEFINE e == script_entry(name, type, value)
<1>1. e.name = Truncated(name) /\ e.type = type /\ e.value = value
      /\ e = [name |-> e.name, type |-> e.type, value |-> e.value]
  BY DEF script_entry
<1>2. Truncated(name) \in TreeNames /\ (name.len > 0 => Truncated(name).len > 0)
  BY TruncatedIs
<1>3. name.len \in Nat
  BY DEF Names
<1> HIDE DEF e
<1>4. e.name.len > 0 \/ e.type = "string"
  BY <1>1, <1>2, <1>3
<1> QED BY <1>1, <1>2, <1>4 DEF IsEntry, e

\* A section in the making.
IsOpen(t, sn, es) ==
    /\ IsTree(t) /\ sn \in TreeNames /\ sn.len > 0
    /\ IsSeq(es) /\ \A j \in DOMAIN es : IsEntry(es[j])

LEMMA OpenIsTree ==
    ASSUME NEW t, NEW sn, NEW es, IsOpen(t, sn, es)
    PROVE  IsTree(Open1(t, sn, es)) /\ Open1(t, sn, es) # <<>>
<1> DEFINE s == [name |-> sn, entries |-> es]
           a == Append(t, s)
           L == Len(t)
<1>1. IsSection(s) /\ IsSeq(s.entries)
  BY DEF IsOpen, IsSection
<1> HIDE DEF s
<1>2. IsSeq(t) /\ L \in Nat /\ DOMAIN t = 1..L
  BY SeqIs DEF IsOpen, IsTree
<1>3. /\ IsSeq(a) /\ Len(a) = L + 1 /\ (\A i \in 1..L : a[i] = t[i]) /\ a[L + 1] = s
  BY <1>2, AppendIs
<1> HIDE DEF a
<1>4. DOMAIN a = 1..(L + 1)
  BY <1>3, SeqIs
<1>5. \A i \in DOMAIN t : IsSection(t[i]) /\ IsSeq(t[i].entries)
  BY DEF IsOpen, IsTree
<1> HIDE DEF L
<1>6. ASSUME NEW i \in DOMAIN a PROVE IsSection(a[i]) /\ IsSeq(a[i].entries)
  <2>1. i \in 1..L \/ i = L + 1
    BY <1>2, <1>4
  <2> QED BY <1>1, <1>2, <1>3, <1>5, <2>1
<1>7. a # <<>>
  BY <1>2, <1>3
<1> QED BY <1>3, <1>6, <1>7 DEF IsTree, Open1, a, s

LEMMA OpenTree ==
    ASSUME NEW t, IsTree(t), t # <<>>
    PROVE  \E u, sn, es : IsOpen(u, sn, es) /\ t = Open1(u, sn, es)
<1> DEFINE L == Len(t)
           s == t[L]
           u == SubSeq(t, 1, L - 1)
<1>1. IsSeq(t) /\ L \in Nat /\ DOMAIN t = 1..L
  BY SeqIs DEF IsTree
<1>2. L # 0
  <2>1. PICK S : t \in Seq(S)
    BY <1>1 DEF IsSeq
  <2> QED BY <2>1
<1>3. L \in 1..L /\ L - 1 \in 0..L
  BY <1>1, <1>2
<1>4. IsSection(s) /\ IsSeq(s.entries)
  BY <1>1, <1>3 DEF IsTree
<1>5. t = Append(u, s)
  BY <1>1, <1>3, FrontGrows, WholeIs
<1>6. IsSeq(u) /\ Len(u) = L - 1 /\ \A i \in 1..(L - 1) : u[i] = t[i]
  BY <1>1, <1>3, FrontIs
<1> HIDE DEF u
<1>7. IsTree(u)
  <2>1. DOMAIN u = 1..(L - 1)
    BY <1>6, SeqIs
  <2>2. \A i \in 1..(L - 1) : i \in DOMAIN t
    BY <1>1
  <2> QED BY <1>6, <2>1, <2>2 DEF IsTree
<1> HIDE DEF s
<1>8. IsOpen(u, s.name, s.entries)
  BY <1>4, <1>7 DEF IsOpen, IsSection
<1>9. t = Open1(u, s.name, s.entries)
  BY <1>4, <1>5 DEF Open1, IsSection
<1> QED BY <1>8, <1>9

IsBuilt(b) == b = Build(b.status, b.script) /\ IsTree(b.script)

LEMMA FailBuilt ==
    ASSUME NEW b, IsBuilt(b), NEW st
    PROVE  IsBuilt(Build(st, b.script))
BY BuildIs DEF IsBuilt

LEMMA NewEntryBuilt ==
    ASSUME NEW b, IsBuilt(b), b.status = "ok", b.script # <<>>,
           NEW name \in Names, NEW type \in Types, NEW value \in ValuesOf(type)
    PROVE  IsBuilt(script_entry_new(b, name, type, value))
<1>1. CASE name.len = 0 /\ type # "string"
  <2>1. script_entry_new(b, name, type, value) = Build("abort", b.script)
    BY <1>1 DEF script_entry_new
  <2> QED BY <2>1, FailBuilt
<1>2. CASE name.len # 0 \/ type = "string"
  <2>1. PICK u, sn, es : IsOpen(u, sn, es) /\ b.script = Open1(u, sn, es)
    BY OpenTree DEF IsBuilt
  <2> DEFINE x == script_entry(name, type, value)
             es2 == Append(es, x)
  <2>2. b = Build("ok", Open1(u, sn, es)) /\ IsSeq(u)
    BY <2>1 DEF IsBuilt, IsOpen, IsTree
  <2>3. script_entry_new(b, name, type, value) = Build("ok", Open1(u, sn, es2))
    BY <1>2, <2>2, EntryNew
  <2>4. IsEntry(x)
    BY <1>2, EntryOk
  <2> HIDE DEF x
  <2>5. IsSeq(es2) /\ \A j \in DOMAIN es2 : IsEntry(es2[j])
    <3>1. /\ IsSeq(es) /\ Len(es) \in Nat /\ DOMAIN es = 1..Len(es)
          /\ \A j \in DOMAIN es : IsEntry(es[j])
      BY <2>1, SeqIs DEF IsOpen
    <3>2. /\ IsSeq(es2) /\ Len(es2) = Len(es) + 1
          /\ (\A j \in 1..Len(es) : es2[j] = es[j]) /\ es2[Len(es) + 1] = x
      BY <3>1, AppendIs
    <3> HIDE DEF es2
    <3>3. DOMAIN es2 = 1..(Len(es) + 1)
      BY <3>2, SeqIs
    <3>4. ASSUME NEW j \in DOMAIN es2 PROVE IsEntry(es2[j])
      <4>1. j \in 1..Len(es) \/ j = Len(es) + 1
        BY <3>1, <3>3
      <4> QED BY <2>4, <3>1, <3>2, <4>1
    <3> QED BY <3>2, <3>4
  <2> HIDE DEF es2
  <2>6. IsTree(Open1(u, sn, es2))
    <3>1. IsOpen(u, sn, es2)
      BY <2>1, <2>5 DEF IsOpen
    <3> QED BY <3>1, OpenIsTree
  <2> QED BY <2>3, <2>6, BuildIs DEF IsBuilt
<1> QED BY <1>1, <1>2

LEMMA GpioOk ==
    ASSUME NEW val, val.data \in Seq(Int), PortAccepted(val)
    PROVE  [port |-> val.port, num |-> val.num, data |-> PortData(val)] \in Gpios
<1>1. /\ val.port = 65535 \/ val.port \in 1..15
      /\ val.num \in 0..255
      /\ \A i \in DOMAIN val.data : val.data[i] \in -1..IntMax
  BY DEF PortAccepted, PortPower, GPIO_BANK_MAX
<1>2. val.port \in Nat
  BY <1>1
<1>3. -1 \in -1..IntMax
  BY WordAssumption DEF IntMax
<1>4. PortData(val) \in [1..4 -> -1..IntMax]
  BY <1>1, <1>3 DEF PortData
<1> QED BY <1>1, <1>2, <1>4 DEF Gpios, PortPower, GPIO_BANK_MAX

LEMMA ParseKeyBuilt ==
    ASSUME NEW b, IsBuilt(b), b.status = "ok", b.script # <<>>,
           NEW name \in Names, NEW val \in Values
    PROVE  IsBuilt(ParseKey(b, name, val))
<1>1. CASE val \in [v : {"null"}]
  <2>1. ParseKey(b, name, val) = script_entry_new(b, name, "null", 0)
    BY <1>1 DEF ParseKey
  <2>2. "null" \in Types /\ 0 \in ValuesOf("null")
    BY DEF Types, ValuesOf
  <2> QED BY <2>1, <2>2, NewEntryBuilt
<1>2. CASE val \in [v : {"text"}, text : Texts, spare : Nat]
  <2>1. ParseKey(b, name, val) = script_entry_new(b, name, "string", val.text)
    BY <1>2 DEF ParseKey
  <2>2. "string" \in Types /\ val.text \in ValuesOf("string")
    <3>1. ValuesOf("string") = Texts
      BY DEF ValuesOf
    <3> QED BY <1>2, <3>1 DEF Types
  <2> QED BY <2>1, <2>2, NewEntryBuilt
<1>3. CASE val \in [v : {"int", "intjunk"}, n : Int]
  <2>1. \/ ParseKey(b, name, val) = script_entry_new(b, name, "single", val.n % WORD)
        \/ ParseKey(b, name, val) = Build("fail", b.script)
    BY <1>3 DEF ParseKey, ParseKeyInt
  <2>2. "single" \in Types /\ val.n % WORD \in ValuesOf("single")
    <3>1. ValuesOf("single") = 0..(WORD - 1)
      BY DEF ValuesOf
    <3>2. val.n % WORD \in 0..(WORD - 1)
      BY <1>3, ModIs
    <3> QED BY <3>1, <3>2 DEF Types
  <2> DEFINE x == val.n % WORD
  <2> HIDE DEF x
  <2>3. /\ \/ ParseKey(b, name, val) = script_entry_new(b, name, "single", x)
           \/ ParseKey(b, name, val) = Build("fail", b.script)
        /\ "single" \in Types /\ x \in ValuesOf("single")
    BY <2>1, <2>2 DEF x
  <2> QED BY <2>3, NewEntryBuilt, FailBuilt
<1>4. CASE val \in [v : {"port"}, port : Int, num : Int, data : Seq(Int)]
  <2> DEFINE g == [port |-> val.port, num |-> val.num, data |-> PortData(val)]
  <2>1. \/ PortAccepted(val) /\ ParseKey(b, name, val) = script_entry_new(b, name, "gpio", g)
        \/ ParseKey(b, name, val) = Build("fail", b.script)
    BY <1>4 DEF ParseKey
  <2>2. PortAccepted(val) => g \in Gpios
    BY <1>4, GpioOk
  <2>3. "gpio" \in Types /\ Gpios = ValuesOf("gpio")
    BY DEF Types, ValuesOf
  <2> HIDE DEF g
  <2> QED BY <2>1, <2>2, <2>3, NewEntryBuilt, FailBuilt
<1> QED BY <1>1, <1>2, <1>3, <1>4 DEF Values

LEMMA ParsePieceBuilt ==
    ASSUME NEW b, IsBuilt(b), NEW ln \in Lines
    PROVE  IsBuilt(ParsePiece(b, ln))
<1>1. CASE b.status # "ok" \/ ln.line = "nothing"
  BY <1>1 DEF ParsePiece
<1>2. CASE b.status = "ok" /\ ln \in [line : {"section"}, name : Names, form : STRING]
  <2>1. \/ ParsePiece(b, ln) = script_section_new(b, ln.name)
        \/ ParsePiece(b, ln) = Build("fail", b.script)
    BY <1>2 DEF ParsePiece
  <2> DEFINE name == ln.name
             sn == Truncated(name)
  <2>2. name \in Names /\ name.len \in Nat
    BY <1>2 DEF Names
  <2>3. \/ script_section_new(b, name) = Build("abort", b.script)
        \/ name.len # 0 /\ script_section_new(b, name) = Build("ok", Open1(b.script, sn, <<>>))
    BY DEF script_section_new, script_section, Open1
  <2>4. CASE name.len # 0 /\ script_section_new(b, name) = Build("ok", Open1(b.script, sn, <<>>))
    <3>1. sn \in TreeNames /\ sn.len > 0
      BY <2>2, <2>4, TruncatedIs
    <3>2. <<>> \in Seq({}) /\ DOMAIN <<>> = {}
      OBVIOUS
    <3>3. IsOpen(b.script, sn, <<>>)
      BY <3>1, <3>2 DEF IsOpen, IsSeq, IsBuilt
    <3>4. IsTree(Open1(b.script, sn, <<>>))
      BY <3>3, OpenIsTree
    <3> HIDE DEF sn
    <3>5. IsBuilt(Build("ok", Open1(b.script, sn, <<>>)))
      BY <3>4, BuildIs DEF IsBuilt
    <3> QED BY <2>1, <2>4, <3>5, FailBuilt
  <2> HIDE DEF name, sn
  <2> QED BY <2>1, <2>3, <2>4, FailBuilt DEF name
<1>3. CASE b.status = "ok" /\ ln \in [line : {"key"}, name : Names, value : Values]
  <2>1. \/ ParsePiece(b, ln) = Build("fail", b.script)
        \/ b.script # <<>> /\ ParsePiece(b, ln) = ParseKey(b, ln.name, ln.value)
    BY <1>3 DEF ParsePiece
  <2>2. ln.name \in Names /\ ln.value \in Values
    BY <1>3
  <2> QED BY <1>3, <2>1, <2>2, ParseKeyBuilt, FailBuilt
<1>4. CASE b.status = "ok" /\ ln \in [line : {"noequals"}, name : Names]
  <2>1. ParsePiece(b, ln) = Build("fail", b.script)
    BY <1>4 DEF ParsePiece
  <2> QED BY <2>1, FailBuilt
<1>5. CASE ln \in [line : {"nothing"}]
  BY <1>1, <1>5
<1> QED BY <1>1, <1>2, <1>3, <1>4, <1>5 DEF Lines

LEMMA FittingLine ==
    ASSUME NEW b, NEW ln, LineFits(ln)
    PROVE  ParseLine(b, ln) = ParsePiece(b, ln)
BY DEF ParseLine

\* The parser builds a tree whatever it is given.
LEMMA Parsed ==
    ASSUME NEW lines \in Seq({ln \in Lines : LineFits(ln)})
    PROVE  IsBuilt(script_parse_fex(lines))
<1> DEFINE n == Len(lines)
<1>1. n \in Nat /\ \A i \in 1..n : lines[i] \in Lines /\ LineFits(lines[i])
  OBVIOUS
<1>2. PICK f : /\ f[0] = Build("ok", <<>>)
               /\ \A i \in 1..n : f[i] = ParseLine(f[i - 1], lines[i])
               /\ script_parse_fex(lines) = f[n]
  BY ONLY <1>1, ParseIs
<1> HIDE DEF n
<1> DEFINE T == {m \in Nat : m <= n => IsBuilt(f[m])}
<1>3. 0 \in T
  <2>1. IsTree(<<>>)
    <3>1. <<>> \in Seq({}) /\ DOMAIN <<>> = {}
      OBVIOUS
    <3> QED BY <3>1 DEF IsTree, IsSeq
  <2>2. IsBuilt(Build("ok", <<>>))
    BY <2>1, BuildIs DEF IsBuilt
  <2> QED BY <1>2, <2>2
<1>4. ASSUME NEW m \in T PROVE m + 1 \in T
  <2> SUFFICES ASSUME m + 1 <= n PROVE IsBuilt(f[m + 1])
    OBVIOUS
  <2>1. m \in Nat /\ m <= n /\ m + 1 \in 1..n /\ (m + 1) - 1 = m
    BY <1>1
  <2>2. /\ IsBuilt(f[m]) /\ lines[m + 1] \in Lines /\ LineFits(lines[m + 1])
        /\ f[m + 1] = ParseLine(f[m], lines[m + 1])
    BY <1>1, <1>2, <2>1
  <2>3. f[m + 1] = ParsePiece(f[m], lines[m + 1])
    BY <2>2, FittingLine
  <2> QED BY <2>2, <2>3, ParsePieceBuilt
<1> HIDE DEF T
<1>5. T = Nat
  <2>1. T \in SUBSET Nat
    BY DEF T
  <2> QED BY <1>3, <1>4, <2>1, Induct
<1>6. IsBuilt(f[n])
  BY <1>1, <1>5 DEF T
<1> QED BY <1>2, <1>6

-----------------------------------------------------------------------------
(* What the parser finds in a generated .fex. *)

LEMMA ConcatIs ==
    ASSUME NEW a, IsSeq(a), NEW b, IsSeq(b)
    PROVE  /\ IsSeq(a \o b) /\ Len(a \o b) = Len(a) + Len(b)
           /\ \A i \in 1..Len(a) : (a \o b)[i] = a[i]
           /\ \A i \in 1..Len(b) : (a \o b)[Len(a) + i] = b[i]
<1>1. PICK S : a \in Seq(S)
  BY DEF IsSeq
<1>2. PICK R : b \in Seq(R)
  BY DEF IsSeq
<1> DEFINE U == S \cup R
<1>3. a \in Seq(U) /\ b \in Seq(U)
  BY <1>1, <1>2
<1> HIDE DEF U
<1>4. /\ a \o b \in Seq(U) /\ Len(a \o b) = Len(a) + Len(b)
      /\ \A i \in 1..(Len(a) + Len(b)) :
            (a \o b)[i] = IF i <= Len(a) THEN a[i] ELSE b[i - Len(a)]
  BY ONLY <1>3, ConcatProperties
<1>5. Len(a) \in Nat /\ Len(b) \in Nat
  BY <1>3
<1>6. ASSUME NEW i \in 1..Len(a) PROVE (a \o b)[i] = a[i]
  <2>1. i \in 1..(Len(a) + Len(b)) /\ i <= Len(a)
    BY <1>5
  <2> QED BY <1>4, <2>1
<1>7. ASSUME NEW i \in 1..Len(b) PROVE (a \o b)[Len(a) + i] = b[i]
  <2>1. /\ Len(a) + i \in 1..(Len(a) + Len(b)) /\ ~(Len(a) + i <= Len(a))
        /\ (Len(a) + i) - Len(a) = i
    BY <1>5
  <2> QED BY <1>4, <2>1
<1> QED BY <1>4, <1>6, <1>7 DEF IsSeq

LEMMA FunIsSeq ==
    ASSUME NEW n \in Nat, NEW S, NEW f \in [1..n -> S]
    PROVE  IsSeq(f) /\ Len(f) = n
<1>1. f \in Seq(S)
  OBVIOUS
<1> QED BY <1>1 DEF IsSeq

LEMMA OneIs == ASSUME NEW x PROVE IsSeq(<<x>>) /\ Len(<<x>>) = 1 /\ <<x>>[1] = x
<1>1. <<x>> \in Seq({x})
  OBVIOUS
<1> QED BY <1>1 DEF IsSeq

\* The lines of a section: its own, those of the entries, and a blank one.
LEMMA SectionTextIs ==
    ASSUME NEW s, IsSeq(s.entries)
    PROVE  LET st == SectionText(s)
               k == Len(s.entries)
           IN  /\ IsSeq(st) /\ Len(st) = k + 2
               /\ st[1] = SectionLine(s.name, "closed")
               /\ \A j \in 1..k : st[1 + j] = EntryLine(s.entries[j])
               /\ st[k + 2] = Nothing
<1> DEFINE es == s.entries
           k == Len(es)
           a == <<SectionLine(s.name, "closed")>>
           b == [j \in DOMAIN es |-> EntryLine(es[j])]
           c == <<Nothing>>
<1>1. k \in Nat /\ DOMAIN es = 1..k
  BY SeqIs
<1>2. /\ IsSeq(a) /\ Len(a) = 1 /\ a[1] = SectionLine(s.name, "closed")
      /\ IsSeq(c) /\ Len(c) = 1 /\ c[1] = Nothing
  BY OneIs
<1>3. IsSeq(b) /\ Len(b) = k /\ \A j \in 1..k : b[j] = EntryLine(es[j])
  <2>1. b \in [1..k -> {EntryLine(es[j]) : j \in 1..k}]
    BY <1>1
  <2>2. \A j \in 1..k : b[j] = EntryLine(es[j])
    BY <1>1
  <2> DEFINE S == {EntryLine(es[j]) : j \in 1..k}
  <2> HIDE DEF b, k, S
  <2>3. k \in Nat /\ b \in [1..k -> S]
    BY <1>1, <2>1 DEF S
  <2>4. IsSeq(b) /\ Len(b) = k
    BY ONLY <2>3, FunIsSeq
  <2> QED BY <2>2, <2>4
<1>4. SectionText(s) = (a \o b) \o c
  BY DEF SectionText
<1> HIDE DEF a, b, c, k, es
<1> DEFINE d == a \o b
           r == d \o c
<1>5. /\ IsSeq(d) /\ Len(d) = 1 + k /\ d[1] = a[1]
      /\ \A j \in 1..k : d[1 + j] = b[j]
  <2>1. /\ IsSeq(d) /\ Len(d) = Len(a) + Len(b)
        /\ \A i \in 1..Len(a) : d[i] = a[i]
        /\ \A i \in 1..Len(b) : d[Len(a) + i] = b[i]
    <3>1. IsSeq(a) /\ IsSeq(b)
      BY <1>2, <1>3
    <3> QED BY ONLY <3>1, ConcatIs
  <2> HIDE DEF d
  <2> QED BY <1>2, <1>3, <2>1
<1> HIDE DEF d
<1>6. /\ IsSeq(r) /\ Len(r) = (1 + k) + 1
      /\ (\A i \in 1..(1 + k) : r[i] = d[i]) /\ r[(1 + k) + 1] = c[1]
  <2>1. /\ IsSeq(r) /\ Len(r) = Len(d) + Len(c)
        /\ \A i \in 1..Len(d) : r[i] = d[i]
        /\ \A i \in 1..Len(c) : r[Len(d) + i] = c[i]
    <3>1. IsSeq(d) /\ IsSeq(c)
      BY <1>2, <1>5
    <3> QED BY ONLY <3>1, ConcatIs
  <2> HIDE DEF r
  <2> QED BY <1>2, <1>5, <2>1
<1> HIDE DEF r
<1>7. /\ 1 \in 1..(1 + k) /\ (1 + k) + 1 = k + 2
      /\ \A j \in 1..k : 1 + j \in 1..(1 + k)
  BY <1>1
<1>8. /\ r[1] = SectionLine(s.name, "closed") /\ r[k + 2] = Nothing
      /\ \A j \in 1..k : r[1 + j] = EntryLine(es[j])
  BY <1>2, <1>3, <1>5, <1>6, <1>7
<1>9. SectionText(s) = r
  BY <1>4 DEF r, d
<1> QED BY <1>6, <1>7, <1>8, <1>9 DEF es, k

\* A number comes back from %d and from 0x%x.
LEMMA SignedIs ==
    ASSUME NEW x \in 0..(WORD - 1)
    PROVE  /\ IntAccepted(x) /\ x % WORD = x
           /\ IntAccepted(Signed(x)) /\ Signed(x) % WORD = x
<1>1. WORD \in Nat /\ WORD >= 4
  BY WordAssumption
<1>2. x % WORD = x /\ (x - WORD) % WORD = x
  BY <1>1
<1> QED BY <1>1, <1>2 DEF IntAccepted, Signed, IntMax

\* An entry comes back from its line.
LEMMA EntryParsed ==
    ASSUME NEW e, IsEntry(e), LineFits(EntryLine(e)), NEW t, IsSeq(t), NEW sn, NEW es
    PROVE  ParseLine(Build("ok", Open1(t, sn, es)), EntryLine(e))
             = Build("ok", Open1(t, sn, Append(es, e)))
<1> DEFINE b == Build("ok", Open1(t, sn, es))
           ln == EntryLine(e)
<1>1. b.status = "ok" /\ b.script = Open1(t, sn, es)
  BY BuildIs
<1>2. b.script # <<>>
  <2> DEFINE s == [name |-> sn, entries |-> es]
  <2> HIDE DEF s
  <2>1. Len(Append(t, s)) = Len(t) + 1 /\ Len(t) \in Nat
    BY AppendIs, SeqIs
  <2>2. Append(t, s) # <<>>
    BY <2>1
  <2> QED BY <1>1, <2>2 DEF Open1, s
<1>3. e.type \in Types /\ (e.name.len # 0 \/ e.type = "string") /\ e.value \in ValuesOf(e.type)
  <2>1. e.type \in Types /\ (e.name.len > 0 \/ e.type = "string") /\ e.name.len \in Nat
    BY DEF IsEntry, TreeNames, Names
  <2> QED BY <2>1 DEF IsEntry
<1>4. script_entry_new(b, e.name, e.type, e.value) = Build("ok", Open1(t, sn, Append(es, e)))
  <2>1. script_entry(e.name, e.type, e.value) = e
    BY EntryItself
  <2>2. script_entry_new(b, e.name, e.type, e.value)
          = Build("ok", Open1(t, sn, Append(es, script_entry(e.name, e.type, e.value))))
    BY <1>3, EntryNew
  <2> QED BY <2>1, <2>2
<1> HIDE DEF b
<1>5. ln.line = "key" /\ ln.name = e.name
  BY DEF EntryLine, KeyLine
<1>6. ParseLine(b, ln) = ParseKey(b, e.name, ln.value)
  <2> HIDE DEF ln
  <2>1. LineFits(ln)
    BY DEF ln
  <2>2. ParseLine(b, ln) = ParsePiece(b, ln)
    BY <2>1, FittingLine
  <2> QED BY <1>1, <1>2, <1>5, <2>2 DEF ParsePiece
<1>7. ParseKey(b, e.name, ln.value) = script_entry_new(b, e.name, e.type, e.value)
  <2>1. CASE e.type = "null"
    <3>1. ln.value = NullVal
      BY <2>1 DEF EntryLine, KeyLine
    <3>2. e.value = 0
      BY <1>3, <2>1 DEF ValuesOf
    <3> HIDE DEF ln
    <3> QED BY <2>1, <3>1, <3>2 DEF ParseKey, NullVal
  <2>2. CASE e.type = "single"
    <3> DEFINE x == e.value
    <3>1. \/ ln.value = IntVal(x)
          \/ ln.value = IntVal(Signed(x))
      BY <2>2 DEF EntryLine, KeyLine, SingleVal
    <3>2. x \in 0..(WORD - 1)
      BY <1>3, <2>2 DEF ValuesOf
    <3> HIDE DEF ln, x
    <3>3. PICK y : ln.value = IntVal(y) /\ IntAccepted(y) /\ y % WORD = x
      BY <3>1, <3>2, SignedIs
    <3>4. ln.value.v = "int" /\ ln.value.n = y
      BY <3>3 DEF IntVal
    <3>5. ParseKey(b, e.name, ln.value) = ParseKeyInt(b, e.name, y)
      BY <3>4 DEF ParseKey
    <3>6. ParseKeyInt(b, e.name, y) = script_entry_new(b, e.name, "single", x)
      BY <3>3 DEF ParseKeyInt
    <3> QED BY <2>2, <3>5, <3>6 DEF x
  <2>3. CASE e.type = "string"
    <3>1. ln.value = TextVal(e.value, 5)
      BY <2>3 DEF EntryLine, KeyLine
    <3>2. ln.value.v = "text" /\ ln.value.text = e.value
      BY <3>1 DEF TextVal
    <3> HIDE DEF ln
    <3> QED BY <2>3, <3>2 DEF ParseKey
  <2>4. CASE e.type = "gpio"
    <3> DEFINE v == e.value
               g == ln.value
    <3>1. g = PortVal(v.port, v.num, v.data)
      BY <2>4 DEF EntryLine, KeyLine
    <3>2. /\ v \in [port : Nat, num : 0..255, data : [1..4 -> -1..IntMax]]
          /\ v.port = PortPower \/ v.port \in 1..(GPIO_BANK_MAX + 1)
      BY <1>3, <2>4 DEF ValuesOf, Gpios
    <3> HIDE DEF ln, v, g
    <3>3. g.v = "port" /\ g.port = v.port /\ g.num = v.num /\ g.data = v.data
      BY <3>1 DEF PortVal
    <3>4. v.data \in [1..4 -> -1..IntMax] /\ v.num \in 0..255
      BY <3>2
    <3>5. Len(v.data) = 4 /\ DOMAIN v.data = 1..4
      <4> DEFINE S == -1..IntMax
      <4>1. PICK k \in Nat : k = 4
        OBVIOUS
      <4> HIDE DEF S
      <4>2. v.data \in [1..k -> S]
        BY <3>4, <4>1 DEF S
      <4>3. Len(v.data) = k
        BY ONLY <4>2, FunIsSeq
      <4> QED BY <4>1, <4>2, <4>3
    <3>6. PortAccepted(g)
      BY <3>2, <3>3, <3>4, <3>5 DEF PortAccepted
    <3>7. PortData(g) = v.data
      BY <3>3, <3>4, <3>5 DEF PortData
    <3>8. [port |-> g.port, num |-> g.num, data |-> PortData(g)] = v
      BY <3>2, <3>3, <3>7
    <3>9. ParseKey(b, e.name, g)
            = script_entry_new(b, e.name, "gpio",
                 [port |-> g.port, num |-> g.num, data |-> PortData(g)])
      BY <3>3, <3>6 DEF ParseKey
    <3>10. ParseKey(b, e.name, g) = script_entry_new(b, e.name, "gpio", v)
      BY <3>8, <3>9
    <3> QED BY <2>4, <3>10 DEF g, v
  <2> QED BY <1>3, <2>1, <2>2, <2>3, <2>4 DEF Types
<1> QED BY <1>4, <1>6, <1>7 DEF b

LEMMA SectionParsed ==
    ASSUME NEW s, IsSection(s), IsSeq(s.entries), NEW f, NEW p \in Nat,
           NEW t, IsSeq(t), f[p] = Build("ok", t),
           \A i \in 1..Len(SectionText(s)) :
              /\ f[p + i] = ParseLine(f[p + i - 1], SectionText(s)[i])
              /\ LineFits(SectionText(s)[i])
    PROVE  f[p + Len(SectionText(s))] = Build("ok", Append(t, s))
<1> DEFINE es == s.entries
           k == Len(es)
           st == SectionText(s)
           n == Len(st)
<1>1. k \in Nat /\ DOMAIN es = 1..k /\ \A j \in 1..k : IsEntry(es[j])
  BY SeqIs DEF IsSection
<1>2. /\ IsSeq(st) /\ n = k + 2
      /\ st[1] = SectionLine(s.name, "closed")
      /\ \A j \in 1..k : st[1 + j] = EntryLine(es[j])
      /\ st[k + 2] = Nothing
  BY SectionTextIs
<1>3. \A i \in 1..n : f[p + i] = ParseLine(f[p + i - 1], st[i]) /\ LineFits(st[i])
  OBVIOUS
<1> HIDE DEF st, n, k
<1>4. f[p + 1] = Build("ok", Open1(t, s.name, <<>>))
  <2> DEFINE b == Build("ok", t)
             ln == SectionLine(s.name, "closed")
  <2>1. 1 \in 1..n /\ p + 1 - 1 = p
    BY <1>1, <1>2
  <2>2. f[p + 1] = ParseLine(b, ln)
    BY <1>2, <1>3, <2>1
  <2>3. b.status = "ok" /\ b.script = t
    BY BuildIs
  <2>4. ln.line = "section" /\ ln.form = "closed" /\ ln.name = s.name
    BY DEF SectionLine
  <2> HIDE DEF b, ln
  <2>5. ParseLine(b, ln) = script_section_new(b, s.name)
    <3>1. LineFits(ln)
      BY <1>2, <1>3, <2>1 DEF ln
    <3>2. ParseLine(b, ln) = ParsePiece(b, ln)
      BY <3>1, FittingLine
    <3> QED BY <2>3, <2>4, <3>2 DEF ParsePiece
  <2>6. s.name \in Names /\ s.name.len <= 31 /\ s.name.len > 0 /\ s.name.len \in Nat
    BY DEF IsSection, TreeNames, Names
  <2>7. Truncated(s.name) = s.name /\ s.name.len # 0
    BY <2>6, TruncatedIs
  <2>8. script_section_new(b, s.name) = Build("ok", Open1(t, s.name, <<>>))
    BY <2>3, <2>7 DEF script_section_new, script_section, Open1
  <2> QED BY <2>2, <2>5, <2>8
<1>5. IsSeq(es) /\ SubSeq(es, 1, 0) = <<>> /\ SubSeq(es, 1, k) = es
  BY WholeIs DEF k
<1> DEFINE T == {m \in Nat : m <= k =>
                   f[p + 1 + m] = Build("ok", Open1(t, s.name, SubSeq(es, 1, m)))}
<1>6. 0 \in T
  <2>1. p + 1 + 0 = p + 1
    OBVIOUS
  <2> QED BY <1>4, <1>5, <2>1
<1>7. ASSUME NEW m \in T PROVE m + 1 \in T
  <2> DEFINE e == es[m + 1]
             fr == SubSeq(es, 1, m)
             sn == s.name
  <2> SUFFICES ASSUME m + 1 <= k
               PROVE  f[p + 1 + (m + 1)] = Build("ok", Open1(t, sn, SubSeq(es, 1, m + 1)))
    OBVIOUS
  <2>1. /\ m \in Nat /\ m <= k /\ m + 1 \in 1..k /\ (m + 1) - 1 = m
        /\ 1 + (m + 1) \in 1..n
        /\ p + (1 + (m + 1)) - 1 = p + 1 + m /\ p + (1 + (m + 1)) = p + 1 + (m + 1)
    BY <1>1, <1>2
  <2>2. f[p + 1 + m] = Build("ok", Open1(t, sn, fr))
    BY <2>1
  <2> HIDE DEF T
  <2>3. st[1 + (m + 1)] = EntryLine(e) /\ IsEntry(e)
    BY <1>1, <1>2, <2>1
  <2>4. /\ f[p + 1 + (m + 1)] = ParseLine(f[p + 1 + m], EntryLine(e))
        /\ LineFits(EntryLine(e))
    BY <1>3, <2>1, <2>3
  <2>5. Append(fr, e) = SubSeq(es, 1, m + 1)
    <3>1. m + 1 \in 1..Len(es)
      BY <2>1 DEF k
    <3> QED BY <1>5, <2>1, <3>1, FrontGrows
  <2>6. ParseLine(Build("ok", Open1(t, sn, fr)), EntryLine(e))
          = Build("ok", Open1(t, sn, Append(fr, e)))
    <3>1. IsEntry(e) /\ LineFits(EntryLine(e)) /\ IsSeq(t)
      BY <2>3, <2>4
    <3> HIDE DEF e, fr, sn
    <3> QED BY ONLY <3>1, EntryParsed
  <2> HIDE DEF e, fr
  <2> QED BY <2>2, <2>4, <2>5, <2>6
<1> HIDE DEF T
<1>8. T = Nat
  <2>1. T \in SUBSET Nat
    BY DEF T
  <2> QED BY <1>6, <1>7, <2>1, Induct
<1>9. f[p + 1 + k] = Build("ok", Open1(t, s.name, es))
  <2>1. k \in T /\ k <= k
    BY <1>1, <1>8
  <2> QED BY <1>5, <2>1 DEF T
<1>10. f[p + (k + 2)] = f[p + 1 + k]
  <2>1. k + 2 \in 1..n /\ p + (k + 2) - 1 = p + 1 + k
    BY <1>1, <1>2
  <2>2. f[p + (k + 2)] = ParseLine(f[p + 1 + k], Nothing)
    BY <1>2, <1>3, <2>1
  <2> DEFINE b == f[p + 1 + k]
  <2> HIDE DEF b
  <2>3. ParseLine(b, Nothing) = b
    <3>1. LineFits(Nothing)
      BY <1>2, <1>3, <2>1
    <3>2. ParseLine(b, Nothing) = ParsePiece(b, Nothing)
      BY <3>1, FittingLine
    <3> QED BY <3>2 DEF ParsePiece, Nothing
  <2> QED BY <2>2, <2>3 DEF b
<1>11. Open1(t, s.name, es) = Append(t, s)
  <2>1. s = [name |-> s.name, entries |-> es]
    BY DEF IsSection
  <2> QED BY <2>1 DEF Open1
<1> QED BY <1>2, <1>9, <1>10, <1>11 DEF n, st

\* f follows the parser through lines that fit its buffer.
Follows(f, lines) ==
    /\ f[0] = Build("ok", <<>>)
    /\ \A i \in 1..Len(lines) :
          f[i] = ParseLine(f[i - 1], lines[i]) /\ LineFits(lines[i])

LEMMA Reparsed ==
    ASSUME NEW t, IsTree(t)
    PROVE  LET lines == script_generate_fex(t)
           IN  /\ IsSeq(lines)
               /\ (\A i \in DOMAIN lines : LineFits(lines[i])) =>
                     script_parse_fex(lines) = Build("ok", t)
<1> DEFINE len == Len(t)
           lines == script_generate_fex(t)
<1>1. IsSeq(t) /\ len \in Nat /\ DOMAIN t = 1..len
  BY SeqIs DEF IsTree
<1>2. PICK g : /\ g[0] = <<>>
               /\ \A i \in 1..len : g[i] = AddText(g[i - 1], t[i])
               /\ lines = g[len]
  BY ONLY <1>1, TextIs
<1>3. SubSeq(t, 1, 0) = <<>> /\ SubSeq(t, 1, len) = t
  BY <1>1, WholeIs
<1> HIDE DEF len, lines
<1> DEFINE P(m) == /\ IsSeq(g[m])
                   /\ \A f : Follows(f, g[m]) =>
                                f[Len(g[m])] = Build("ok", SubSeq(t, 1, m))
           T == {m \in Nat : m <= len => P(m)}
<1>4. 0 \in T
  <2>1. IsSeq(<<>>) /\ Len(<<>>) = 0
    <3>1. <<>> \in Seq({})
      OBVIOUS
    <3> QED BY <3>1 DEF IsSeq
  <2>2. P(0)
    BY <1>2, <1>3, <2>1 DEF Follows
  <2> QED BY <2>2
<1> HIDE DEF P
<1>5. ASSUME NEW m \in T PROVE m + 1 \in T
  <2> SUFFICES ASSUME m + 1 <= len PROVE P(m + 1)
    OBVIOUS
  <2>1. m \in Nat /\ m <= len /\ m + 1 \in 1..len /\ (m + 1) - 1 = m /\ m \in 0..len
    BY <1>1
  <2>2. P(m)
    BY <2>1
  <2> DEFINE s == t[m + 1]
             st == SectionText(s)
             a == g[m]
             c == g[m + 1]
             fr == SubSeq(t, 1, m)
             p == Len(a)
             n == Len(st)
  <2>3. c = a \o st
    BY <1>2, <2>1 DEF AddText
  <2>4. IsSection(s) /\ IsSeq(s.entries)
    BY <1>1, <2>1 DEF IsTree
  <2>5. IsSeq(a) /\ p \in Nat /\ \A f : Follows(f, a) => f[p] = Build("ok", fr)
    BY <2>2, SeqIs DEF P
  <2>6. IsSeq(st) /\ n \in Nat
    <3>1. IsSeq(st)
      BY <2>4, SectionTextIs
    <3> HIDE DEF st
    <3> QED BY <3>1, SeqIs
  <2>7. IsSeq(fr)
    BY <1>1, <2>1, FrontIs DEF len
  <2>8. Append(fr, s) = SubSeq(t, 1, m + 1)
    <3>1. m + 1 \in 1..Len(t)
      BY <2>1 DEF len
    <3> QED BY <1>1, <2>1, <3>1, FrontGrows
  <2> HIDE DEF a, c, st, s, fr
  <2>9. /\ IsSeq(c) /\ Len(c) = p + n
        /\ \A i \in 1..p : c[i] = a[i]
        /\ \A i \in 1..n : c[p + i] = st[i]
    <3>1. IsSeq(a) /\ IsSeq(st)
      BY <2>5, <2>6
    <3>2. /\ IsSeq(a \o st) /\ Len(a \o st) = Len(a) + Len(st)
          /\ \A i \in 1..Len(a) : (a \o st)[i] = a[i]
          /\ \A i \in 1..Len(st) : (a \o st)[Len(a) + i] = st[i]
      BY ONLY <3>1, ConcatIs
    <3> QED BY <2>3, <3>2
  <2> HIDE DEF p, n
  <2>10. ASSUME NEW f, Follows(f, c)
         PROVE  f[Len(c)] = Build("ok", SubSeq(t, 1, m + 1))
    <3>1. /\ f[0] = Build("ok", <<>>)
          /\ \A i \in 1..(p + n) : f[i] = ParseLine(f[i - 1], c[i]) /\ LineFits(c[i])
      BY <2>9, <2>10 DEF Follows
    <3>2. Follows(f, a)
      <4>1. \A i \in 1..p : i \in 1..(p + n)
        BY <2>5, <2>6
      <4>2. \A i \in 1..p : f[i] = ParseLine(f[i - 1], a[i]) /\ LineFits(a[i])
        BY <2>9, <3>1, <4>1
      <4> QED BY <3>1, <4>2 DEF Follows, p
    <3>3. f[p] = Build("ok", fr)
      BY <2>5, <3>2
    <3>4. \A i \in 1..n : f[p + i] = ParseLine(f[p + i - 1], st[i]) /\ LineFits(st[i])
      <4>1. ASSUME NEW i \in 1..n
            PROVE  f[p + i] = ParseLine(f[p + i - 1], st[i]) /\ LineFits(st[i])
        <5> DEFINE k == p + i
        <5>1. k \in 1..(p + n) /\ c[k] = st[i]
          BY <2>5, <2>6, <2>9
        <5> HIDE DEF k
        <5>2. f[k] = ParseLine(f[k - 1], c[k]) /\ LineFits(c[k])
          BY <3>1, <5>1
        <5>3. f[k] = ParseLine(f[k - 1], st[i]) /\ LineFits(st[i])
          BY <5>1, <5>2
        <5>4. p \in Nat /\ i \in Nat
          BY <2>5, <2>6
        <5>5. k = p + i /\ k - 1 = p + i - 1
          BY ONLY <5>4 DEF k
        <5> QED BY ONLY <5>3, <5>5
      <4> QED BY <4>1
    <3>5. f[p + n] = Build("ok", Append(fr, s))
      <4>1. /\ IsSection(s) /\ IsSeq(s.entries) /\ p \in Nat /\ IsSeq(fr)
            /\ f[p] = Build("ok", fr)
            /\ \A i \in 1..Len(SectionText(s)) :
                 /\ f[p + i] = ParseLine(f[p + i - 1], SectionText(s)[i])
                 /\ LineFits(SectionText(s)[i])
        BY <2>4, <2>5, <2>7, <3>3, <3>4 DEF n, st
      <4>2. f[p + Len(SectionText(s))] = Build("ok", Append(fr, s))
        BY ONLY <4>1, SectionParsed
      <4> QED BY <4>2 DEF n, st
    <3> QED BY <2>8, <2>9, <3>5
  <2> QED BY <2>9, <2>10 DEF P, c
<1> HIDE DEF T
<1>6. T = Nat
  <2>1. T \in SUBSET Nat
    BY DEF T
  <2> QED BY <1>4, <1>5, <2>1, Induct
<1>7. P(len)
  BY <1>1, <1>6 DEF T
<1>8. /\ IsSeq(lines)
      /\ \A f : Follows(f, lines) => f[Len(lines)] = Build("ok", t)
  BY <1>2, <1>3, <1>7 DEF P
<1>9. Len(lines) \in Nat /\ DOMAIN lines = 1..Len(lines)
  BY <1>8, SeqIs
<1>10. ASSUME \A i \in DOMAIN lines : LineFits(lines[i])
       PROVE  script_parse_fex(lines) = Build("ok", t)
  <2>1. PICK f : /\ f[0] = Build("ok", <<>>)
                 /\ \A i \in 1..Len(lines) : f[i] = ParseLine(f[i - 1], lines[i])
                 /\ script_parse_fex(lines) = f[Len(lines)]
    BY ONLY <1>9, ParseIs
  <2>2. Follows(f, lines)
    BY <1>9, <1>10, <2>1 DEF Follows
  <2> QED BY <1>8, <2>1, <2>2
<1> QED BY <1>8, <1>10 DEF lines

-----------------------------------------------------------------------------
(* The runs of the tool. *)

TypeOK ==
    /\ job \in Jobs
    /\ DOMAIN files = FileNames
    /\ pc \in {"idle", "parse", "open", "write"}

\* The output is untouched until it is opened, and it is opened only for a
\* tree without errors.
Untouched ==
    /\ pc \in {"parse", "open"} => files[job.out] = before
    /\ pc \in {"open", "write"} => tree.status = "ok"
    /\ pc = "parse" => tree.status # "ok"
    /\ exit # "none" => pc = "idle"

IInv == TypeOK /\ Untouched /\ ExitHonest

-----------------------------------------------------------------------------
LEMMA JobsAre ==
    ASSUME NEW j \in Jobs
    PROVE  j.out \in FileNames /\ j.outfmt \in {"fex", "bin", "uboot"}
<1>1. \A i, f, o, g : Job(i, f, o, g).out = o /\ Job(i, f, o, g).outfmt = g
  BY DEF Job
<1> QED BY <1>1 DEF Jobs, FileNames

LEMMA BuildStatus == \A s, t : Build(s, t).status = s
BY DEF Build

LEMMA Init_inv == ASSUME Init PROVE IInv
<1>1. TypeOK
  BY DEF Init, TypeOK, Jobs, FileNames
<1>2. pc = "idle" /\ exit = "none"
  BY DEF Init
<1>3. Untouched
  BY <1>2 DEF Untouched
<1>4. ExitHonest
  BY <1>2 DEF ExitHonest
<1> QED BY <1>1, <1>3, <1>4 DEF IInv

LEMMA Start_inv == ASSUME IInv, NEW j \in Jobs, Start(j) PROVE IInv'
<1>1. /\ pc' = "parse" /\ job' = j /\ tree' = NoTree /\ exit' = "none"
      /\ before' = files[j.out] /\ files' = files
  BY DEF Start
<1>2. tree'.status = "none"
  BY <1>1, BuildStatus DEF NoTree
<1>3. TypeOK'
  BY <1>1 DEF IInv, TypeOK
<1>4. Untouched'
  BY <1>1, <1>2 DEF Untouched
<1>5. ExitHonest'
  BY <1>1 DEF ExitHonest
<1> QED BY <1>3, <1>4, <1>5 DEF IInv

LEMMA Parse_inv == ASSUME IInv, Parse PROVE IInv'
<1>1. /\ pc = "parse" /\ UNCHANGED <<files, job, before>>
      /\ exit = "none" /\ files[job.out] = before /\ tree.status # "ok"
  BY DEF Parse, IInv, Untouched
<1>2. \/ tree'.status = "ok" /\ pc' = "open" /\ exit' = exit
      \/ tree'.status # "ok" /\ pc' = "idle" /\ exit' # "ok"
  <2>1. CASE /\ tree' = script_parse(job)
             /\ IF tree'.status = "ok" THEN pc' = "open" /\ UNCHANGED exit
                ELSE Exit(tree'.status)
    BY <2>1 DEF Exit
  <2>2. CASE Exit("fail") /\ UNCHANGED tree
    BY <1>1, <2>2 DEF Exit
  <2> QED BY <2>1, <2>2 DEF Parse
<1>3. TypeOK'
  BY <1>1, <1>2 DEF IInv, TypeOK
<1>4. Untouched'
  BY <1>1, <1>2 DEF Untouched
<1>5. ExitHonest'
  BY <1>1, <1>2 DEF ExitHonest
<1> QED BY <1>3, <1>4, <1>5 DEF IInv

LEMMA Open_inv == ASSUME IInv, Open PROVE IInv'
<1>1. /\ pc = "open" /\ UNCHANGED <<job, tree, before>>
      /\ exit = "none" /\ files[job.out] = before /\ tree.status = "ok"
      /\ DOMAIN files = FileNames
  BY DEF Open, IInv, Untouched, TypeOK
<1>2. /\ DOMAIN files' = FileNames
      /\ \/ pc' = "write" /\ exit' = "none"
         \/ pc' = "idle" /\ exit' = "fail"
  BY <1>1 DEF Open, Exit
<1>3. TypeOK'
  BY <1>1, <1>2 DEF IInv, TypeOK
<1>4. Untouched'
  BY <1>1, <1>2 DEF Untouched
<1>5. ExitHonest'
  BY <1>1, <1>2 DEF ExitHonest
<1> QED BY <1>3, <1>4, <1>5 DEF IInv

LEMMA Text_inv == ASSUME IInv, WriteFex \/ WriteUboot PROVE IInv'
<1>1. /\ pc = "write" /\ job.outfmt # "bin" /\ UNCHANGED <<job, tree, before>>
      /\ tree.status = "ok" /\ DOMAIN files = FileNames
  BY DEF WriteFex, WriteUboot, IInv, Untouched, TypeOK
<1>2. pc' = "idle" /\ DOMAIN files' = FileNames
  BY <1>1 DEF WriteFex, WriteUboot, Exit
<1>3. TypeOK'
  BY <1>1, <1>2 DEF IInv, TypeOK
<1>4. Untouched'
  BY <1>1, <1>2 DEF Untouched
<1>5. ExitHonest'
  BY <1>1 DEF ExitHonest
<1> QED BY <1>3, <1>4, <1>5 DEF IInv

LEMMA Bin_inv == ASSUME IInv, WriteBin PROVE IInv'
<1> DEFINE all == script_generate_bin(tree.script)
           size == script_bin_size(tree.script)
<1>1. /\ pc = "write" /\ job.outfmt = "bin" /\ UNCHANGED <<job, tree, before>>
      /\ tree.status = "ok" /\ exit = "none" /\ DOMAIN files = FileNames
      /\ job.out \in FileNames
  BY JobsAre DEF WriteBin, IInv, Untouched, TypeOK
<1>2. \/ /\ files' = [files EXCEPT ![job.out] =
                         BinFile(IF done' = size THEN all ELSE Prefix(all, done'))]
         /\ IF done' = size THEN pc' = "idle" /\ exit' = "ok"
            ELSE UNCHANGED <<exit, pc>>
      \/ pc' = "idle" /\ exit' = "fail" /\ files' = files
  BY DEF WriteBin, Exit
<1> HIDE DEF all, size
<1>3. \A w : BinFile(w).words = w
  BY DEF BinFile
<1>4. /\ DOMAIN files' = FileNames
      /\ pc' \in {"idle", "write"} /\ (exit' # "none" => pc' = "idle")
      /\ exit' = "ok" => files'[job.out].words = all
  BY <1>1, <1>2, <1>3
<1>5. TypeOK'
  BY <1>1, <1>4 DEF IInv, TypeOK
<1>6. Untouched'
  BY <1>1, <1>4 DEF Untouched
<1>7. ExitHonest'
  BY <1>1, <1>4 DEF ExitHonest, all
<1> QED BY <1>5, <1>6, <1>7 DEF IInv

(***************************************************************************)
(* The invariant holds through every sequence of runs of the tool.         *)
(***************************************************************************)
THEOREM Invariance == Spec => []IInv
<1>1. Init => IInv
  BY Init_inv
<1>2. IInv /\ [Next]_vars => IInv'
  <2>1. CASE Next
    BY <2>1, Start_inv, Parse_inv, Open_inv, Text_inv, Bin_inv DEF Next
  <2>2. CASE UNCHANGED vars
    BY <2>2 DEF vars, IInv, TypeOK, Untouched, ExitHonest
  <2> QED BY <2>1, <2>2
<1> QED BY <1>1, <1>2, PTL DEF Spec

(***************************************************************************)
(* A run of fexc that reports success has left the complete .bin of the    *)
(* tree it parsed, however write() divided it, and a run whose input was   *)
(* refused has not touched its output file (fexc.c: script_generate(),     *)
(* main()).                                                                *)
(***************************************************************************)
THEOREM ExitIsHonest == Spec => []ExitHonest
<1>1. IInv => ExitHonest
  BY DEF IInv
<1> QED BY <1>1, Invariance, PTL

-----------------------------------------------------------------------------
(* What the files hold, as long as no fault has touched them. *)

\* What a file holds that comes from the tree t.
Made(f, t) ==
    CASE f \in {"a.bin", "c.bin"} -> BinFile(script_generate_bin(t))
      [] f = "b.fex" -> TextFile(script_generate_fex(t))
      [] f \in {"u.h", "b.h"} -> Header(script_generate_uboot(t).members)

\* c.bin is made of a generated text, and sure only if the text fits.
Sure(f) == f = "c.bin" => TextFits

(***************************************************************************)
(* The user's file stays as it is; every other whole file is made of its   *)
(* tree; a run that reads a whole file has the user's tree in its hands;   *)
(* and a file is not whole while it is written.                            *)
(***************************************************************************)
Derivation ==
    /\ \E u \in UserFiles : files["user.fex"] = TextFile(u)
    /\ "user.fex" \in whole /\ whole \subseteq FileNames
    /\ \A f \in whole \ {"user.fex"} : Sure(f) =>
          UserTree.status = "ok" /\ files[f] = Made(f, UserTree.script)
    /\ pc \in {"open", "write"} /\ job.in \in whole /\ Sure(job.out) =>
          UserTree.status = "ok" /\ tree = UserTree
    /\ pc = "write" => job.out \notin whole

LEMMA SureBut == \A f : f # "c.bin" => Sure(f)
BY DEF Sure

LEMMA JobsIn ==
    ASSUME NEW j \in Jobs
    PROVE  /\ \/ j.in \in {"user.fex", "b.fex"} /\ j.infmt = "fex"
              \/ j.in = "a.bin" /\ j.infmt = "bin"
           /\ \/ j.out \in {"a.bin", "c.bin"} /\ j.outfmt = "bin"
              \/ j.out = "b.fex" /\ j.outfmt = "fex"
              \/ j.out \in {"u.h", "b.h"} /\ j.outfmt = "uboot"
           /\ j.in = "b.fex" => j.out = "c.bin"
<1>1. \A i, f, o, g : /\ Job(i, f, o, g).in = i /\ Job(i, f, o, g).infmt = f
                      /\ Job(i, f, o, g).out = o /\ Job(i, f, o, g).outfmt = g
  BY DEF Job
<1> QED BY <1>1 DEF Jobs

LEMMA FileIs ==
    /\ \A x : TextFile(x).lines = x
    /\ \A x : BinFile(x).words = x
BY DEF TextFile, BinFile

LEMMA UserTreeIs ==
    ASSUME Derivation
    PROVE  IsBuilt(UserTree)
<1>1. PICK u \in UserFiles : files["user.fex"] = TextFile(u)
  BY DEF Derivation
<1>2. /\ u \in Seq({ln \in Lines : LineFits(ln)})
      /\ UserTree = script_parse_fex(u)
  BY <1>1, FileIs, UserFilesAssumption DEF UserTree
<1> QED BY <1>2, Parsed

LEMMA SizeIs ==
    ASSUME NEW n \in Nat, n # 0, NEW words, DOMAIN words = 0..(n - 1)
    PROVE  Size(words) = n
<1> DEFINE Final(i) == i \in DOMAIN words /\ i + 1 \notin DOMAIN words
<1>1. Final(n - 1)
  OBVIOUS
<1>2. \A i : Final(i) => i = n - 1
  OBVIOUS
<1> DEFINE c == CHOOSE i \in DOMAIN words : i + 1 \notin DOMAIN words
<1>3. c = n - 1
  BY <1>1, <1>2
<1>4. Size(words) = IF DOMAIN words = {} THEN 0 ELSE 1 + c
  BY DEF Size
<1>5. DOMAIN words # {}
  BY <1>1
<1> HIDE DEF c
<1>6. Size(words) = 1 + (n - 1)
  BY <1>3, <1>4, <1>5
<1> QED BY <1>6

\* The binary of a tree, and what the decompiler says of it.
LEMMA BinIs ==
    ASSUME NEW t, IsTree(t), NEW words, words = script_generate_bin(t)
    PROVE  /\ script_bin_size(t) \in Nat /\ script_bin_size(t) # 0
           /\ DOMAIN words = 0..(script_bin_size(t) - 1)
           /\ Size(words) = script_bin_size(t)
           /\ IF Len(t) > SCRIPT_BIN_SECTION_LIMIT \/ TreeBankO(t)
              THEN script_decompile_bin(words, Size(words)).status = "fail"
              ELSE script_decompile_bin(words, Size(words)) = Build("ok", t)
<1> DEFINE n == script_bin_size(t)
<1>1. /\ n \in Nat /\ DOMAIN words = 0..(n - 1) /\ EntryZone(t) \in Nat
      /\ EntryZone(t) <= DataZone(t) /\ DataZone(t) <= n /\ DataZone(t) \in Nat
  BY FileMade DEF Generated
<1>2. EntryZone(t) >= 4
  <2>1. Len(t) \in Nat
    BY SeqIs DEF IsTree
  <2> QED BY <2>1 DEF EntryZone, HeadWords, SectionWords
<1> HIDE DEF n
<1>3. n # 0
  BY <1>1, <1>2
<1>4. Size(words) = n
  BY <1>1, <1>3, SizeIs
<1>5. LET r == script_decompile_bin(words, n)
      IN  IF Len(t) > SCRIPT_BIN_SECTION_LIMIT \/ TreeBankO(t)
          THEN r.status = "fail" ELSE r = Build("ok", t)
  BY Decompiled DEF n
<1> QED BY <1>1, <1>3, <1>4, <1>5 DEF n

\* A run that accepts a whole file has found the user's tree.
LEMMA ParsedIsUsers ==
    ASSUME Derivation, NEW j \in Jobs, j.in \in whole, Sure(j.out),
           script_parse(j).status = "ok"
    PROVE  UserTree.status = "ok" /\ script_parse(j) = UserTree
<1> DEFINE t == UserTree.script
           f == files[j.in]
           r == script_parse(j)
<1>1. IsBuilt(UserTree) /\ IsTree(t)
  BY UserTreeIs DEF IsBuilt
<1>2. \/ j.in \in {"user.fex", "b.fex"} /\ j.infmt = "fex"
      \/ j.in = "a.bin" /\ j.infmt = "bin"
  BY JobsIn
<1>3. Build("fail", <<>>).status = "fail"
  BY BuildIs
<1>4. CASE j.infmt = "fex"
  <2>1. r = script_parse_fex(f.lines)
    BY <1>3, <1>4 DEF script_parse
  <2>2. CASE j.in = "user.fex"
    BY <2>1, <2>2 DEF UserTree
  <2>3. CASE j.in = "b.fex"
    <3> DEFINE lines == script_generate_fex(t)
    <3>1. UserTree.status = "ok" /\ f = TextFile(lines)
      <4>1. UserTree.status = "ok" /\ f = Made("b.fex", t)
        BY <2>3, SureBut DEF Derivation
      <4> QED BY <4>1 DEF Made
    <3>2. r = script_parse_fex(lines)
      BY <2>1, <3>1, FileIs
    <3> HIDE DEF r, f
    <3>3. /\ IsSeq(lines)
          /\ (\A i \in DOMAIN lines : LineFits(lines[i])) =>
                script_parse_fex(lines) = Build("ok", t)
      BY <1>1, Reparsed
    <3>4. TextFits
      BY <2>3, JobsIn DEF Sure
    <3>5. \A i \in DOMAIN lines : LineFits(lines[i])
      BY <3>4 DEF TextFits
    <3> HIDE DEF lines, t
    <3>6. r = Build("ok", t)
      BY <3>2, <3>3, <3>5
    <3> QED BY <1>1, <3>1, <3>6 DEF r, t, IsBuilt
  <2> QED BY <1>2, <1>4, <2>2, <2>3
<1>5. CASE j.in = "a.bin" /\ j.infmt = "bin"
  <2>1. r = script_decompile_bin(f.words, Size(f.words))
    BY <1>3, <1>5 DEF script_parse
  <2>2. UserTree.status = "ok" /\ f = BinFile(script_generate_bin(t))
    <3>1. UserTree.status = "ok" /\ f = Made("a.bin", t)
      BY <1>5, SureBut DEF Derivation
    <3> QED BY <3>1 DEF Made
  <2>3. f.words = script_generate_bin(t)
    BY <2>2, FileIs
  <2> DEFINE w == f.words
  <2> HIDE DEF f, t
  <2>4. \/ script_decompile_bin(w, Size(w)).status = "fail"
        \/ script_decompile_bin(w, Size(w)) = Build("ok", t)
    BY <1>1, <2>3, BinIs
  <2>5. r = Build("ok", t)
    BY <2>1, <2>4
  <2> HIDE DEF r
  <2> QED BY <1>1, <2>2, <2>5 DEF r, t, IsBuilt
<1> QED BY <1>2, <1>4, <1>5

LEMMA Init_der == ASSUME Init PROVE Derivation
<1>1. PICK u \in UserFiles :
          files = [f \in FileNames |-> IF f = "user.fex" THEN TextFile(u) ELSE Absent]
  BY DEF Init
<1>2. files["user.fex"] = TextFile(u)
  BY <1>1 DEF FileNames
<1>3. pc = "idle" /\ whole = {"user.fex"}
  BY DEF Init
<1> QED BY <1>2, <1>3 DEF Derivation, FileNames

\* What a step does to the files and to the set of whole ones.
LEMMA Step_der ==
    ASSUME Derivation, files'["user.fex"] = files["user.fex"],
           "user.fex" \in whole', whole' \subseteq FileNames,
           \A f \in whole' \ {"user.fex"} : Sure(f) =>
              \/ f \in whole /\ files'[f] = files[f]
              \/ UserTree.status = "ok" /\ files'[f] = Made(f, UserTree.script),
           pc' \in {"open", "write"} /\ job'.in \in whole' /\ Sure(job'.out) =>
              UserTree.status = "ok" /\ tree' = UserTree,
           pc' = "write" => job'.out \notin whole'
    PROVE  Derivation'
<1>1. UserTree' = UserTree /\ TextFits' = TextFits
  BY DEF UserTree, TextFits
<1>2. \E u \in UserFiles : files'["user.fex"] = TextFile(u)
  BY DEF Derivation
<1>3. \A f \in whole \ {"user.fex"} : Sure(f) =>
          UserTree.status = "ok" /\ files[f] = Made(f, UserTree.script)
  BY DEF Derivation
<1>4. \A f \in whole' \ {"user.fex"} : Sure(f) =>
          UserTree.status = "ok" /\ files'[f] = Made(f, UserTree.script)
  BY <1>3
<1>5. \A f \in whole' \ {"user.fex"} : (f = "c.bin" => TextFits') =>
          UserTree'.status = "ok" /\ files'[f] = Made(f, UserTree'.script)
  BY <1>1, <1>4 DEF Sure
<1>6. pc' \in {"open", "write"} /\ job'.in \in whole' /\ (job'.out = "c.bin" => TextFits') =>
         UserTree'.status = "ok" /\ tree' = UserTree'
  BY <1>1 DEF Sure
<1> QED BY <1>2, <1>5, <1>6 DEF Derivation, Sure

LEMMA Start_der ==
    ASSUME IInv, Derivation, NEW j \in Jobs, Start(j) PROVE Derivation'
<1>1. pc' = "parse" /\ files' = files /\ whole' = whole
  BY DEF Start
<1>2. "user.fex" \in whole /\ whole \subseteq FileNames
  BY DEF Derivation
<1> QED BY <1>1, <1>2, Step_der

LEMMA Parse_der == ASSUME IInv, Derivation, Parse PROVE Derivation'
<1>1. files' = files /\ job' = job /\ whole' = whole /\ job \in Jobs
  BY DEF Parse, IInv, TypeOK
<1>2. "user.fex" \in whole /\ whole \subseteq FileNames
  BY DEF Derivation
<1>3. \/ pc' = "open" /\ tree' = script_parse(job) /\ tree'.status = "ok"
      \/ pc' = "idle"
  BY DEF Parse, Exit
<1>4. pc' \in {"open", "write"} /\ job'.in \in whole' /\ Sure(job'.out) =>
         UserTree.status = "ok" /\ tree' = UserTree
  BY <1>1, <1>3, ParsedIsUsers
<1>5. pc' # "write"
  BY <1>3
<1> QED BY <1>1, <1>2, <1>4, <1>5, Step_der

LEMMA Open_der == ASSUME IInv, Derivation, Open PROVE Derivation'
<1>1. /\ pc = "open" /\ UNCHANGED <<job, tree>> /\ job \in Jobs
      /\ DOMAIN files = FileNames
  BY DEF Open, IInv, TypeOK
<1>2. "user.fex" \in whole /\ whole \subseteq FileNames
  BY DEF Derivation
<1>3. job.out \in FileNames /\ job.out # "user.fex"
  BY <1>1, JobsIn DEF FileNames
<1>4. \/ /\ files' = [files EXCEPT ![job.out] = Empty(job.outfmt)]
         /\ whole' = whole \ {job.out} /\ pc' = "write"
      \/ files' = files /\ whole' = whole /\ pc' = "idle"
  BY DEF Open, Exit
<1>5. job.in \in whole /\ Sure(job.out) => UserTree.status = "ok" /\ tree = UserTree
  BY <1>1 DEF Derivation
<1>6. /\ files'["user.fex"] = files["user.fex"]
      /\ "user.fex" \in whole' /\ whole' \subseteq whole
      /\ \A f \in whole' : files'[f] = files[f]
      /\ pc' = "write" => job'.out \notin whole'
  BY <1>1, <1>2, <1>3, <1>4
<1> QED BY <1>1, <1>2, <1>5, <1>6, Step_der

\* A write that gives the output the contents c, or that only spoils it.
LEMMA Write_der ==
    ASSUME IInv, Derivation, pc = "write", UNCHANGED <<job, tree>>,
           NEW c, files' = files \/ files' = [files EXCEPT ![job.out] = c],
           \/ whole' = whole /\ pc' \in {"idle", "write"}
           \/ /\ whole' = Derived /\ pc' = "idle"
              /\ files' = [files EXCEPT ![job.out] = c]
              /\ c = Made(job.out, tree.script)
    PROVE  Derivation'
<1>1. job \in Jobs /\ DOMAIN files = FileNames
  BY DEF IInv, TypeOK
<1>2. "user.fex" \in whole /\ whole \subseteq FileNames /\ job.out \notin whole
  BY DEF Derivation
<1>3. job.out \in FileNames /\ job.out # "user.fex"
  BY <1>1, JobsIn DEF FileNames
<1>4. job.in \in whole /\ Sure(job.out) => UserTree.status = "ok" /\ tree = UserTree
  BY DEF Derivation
<1>5. files'["user.fex"] = files["user.fex"] /\ \A f \in whole : files'[f] = files[f]
  BY <1>1, <1>2
<1>6. CASE whole' = whole /\ pc' \in {"idle", "write"}
  BY <1>2, <1>4, <1>5, <1>6, Step_der
<1>7. CASE /\ whole' = Derived /\ pc' = "idle"
           /\ files' = [files EXCEPT ![job.out] = c]
           /\ c = Made(job.out, tree.script)
  <2>1. whole' = whole \/ (job.in \in whole /\ whole' = whole \cup {job.out})
    BY <1>7 DEF Derived
  <2>2. files'[job.out] = Made(job.out, tree.script)
    BY <1>1, <1>3, <1>7
  <2>3. \A f \in whole' \ {"user.fex"} : Sure(f) =>
           \/ f \in whole /\ files'[f] = files[f]
           \/ UserTree.status = "ok" /\ files'[f] = Made(f, UserTree.script)
    BY <1>4, <1>5, <2>1, <2>2
  <2>4. "user.fex" \in whole' /\ whole' \subseteq FileNames
    BY <1>2, <1>3, <2>1
  <2> QED BY <1>5, <1>7, <2>3, <2>4, Step_der
<1> QED BY <1>6, <1>7

LEMMA WriteFex_der == ASSUME IInv, Derivation, WriteFex PROVE Derivation'
<1> DEFINE all == script_generate_fex(tree.script)
<1>1. /\ pc = "write" /\ UNCHANGED <<job, tree>> /\ pc' = "idle"
      /\ job.outfmt = "fex" /\ job \in Jobs
  BY DEF WriteFex, Exit, IInv, TypeOK
<1>2. Made(job.out, tree.script) = TextFile(all)
  <2>1. job.out = "b.fex"
    BY <1>1, JobsIn
  <2> QED BY <2>1 DEF Made
<1>3. \/ files' = [files EXCEPT ![job.out] = TextFile(all)] /\ whole' = Derived
      \/ /\ files' = [files EXCEPT ![job.out] =
                         TextFile(SubSeq(all, 1, Len(all) \div 2))]
         /\ whole' = whole
  BY DEF WriteFex
<1> DEFINE x == TextFile(all)
           y == TextFile(SubSeq(all, 1, Len(all) \div 2))
<1> HIDE DEF all, x, y
<1>4. \/ files' = [files EXCEPT ![job.out] = x] /\ whole' = Derived
      \/ files' = [files EXCEPT ![job.out] = y] /\ whole' = whole
  BY <1>3 DEF x, y
<1>5. x = Made(job.out, tree.script)
  BY <1>2 DEF x
<1>6. CASE files' = [files EXCEPT ![job.out] = x] /\ whole' = Derived
  BY <1>1, <1>5, <1>6, Write_der
<1>7. CASE files' = [files EXCEPT ![job.out] = y] /\ whole' = whole
  BY <1>1, <1>7, Write_der
<1> QED BY <1>4, <1>6, <1>7

LEMMA WriteUboot_der == ASSUME IInv, Derivation, WriteUboot PROVE Derivation'
<1> DEFINE h == script_generate_uboot(tree.script)
           x == Header(h.members)
           y == Header(<<>>)
<1>1. /\ pc = "write" /\ UNCHANGED <<job, tree>> /\ pc' = "idle"
      /\ job.outfmt = "uboot" /\ job \in Jobs
  BY DEF WriteUboot, Exit, IInv, TypeOK
<1>2. x = Made(job.out, tree.script)
  <2>1. job.out \in {"u.h", "b.h"}
    BY <1>1, JobsIn
  <2> QED BY <2>1 DEF Made
<1>3. \/ files' = [files EXCEPT ![job.out] = x] /\ whole' = Derived
      \/ files' = [files EXCEPT ![job.out] = y] /\ whole' = whole
      \/ files' = files /\ whole' = whole
  BY DEF WriteUboot
<1> HIDE DEF h, x, y
<1>4. CASE files' = [files EXCEPT ![job.out] = x] /\ whole' = Derived
  BY <1>1, <1>2, <1>4, Write_der
<1>5. CASE files' = [files EXCEPT ![job.out] = y] /\ whole' = whole
  BY <1>1, <1>5, Write_der
<1>6. CASE files' = files /\ whole' = whole
  BY <1>1, <1>6, Write_der
<1> QED BY <1>3, <1>4, <1>5, <1>6

LEMMA WriteBin_der == ASSUME IInv, Derivation, WriteBin PROVE Derivation'
<1> DEFINE all == script_generate_bin(tree.script)
           size == script_bin_size(tree.script)
           x == BinFile(all)
           y == BinFile(Prefix(all, done'))
<1>1. /\ pc = "write" /\ UNCHANGED <<job, tree>>
      /\ job.outfmt = "bin" /\ job \in Jobs
  BY DEF WriteBin, IInv, TypeOK
<1>2. x = Made(job.out, tree.script)
  <2>1. job.out \in {"a.bin", "c.bin"}
    BY <1>1, JobsIn
  <2> QED BY <2>1 DEF Made
<1>3. \/ files' = [files EXCEPT ![job.out] = x] /\ whole' = Derived /\ pc' = "idle"
      \/ files' = [files EXCEPT ![job.out] = y] /\ whole' = whole /\ pc' = pc
      \/ files' = files /\ whole' = whole /\ pc' = "idle"
  <2>1. CASE /\ files' = [files EXCEPT ![job.out] =
                            BinFile(IF done' = size THEN all ELSE Prefix(all, done'))]
             /\ IF done' = size THEN Exit("ok") /\ whole' = Derived
                ELSE UNCHANGED <<exit, pc, whole>>
    <3> HIDE DEF all, size
    <3>1. CASE done' = size
      BY <2>1, <3>1 DEF Exit
    <3>2. CASE done' # size
      BY <2>1, <3>2
    <3> QED BY <3>1, <3>2
  <2>2. CASE Exit("fail") /\ UNCHANGED <<files, whole>>
    BY <2>2 DEF Exit
  <2> QED BY <2>1, <2>2 DEF WriteBin
<1> HIDE DEF all, size, x, y
<1>4. CASE files' = [files EXCEPT ![job.out] = x] /\ whole' = Derived /\ pc' = "idle"
  BY <1>1, <1>2, <1>4, Write_der
<1>5. CASE files' = [files EXCEPT ![job.out] = y] /\ whole' = whole /\ pc' = pc
  BY <1>1, <1>5, Write_der
<1>6. CASE files' = files /\ whole' = whole /\ pc' = "idle"
  BY <1>1, <1>6, Write_der
<1> QED BY <1>3, <1>4, <1>5, <1>6

(***************************************************************************)
(* Through any sequence of runs and faults, every file that comes from the *)
(* user's without a fault is what the tool makes of the user's tree.       *)
(***************************************************************************)
THEOREM FilesDerived == Spec => []Derivation
<1>1. Init => Derivation
  BY Init_der
<1>2. IInv /\ Derivation /\ [Next]_vars => Derivation'
  <2>1. CASE IInv /\ Derivation /\ Next
    BY <2>1, Start_der, Parse_der, Open_der, WriteFex_der, WriteUboot_der,
       WriteBin_der DEF Next
  <2>2. CASE Derivation /\ UNCHANGED vars
    <3>1. UserTree' = UserTree /\ TextFits' = TextFits
      BY <2>2 DEF vars, UserTree, TextFits
    <3> QED BY <2>2, <3>1 DEF vars, Derivation, Sure
  <2> QED BY <2>1, <2>2
<1> QED BY <1>1, <1>2, Invariance, PTL DEF Spec

(***************************************************************************)
(* For every file that a user can write: fex2bin fills exactly the words   *)
(* that script_bin_size() counted, and bin2fex finds the same tree in      *)
(* them, unless it refuses the file for its number of sections or a port   *)
(* in bank O (script_bin.c: script_generate_bin(), script_decompile_bin()).*)
(***************************************************************************)
THEOREM BinIsExact == Spec => []BinExact
<1>1. ASSUME Derivation PROVE BinExact
  <2> SUFFICES ASSUME {"a.bin", "user.fex"} \subseteq whole
               PROVE  LET words == files["a.bin"].words
                          back == script_decompile_bin(words, Size(words))
                      IN  /\ DOMAIN words = 0..(script_bin_size(UserTree.script) - 1)
                          /\ IF \/ Len(UserTree.script) > SCRIPT_BIN_SECTION_LIMIT
                                \/ InBankO(UserTree.script)
                             THEN back.status = "fail"
                             ELSE back = UserTree
    BY DEF BinExact
  <2> DEFINE t == UserTree.script
             words == files["a.bin"].words
             back == script_decompile_bin(words, Size(words))
  <2>1. IsTree(t) /\ UserTree = Build(UserTree.status, t)
    BY <1>1, UserTreeIs DEF IsBuilt
  <2>2. UserTree.status = "ok" /\ words = script_generate_bin(t)
    <3>1. UserTree.status = "ok" /\ files["a.bin"] = Made("a.bin", t)
      BY <1>1, SureBut DEF Derivation
    <3>2. files["a.bin"] = BinFile(script_generate_bin(t))
      BY <3>1 DEF Made
    <3> QED BY <3>1, <3>2, FileIs
  <2>3. InBankO(t) <=> TreeBankO(t)
    <3>1. DOMAIN t = 1..Len(t)
      BY <2>1, SeqIs DEF IsTree
    <3>2. \A i \in DOMAIN t : DOMAIN t[i].entries = 1..Len(t[i].entries)
      BY <2>1, SeqIs DEF IsTree
    <3> HIDE DEF t
    <3> QED BY <3>1, <3>2 DEF InBankO, TreeBankO, SectionBankO, BankO
  <2> HIDE DEF t, words
  <2>4. /\ DOMAIN words = 0..(script_bin_size(t) - 1)
        /\ IF Len(t) > SCRIPT_BIN_SECTION_LIMIT \/ TreeBankO(t)
           THEN back.status = "fail" ELSE back = Build("ok", t)
    BY <2>1, <2>2, BinIs
  <2>5. UserTree = Build("ok", t)
    BY <2>1, <2>2
  <2> QED BY <2>3, <2>4, <2>5 DEF t, words
<1> QED BY <1>1, FilesDerived, PTL

(***************************************************************************)
(* For every file that a user can write: the .fex that bin2fex makes of    *)
(* its .bin parses to the same tree, and compiles to the same .bin, unless *)
(* a line of it has become too long for the parser; and the U-Boot headers *)
(* made of the .fex and of the .bin are the same                           *)
(* (script_fex.c: script_generate_fex(), script_parse_fex();               *)
(* script_uboot.c: script_generate_uboot()).                               *)
(***************************************************************************)
THEOREM RoundTripIsExact == Spec => []RoundTrip
<1>1. ASSUME Derivation PROVE RoundTrip
  <2> DEFINE t == UserTree.script
  <2>1. IsTree(t) /\ UserTree = Build(UserTree.status, t)
    BY <1>1, UserTreeIs DEF IsBuilt
  <2>2. \A f \in whole \ {"user.fex"} : Sure(f) =>
           UserTree.status = "ok" /\ files[f] = Made(f, t)
    BY <1>1 DEF Derivation
  <2>3. ASSUME {"a.bin", "b.fex"} \subseteq whole, TextFits
        PROVE  script_parse_fex(files["b.fex"].lines) = UserTree
    <3>1. UserTree.status = "ok" /\ files["b.fex"] = Made("b.fex", t)
      BY <2>2, <2>3, SureBut
    <3>2. files["b.fex"].lines = script_generate_fex(t)
      BY <3>1, FileIs DEF Made
    <3>3. UserTree = Build("ok", t)
      BY <2>1, <3>1
    <3> DEFINE lines == script_generate_fex(t)
    <3>4. \A i \in DOMAIN lines : LineFits(lines[i])
      BY <2>3 DEF TextFits
    <3> HIDE DEF t
    <3>5. (\A i \in DOMAIN lines : LineFits(lines[i])) =>
             script_parse_fex(lines) = Build("ok", t)
      BY <2>1, Reparsed
    <3> QED BY <3>2, <3>3, <3>4, <3>5
  <2>4. {"a.bin", "c.bin"} \subseteq whole /\ TextFits => files["c.bin"] = files["a.bin"]
    <3>1. SUFFICES ASSUME {"a.bin", "c.bin"} \subseteq whole, TextFits
                   PROVE  files["c.bin"] = files["a.bin"]
      OBVIOUS
    <3>2. Sure("a.bin") /\ Sure("c.bin")
      BY <3>1 DEF Sure
    <3> QED BY <2>2, <3>1, <3>2 DEF Made
  <2>5. {"u.h", "b.h"} \subseteq whole => files["u.h"] = files["b.h"]
    BY <2>2, SureBut DEF Made
  <2> QED BY <2>3, <2>4, <2>5 DEF RoundTrip
<1> QED BY <1>1, FilesDerived, PTL
=============================================================================
