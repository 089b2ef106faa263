----------------------------- MODULE ScriptBin ------------------------------
(***************************************************************************)
(* The script tree of sunxi-fexc (script.c) and its binary form            *)
(* (script_bin.c): sizes and layout of script.bin, the generator, which    *)
(* fills a zeroed buffer through three running pointers, and the           *)
(* decompiler, which follows the offsets in the file.                      *)
(*                                                                         *)
(* A file is a function from 0..n-1 to 32-bit words.  A word is a record:  *)
(* a number, the start of a name, a piece of a string, or an entry's       *)
(* pattern.  A word of another kind than the reader expects, or one past   *)
(* the end of the file (the rest of its last mapped page), reads as zero.  *)
(***************************************************************************)
EXTENDS Integers, Sequences, SequencesExt

CONSTANTS
    WORD,                     \* number of values of an uint32_t, scaled down
    SCRIPT_BIN_SECTION_LIMIT  \* sections bin2fex takes, scaled down

ASSUME WordAssumption ==
    /\ WORD \in Nat /\ WORD >= 4 /\ WORD % 2 = 0
    /\ SCRIPT_BIN_SECTION_LIMIT \in Nat

GPIO_BANK_MAX == 14
PortPower == 65535                    \* 0xffff: port:powerN

HeadWords == 4                        \* sections, filesize, version[2]
SectionWords == 10                    \* name[32], length, offset
EntryWords == 10                      \* name[32], offset, pattern
SCRIPT_BIN_VERSION_LIMIT == 16

(***************************************************************************)
(* Names: id stands for the first 31 characters, which is all that the     *)
(* tree and the file keep.  Strings: id stands for the contents.           *)
(***************************************************************************)
Name(id, len) == [id |-> id, len |-> len]
NoName == Name("", 0)
NoText == [id |-> "", l |-> 0]

Truncated(name) == [name EXCEPT !.len = IF @ > 31 THEN 31 ELSE @]
script_entry(name, type, value) ==
    [name |-> Truncated(name), type |-> type, value |-> value]

script_section(name) == [name |-> Truncated(name), entries |-> <<>>]

-----------------------------------------------------------------------------
(* Building a tree: a script is the sequence of its sections in order. *)

Build(status, script) == [status |-> status, script |-> script]

\* script_section_new() asserts that the name is not empty.
script_section_new(b, name) ==
    IF name.len = 0 THEN Build("abort", b.script)
    ELSE Build("ok", Append(b.script, script_section(name)))

\* script_*_entry_new(): all but the string one assert a name.
script_entry_new(b, name, type, value) ==
    IF name.len = 0 /\ type # "string" THEN Build("abort", b.script)
    ELSE LET n == Len(b.script)
         IN  Build("ok", [b.script EXCEPT ![n].entries =
                              Append(@, script_entry(name, type, value))])

FirstNamed(seq, id) ==
    LET hits == SelectSeq(seq, LAMBDA x : x.name.id = id)
    IN  IF hits = <<>> THEN {} ELSE {hits[1]}
script_find_section(script, id) == FirstNamed(script, id)
script_find_entry(section, id) == FirstNamed(section.entries, id)

-----------------------------------------------------------------------------
(* Generator *)

WordsDown(bytes) == bytes \div 4
Words(bytes) == (bytes + 3) \div 4

\* Bytes of an entry's value, as script_bin_size() counts them.
ValueBytes(e) == CASE e.type \in {"null", "single"} -> 4
                   [] e.type = "string" -> e.value.l
                   [] e.type = "gpio" -> 24

\* The sum of a sequence of numbers.
Sum(s) ==
    LET sum[i \in 0..Len(s)] == IF i = 0 THEN 0 ELSE sum[i - 1] + s[i]
    IN  sum[Len(s)]

\* What script_bin_size() counts: the entries and the words of their values.
DataWords(es) == Sum([j \in DOMAIN es |-> Words(ValueBytes(es[j]))])
EntryCount(script) == Sum([i \in DOMAIN script |-> Len(script[i].entries)])
WordCount(script) == Sum([i \in DOMAIN script |-> DataWords(script[i].entries)])

\* In words.
script_bin_size(script) ==
    HeadWords + Len(script) * SectionWords + EntryCount(script) * EntryWords
      + WordCount(script)

Num(n) == [num |-> n]
Zero == Num(0)
NameField(name) == <<[name |-> name]>>        \* memcpy() into zeroed bytes
Pattern(type, words) == [type |-> type, words |-> words]

\* The words of a value; the last word of a string says how full it is.
ValueData(e) ==
    CASE e.type = "null" -> <<Zero>>
      [] e.type = "single" -> <<Num(e.value)>>
      [] e.type = "string" ->
            [k \in 1..Words(e.value.l) |->
               [str |-> e.value.id,
                n |-> IF 4 * k <= e.value.l THEN 4 ELSE e.value.l % 4]]
      [] e.type = "gpio" ->
            <<Num(e.value.port), Num(e.value.num)>>
              \o [i \in 1..4 |-> Num(e.value.data[i])]

\* Stores ws from word off on; a store past the end makes the file grow.
Put(bin, off, ws) ==
    [i \in DOMAIN bin \cup {off + k - 1 : k \in DOMAIN ws} |->
        IF i - off + 1 \in DOMAIN ws THEN ws[i - off + 1] ELSE bin[i]]

\* The buffer and the three pointers into it.
Fill(bin, section, entry, data) ==
    [bin |-> bin, section |-> section, entry |-> entry, data |-> data]

EntryHead(st, e, size) ==
    Put(Put(st.bin, st.entry, NameField(e.name)), st.entry + 8,
        <<Num(st.data), Pattern(e.type, size)>>)

\* A plausible slip: the data pointer advances by whole words of the string.
GenEntryDown(st, e) ==
    LET size == WordsDown(ValueBytes(e))
    IN  Fill(Put(EntryHead(st, e, size), st.data, ValueData(e)),
             st.section, st.entry + EntryWords, st.data + size)

\* One turn of the inner loop of script_generate_bin().
GenEntry(st, e) ==
    LET size == Words(ValueBytes(e))
    IN  Fill(Put(EntryHead(st, e, size), st.data, ValueData(e)),
             st.section, st.entry + EntryWords, st.data + size)

GenEntries(st, es) ==
    LET after[j \in 0..Len(es)] ==
            IF j = 0 THEN st ELSE GenEntry(after[j - 1], es[j])
    IN  after[Len(es)]

\* One turn of the outer loop.
GenSection(st, s) ==
    LET named == Put(st.bin, st.section, NameField(s.name))
        filled == GenEntries(Fill(named, st.section, st.entry, st.data), s.entries)
    IN  Fill(Put(filled.bin, st.section + 8,
                 <<Num(Len(s.entries)), Num(st.entry)>>),
             st.section + SectionWords, filled.entry, filled.data)

GenSections(st, script) ==
    LET after[i \in 0..Len(script)] ==
            IF i = 0 THEN st ELSE GenSection(after[i - 1], script[i])
    IN  after[Len(script)]

script_generate_bin(script) ==
    LET size == script_bin_size(script)
        entry0 == HeadWords + Len(script) * SectionWords
        data0 == entry0 + EntryCount(script) * EntryWords
        blank == [i \in 0..(size - 1) |-> Zero]               \* calloc()
        head == Put(blank, 0, <<Num(Len(script)), Num(size), Num(1), Num(2)>>)
    IN  GenSections(Fill(head, HeadWords, entry0, data0), script).bin

-----------------------------------------------------------------------------
(* Decompiler *)

Field(bin, i, f, zero) ==
    IF i \in DOMAIN bin /\ f \in DOMAIN bin[i] THEN bin[i][f] ELSE zero
NumAt(bin, i) == Field(bin, i, "num", 0)
NameAt(bin, i) == Field(bin, i, "name", NoName)

\* Seeks the end of the string: a word that is not full, or the end.
StringAt(bin, off, words) ==
    LET n == [k \in 1..words |-> Field(bin, off + k - 1, "n", 0)]
        full == SelectInSeq(n, LAMBDA x : x < 4)
        l == IF full = 0 THEN 4 * words ELSE 4 * (full - 1) + n[full]
    IN  IF l = 0 THEN NoText ELSE [id |-> Field(bin, off, "str", ""), l |-> l]

GpioAt(bin, off) ==
    [port |-> NumAt(bin, off), num |-> NumAt(bin, off + 1),
     data |-> [i \in 1..4 |-> NumAt(bin, off + 1 + i)]]

\* One turn of the loop of decompile_section(), unless one before has failed.
decompile_entry(b, bin, at) ==
    LET name == NameAt(bin, at)
        off == NumAt(bin, at + 8)
        type == Field(bin, at + 9, "type", "none")
        words == Field(bin, at + 9, "words", 0)
        port == NumAt(bin, off)
    IN  CASE b.status # "ok" -> b
          [] b.status = "ok" /\ type = "single" ->
               script_entry_new(b, name, type, NumAt(bin, off))
          [] b.status = "ok" /\ type = "string" ->
               script_entry_new(b, name, type, StringAt(bin, off, words))
          [] b.status = "ok" /\ type = "gpio" ->
               IF words = 6 /\ port # PortPower /\ port \notin 1..GPIO_BANK_MAX
               THEN Build("fail", b.script)
               ELSE script_entry_new(b, name, type, GpioAt(bin, off))
          [] b.status = "ok" /\ type = "null" ->
               IF name.len = 0 THEN b
               ELSE script_entry_new(b, name, type, 0)
          [] OTHER -> Build("fail", b.script)

decompile_entries(b, bin, offset, length) ==
    LET after[i \in 0..length] ==
            IF i = 0 THEN b
            ELSE decompile_entry(after[i - 1], bin, offset + (i - 1) * EntryWords)
    IN  after[length]

decompile_section(b, bin, size, at) ==
    LET length == NumAt(bin, at + 8)
        offset == NumAt(bin, at + 9)
    IN  IF b.status # "ok" THEN b
        ELSE IF \/ offset > size
                \/ length > (size - offset) \div EntryWords
        THEN Build("fail", b.script)
        ELSE decompile_entries(script_section_new(b, NameAt(bin, at)), bin,
                               offset, length)

decompile_sections(bin, size, sections) ==
    LET after[i \in 0..sections] ==
            IF i = 0 THEN Build("ok", <<>>)
            ELSE decompile_section(after[i - 1], bin, size,
                                   HeadWords + (i - 1) * SectionWords)
    IN  after[sections]

script_decompile_bin(bin, size) ==
    LET sections == NumAt(bin, 0)
    IN  IF \/ \E i \in {2, 3} : NumAt(bin, i) > SCRIPT_BIN_VERSION_LIMIT
           \/ sections > SCRIPT_BIN_SECTION_LIMIT
        THEN Build("fail", <<>>)
        ELSE decompile_sections(bin, size, sections)
=============================================================================
