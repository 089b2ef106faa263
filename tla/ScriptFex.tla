----------------------------- MODULE ScriptFex ------------------------------
(***************************************************************************)
(* The text forms of a script: .fex files (script_fex.c), which are        *)
(* generated and parsed line by line, and the U-Boot header                *)
(* (script_uboot.c), which is only generated.                              *)
(*                                                                         *)
(* A line is a record of what the parser tells apart: nothing to read, a   *)
(* section, or a key with a value.  A number in a line is the number its   *)
(* digits denote.  Lengths are in characters and decide whether a string   *)
(* fits the parser's buffer, which takes a line that does not fit in two   *)
(* pieces: a user's file is a sequence of such pieces, and a generated     *)
(* line is divided when it is read.                                        *)
(***************************************************************************)
EXTENDS ScriptBin

CONSTANTS
    HexaIds,    \* names decompile_single_mode() finds in hexa_entries
    Tails       \* text id -> the line its end reads as, when it is cut off

MAX_LINE == 255

Nothing == [line |-> "nothing"]       \* blank, comment, or starts with ':'
\* form: "closed", or "open" (no ']') or "badchar"
SectionLine(name, form) == [line |-> "section", name |-> name, form |-> form]
KeyLine(name, value) == [line |-> "key", name |-> name, value |-> value]
NoEquals(name) == [line |-> "noequals", name |-> name]

NullVal == [v |-> "null"]
\* spare: characters besides key and contents (5 in generated lines)
TextVal(text, spare) == [v |-> "text", text |-> text, spare |-> spare]
IntVal(n) == [v |-> "int", n |-> n]
IntJunk(n) == [v |-> "intjunk", n |-> n]
\* data: up to four (or too many) numbers, -1 for <default>
PortVal(port, num, data) ==
    [v |-> "port", port |-> port, num |-> num, data |-> data]

\* What a user may write.
Names == [id : STRING, len : Nat]
Texts == {t \in [id : STRING, l : Nat] : t.l = 0 => t = NoText}
Values ==
    [v : {"null"}] \cup [v : {"text"}, text : Texts, spare : Nat]
      \cup [v : {"int", "intjunk"}, n : Int]
      \cup [v : {"port"}, port : Int, num : Int, data : Seq(Int)]
Lines ==
    [line : {"nothing"}] \cup [line : {"section"}, name : Names, form : STRING]
      \cup [line : {"key"}, name : Names, value : Values]
      \cup [line : {"noequals"}, name : Names]

-----------------------------------------------------------------------------
(* Generator *)

IntMax == (WORD \div 2) - 1
Signed(n) == IF n > IntMax THEN n - WORD ELSE n

\* %d or 0x%x
SingleVal(e) == IntVal(IF e.name.id \in HexaIds \cup {""}
                       THEN e.value ELSE Signed(e.value))

EntryLine(e) ==
    KeyLine(e.name,
            CASE e.type = "single" -> SingleVal(e)
              [] e.type = "string" -> TextVal(e.value, 5)
              [] e.type = "gpio" -> PortVal(e.value.port, e.value.num,
                                            e.value.data)
              [] e.type = "null" -> NullVal)

\* The lines of a section, with the blank one behind it.
SectionText(s) ==
    <<SectionLine(s.name, "closed")>>
      \o [j \in DOMAIN s.entries |-> EntryLine(s.entries[j])]
      \o <<Nothing>>

script_generate_fex(script) ==
    LET text[i \in 0..Len(script)] ==
            IF i = 0 THEN <<>> ELSE text[i - 1] \o SectionText(script[i])
    IN  text[Len(script)]

-----------------------------------------------------------------------------
(* Parser *)

\* Only strings can make a line long; the other forms stay below 150.
LineLen(ln) ==
    IF ln.line = "key" /\ ln.value.v = "text"
    THEN ln.name.len + ln.value.spare + ln.value.text.l ELSE 0

LineFits(ln) == LineLen(ln) <= MAX_LINE

\* port:P takes the letters 'A' to 'A' + GPIO_BANK_MAX.
PortAccepted(val) ==
    /\ val.port = PortPower \/ val.port \in 1..(GPIO_BANK_MAX + 1)
    /\ val.num \in 0..255
    /\ Len(val.data) <= 4
    /\ \A i \in DOMAIN val.data : val.data[i] \in -1..IntMax

\* The slots that the line leaves out stay -1.
PortData(val) == [i \in 1..4 |-> IF i \in DOMAIN val.data
                                 THEN val.data[i] ELSE -1]

IntAcceptedInt(n) == n <= IntMax
\* A number may be as large as UINT32_MAX and as small as it likes.
IntAccepted(n) == n < WORD
ParseKeyInt(b, name, n) ==
    IF IntAccepted(n) THEN script_entry_new(b, name, "single", n % WORD)
    ELSE Build("fail", b.script)

ParseKey(b, name, val) ==
    CASE val.v = "null" -> script_entry_new(b, name, "null", 0)
      [] val.v = "text" -> script_entry_new(b, name, "string", val.text)
      [] val.v = "int" -> ParseKeyInt(b, name, val.n)
      [] val.v = "intjunk" -> Build("fail", b.script)
      [] val.v = "port" ->
            IF PortAccepted(val)
            THEN script_entry_new(b, name, "gpio",
                    [port |-> val.port, num |-> val.num,
                     data |-> PortData(val)])
            ELSE Build("fail", b.script)

\* One turn of the loop, over what is in the buffer.
ParsePiece(b, ln) ==
    CASE b.status # "ok" \/ ln.line = "nothing" -> b
      [] b.status = "ok" /\ ln.line = "section" ->
            IF ln.form = "closed" THEN script_section_new(b, ln.name)
            ELSE Build("fail", b.script)
      [] b.status = "ok" /\ ln.line \in {"key", "noequals"} ->
            IF b.script = <<>> \/ ln.line = "noequals"
            THEN Build("fail", b.script)
            ELSE ParseKey(b, ln.name, ln.value)

(***************************************************************************)
(* A generated line that does not fit: the buffer holds the start of the   *)
(* string, which is taken as unquoted, with its opening quote.  The rest   *)
(* is read as a line of its own.  As a rule it is the end of a word        *)
(* without '=' and refused, but it may look like anything: a comment, or   *)
(* another key.                                                            *)
(***************************************************************************)
HeadPiece(ln) ==
    KeyLine(ln.name, TextVal([id |-> "cut", l |-> MAX_LINE - ln.name.len - 3], 3))
TailPiece(ln) ==
    IF ln.value.text.id \in DOMAIN Tails THEN Tails[ln.value.text.id]
    ELSE NoEquals(NoName)

ParseLine(b, ln) ==
    IF LineFits(ln) THEN ParsePiece(b, ln)
    ELSE ParsePiece(ParsePiece(b, HeadPiece(ln)), TailPiece(ln))

script_parse_fex(lines) ==
    LET after[i \in 0..Len(lines)] ==
            IF i = 0 THEN Build("ok", <<>>) ELSE ParseLine(after[i - 1], lines[i])
    IN  after[Len(lines)]

-----------------------------------------------------------------------------
(* U-Boot header: the members of dram_para, in the order of the table.  A  *)
(* member is <<name, key>>; two names may translate to the same key.       *)

Member(name, key) == [name |-> name, key |-> key]
dram_members ==
    <<Member("dram_clock", "clock"), Member("dram_clk", "clock"),
      Member("dram_type", "type"), Member("dram_rank_num", "rank_num"),
      Member("dram_density", "density"),
      Member("dram_chip_density", "density"),
      Member("dram_io_width", "io_width"),
      Member("dram_bus_width", "bus_width"), Member("dram_cas", "cas"),
      Member("dram_zq", "zq"), Member("dram_odt_en", "odt_en"),
      Member("dram_size", "size"), Member("dram_tpr0", "tpr0"),
      Member("dram_tpr1", "tpr1"), Member("dram_tpr2", "tpr2"),
      Member("dram_tpr3", "tpr3"), Member("dram_tpr4", "tpr4"),
      Member("dram_tpr5", "tpr5"), Member("dram_emr1", "emr1"),
      Member("dram_emr2", "emr2"), Member("dram_emr3", "emr3")>>

\* In the header a default is 0xff.
HeaderValue(e) ==
    IF e.type # "gpio" THEN e.value
    ELSE [e.value EXCEPT !.data = [i \in 1..4 |-> IF @[i] = -1 THEN 255 ELSE @[i]]]

\* Strings have no form as a member: a message, no line, and no failure.
OutMember(m, e) ==
    IF e.type = "string" THEN <<>>
    ELSE <<[key |-> m.key, type |-> e.type, value |-> HeaderValue(e)]>>

generate_dram_struct(section) ==
    FlattenSeq([i \in DOMAIN dram_members |->
        FoldSet(LAMBDA e, acc : acc \o OutMember(dram_members[i], e), <<>>,
                script_find_entry(section, dram_members[i].name))])

\* The members, or "missing" when there is no section dram_para.
script_generate_uboot(script) ==
    LET dram == script_find_section(script, "dram_para")
    IN  IF dram = {} THEN [ok |-> FALSE, members |-> <<>>]
        ELSE [ok |-> TRUE,
              members |-> generate_dram_struct(CHOOSE s \in dram : TRUE)]
=============================================================================
