-------------------------------- MODULE Fexc --------------------------------
(***************************************************************************)
(* sunxi-fexc (fexc.c), also run as fex2bin and bin2fex: it parses the     *)
(* input into a script, then opens and fills the output.  The module runs  *)
(* it several times over a few files: a .fex a user wrote, the .bin made   *)
(* of it, the .fex made of that, and a U-Boot header.  Opening, reading    *)
(* and writing may fail; write() may take less than it is given.           *)
(***************************************************************************)
EXTENDS ScriptFex

CONSTANTS
    UserFiles,     \* contents the user's .fex may have
    MaxRuns,       \* bound: how often the tool is run
    MaxFaults      \* bound: failing calls of the C library

\* Lines as fgets() hands them out: none is longer than the buffer.
ASSUME UserFilesAssumption ==
    UserFiles \subseteq Seq({ln \in Lines : LineFits(ln)})

Job(in, infmt, out, outfmt) ==
    [in |-> in, infmt |-> infmt, out |-> out, outfmt |-> outfmt]

\* fex2bin, bin2fex, fexc -O uboot: the runs that make sense of the files.
Jobs == {Job("user.fex", "fex", "a.bin", "bin"),
         Job("a.bin", "bin", "b.fex", "fex"),
         Job("b.fex", "fex", "c.bin", "bin"),
         Job("user.fex", "fex", "u.h", "uboot"),
         Job("a.bin", "bin", "b.h", "uboot")}
FileNames == {"user.fex", "a.bin", "b.fex", "c.bin", "u.h", "b.h"}

VARIABLES
    files,      \* name -> contents; a .bin is a function on 0..n-1
    pc,         \* "idle", "parse", "open", "write"
    job,
    tree,       \* what script_parse() built, with its status
    done,       \* words of the .bin already written
    exit,       \* how the last run ended
    runs, faults,
    whole,      \* history: files made of the user's by runs without a fault
    before      \* history: the output file when the run started

vars == <<files, pc, job, tree, done, exit, runs, faults, whole, before>>

NoTree == Build("none", <<>>)
Absent == [absent |-> TRUE]
TextFile(lines) == [lines |-> lines]
BinFile(words) == [words |-> words]
Header(members) == [members |-> members]
NoWords == [i \in {} |-> Zero]
Empty(fmt) == CASE fmt = "fex" -> TextFile(<<>>)
                [] fmt = "bin" -> BinFile(NoWords)
                [] fmt = "uboot" -> Header(<<>>)
Prefix(words, n) == [i \in 0..(n - 1) |-> words[i]]
Size(words) == IF DOMAIN words = {} THEN 0
               ELSE 1 + CHOOSE i \in DOMAIN words : i + 1 \notin DOMAIN words

Init ==
    /\ \E u \in UserFiles :
          files = [f \in FileNames |->
                      IF f = "user.fex" THEN TextFile(u) ELSE Absent]
    /\ pc = "idle" /\ job = Job("user.fex", "fex", "a.bin", "bin")
    /\ tree = NoTree /\ done = 0 /\ exit = "none"
    /\ runs = 0 /\ faults = 0 /\ whole = {"user.fex"} /\ before = Absent

Fault == faults < MaxFaults /\ faults' = faults + 1

\* The output joins the files that come from the user's without a fault.
Derived == IF job.in \in whole THEN whole \cup {job.out} ELSE whole

Exit(code) == exit' = code /\ pc' = "idle"

Start(j) ==
    /\ pc = "idle" /\ runs < MaxRuns
    /\ pc' = "parse" /\ job' = j /\ runs' = runs + 1
    /\ tree' = NoTree
    /\ done' = 0 /\ exit' = "none" /\ before' = files[j.out]
    /\ UNCHANGED <<files, faults, whole>>

\* script_parse(): an absent file, and mmap() of an empty one, fail.
script_parse(j) ==
    LET f == files[j.in]
    IN  IF f = Absent \/ (j.infmt = "bin" /\ f = Empty("bin"))
        THEN Build("fail", <<>>)
        ELSE IF j.infmt = "fex" THEN script_parse_fex(f.lines)
        ELSE script_decompile_bin(f.words, Size(f.words))

\* A plausible slip: the output is opened, and cleared, before the parser.
ParseIntoOpenFile ==
    /\ pc = "parse"
    /\ tree' = script_parse(job)
    /\ files' = [files EXCEPT ![job.out] = Empty(job.outfmt)]
    /\ IF tree'.status = "ok" THEN pc' = "open" /\ UNCHANGED exit
       ELSE Exit(tree'.status)
    /\ UNCHANGED <<faults, job, done, runs, whole, before>>

Parse ==
    /\ pc = "parse"
    /\ \/ /\ tree' = script_parse(job)
          /\ IF tree'.status = "ok" THEN pc' = "open" /\ UNCHANGED exit
             ELSE Exit(tree'.status)
          /\ UNCHANGED faults
       \/ /\ Fault                                     \* open, read, malloc
          /\ Exit("fail") /\ UNCHANGED tree
    /\ UNCHANGED <<files, job, done, runs, whole, before>>

Open ==
    /\ pc = "open"
    /\ \/ /\ files' = [files EXCEPT ![job.out] = Empty(job.outfmt)]
          /\ whole' = whole \ {job.out}
          /\ pc' = "write" /\ UNCHANGED <<faults, exit>>
       \/ /\ Fault /\ Exit("fail") /\ UNCHANGED <<files, whole>>
    /\ UNCHANGED <<job, tree, done, runs, before>>

(***************************************************************************)
(* The text generators.  Nobody looks at what fprintf() and fclose() say:  *)
(* a full disk loses the end of the file and the tool still succeeds.      *)
(***************************************************************************)
WriteFex ==
    /\ pc = "write" /\ job.outfmt = "fex"
    /\ LET all == script_generate_fex(tree.script)
       IN  \/ /\ files' = [files EXCEPT ![job.out] = TextFile(all)]
              /\ whole' = Derived
              /\ UNCHANGED faults
           \/ /\ Fault
              /\ files' = [files EXCEPT ![job.out] =
                              TextFile(SubSeq(all, 1, Len(all) \div 2))]
              /\ UNCHANGED whole
    /\ Exit("ok")
    /\ UNCHANGED <<job, tree, done, runs, before>>

WriteUboot ==
    /\ pc = "write" /\ job.outfmt = "uboot"
    /\ LET h == script_generate_uboot(tree.script)
       IN  IF h.ok
           THEN /\ \/ /\ files' = [files EXCEPT ![job.out] = Header(h.members)]
                      /\ whole' = Derived
                      /\ UNCHANGED faults
                   \/ /\ Fault
                      /\ files' = [files EXCEPT ![job.out] = Header(<<>>)]
                      /\ UNCHANGED whole
                /\ Exit("ok")
           ELSE Exit("fail") /\ UNCHANGED <<files, whole, faults>>
    /\ UNCHANGED <<job, tree, done, runs, before>>

\* A plausible slip: an error of write() ends the loop like a complete file.
WriteBinUnchecked ==
    /\ pc = "write" /\ job.outfmt = "bin"
    /\ LET all == script_generate_bin(tree.script)
       IN  \/ /\ files' = [files EXCEPT ![job.out] = BinFile(all)]
              /\ done' = Size(all)
              /\ UNCHANGED faults
           \/ Fault /\ UNCHANGED <<files, done>>
    /\ Exit("ok") /\ whole' = Derived
    /\ UNCHANGED <<job, tree, runs, before>>

(***************************************************************************)
(* The loop around write(): it takes all or about half of what is left, or *)
(* fails, which ends the run with a truncated file (EINTR just repeats).   *)
(***************************************************************************)
WriteBin ==
    /\ pc = "write" /\ job.outfmt = "bin"
    /\ LET all == script_generate_bin(tree.script)
           size == script_bin_size(tree.script)
           left == size - done
       IN  \/ /\ \E wc \in {left, (left + 1) \div 2} : done' = done + wc
              /\ files' = [files EXCEPT ![job.out] =
                              BinFile(IF done' = size THEN all
                                      ELSE Prefix(all, done'))]
              /\ IF done' = size
                 THEN Exit("ok") /\ whole' = Derived
                 ELSE UNCHANGED <<exit, pc, whole>>
              /\ UNCHANGED faults
           \/ /\ Fault /\ Exit("fail") /\ UNCHANGED <<files, done, whole>>
    /\ UNCHANGED <<job, tree, runs, before>>

Next ==
    \/ \E j \in Jobs : Start(j)
    \/ Parse
    \/ Open
    \/ WriteFex
    \/ WriteUboot
    \/ WriteBin

Spec == Init /\ [][Next]_vars

-----------------------------------------------------------------------------
(* Properties *)

UserTree == script_parse_fex(files["user.fex"].lines)

\* Some GPIO of the tree is in bank 'O': the parser takes it.
InBankO(script) ==
    \E i \in DOMAIN script : \E j \in DOMAIN script[i].entries :
        LET e == script[i].entries[j]
        IN  e.type = "gpio" /\ e.value.port = GPIO_BANK_MAX + 1

(***************************************************************************)
(* The generator fills exactly the buffer that script_bin_size() counted,  *)
(* and the decompiler finds the same tree in it, whatever the lengths of   *)
(* the strings before and after (script_bin.c:45-204, 209-317).  The       *)
(* exceptions are exact: bin2fex refuses the .bin when it has more than    *)
(* SCRIPT_BIN_SECTION_LIMIT sections or a port in bank O, the bank after   *)
(* GPIO_BANK_MAX, both of which fex2bin accepts (script_fex.c:273-274,     *)
(* script_bin.c:279, 336).                                                 *)
(***************************************************************************)
BinExact ==
    {"a.bin", "user.fex"} \subseteq whole =>
        LET words == files["a.bin"].words
            back == script_decompile_bin(words, Size(words))
        IN  /\ DOMAIN words = 0..(script_bin_size(UserTree.script) - 1)
            /\ IF \/ Len(UserTree.script) > SCRIPT_BIN_SECTION_LIMIT
                  \/ InBankO(UserTree.script)
               THEN back.status = "fail"
               ELSE back = UserTree

\* Every line that bin2fex generates for the user's tree fits the buffer.
TextFits ==
    LET text == script_generate_fex(UserTree.script)
    IN  \A i \in DOMAIN text : LineFits(text[i])

(***************************************************************************)
(* What bin2fex writes, fex2bin reads: from a complete .bin made of the    *)
(* user's file, the new .fex parses to the same tree and compiles to the   *)
(* same .bin, in spite of signs, hexadecimal numbers, defaults left out    *)
(* and quotes added - unless a string has become too long for a line, when *)
(* fex2bin refuses the file or takes the string in two pieces.  Both give  *)
(* the same U-Boot header (script_fex.c:84-152, 179-379).                  *)
(* tests/fextest.sh compares the same.                                     *)
(***************************************************************************)
RoundTrip ==
    /\ {"a.bin", "b.fex"} \subseteq whole /\ TextFits =>
          script_parse_fex(files["b.fex"].lines) = UserTree
    /\ {"a.bin", "c.bin"} \subseteq whole /\ TextFits =>
          files["c.bin"] = files["a.bin"]
    /\ {"u.h", "b.h"} \subseteq whole => files["u.h"] = files["b.h"]

(***************************************************************************)
(* Every port of a tree that the parser has accepted lies in a bank up to  *)
(* N, the last one that GPIO_BANK_MAX names (script.h:22), or is a power   *)
(* port.                                                                   *)
(***************************************************************************)
BanksKnown ==
    tree.status = "ok" =>
        \A i \in DOMAIN tree.script : \A j \in DOMAIN tree.script[i].entries :
            LET e == tree.script[i].entries[j]
            IN  e.type = "gpio" => e.value.port \in (1..GPIO_BANK_MAX) \cup {PortPower}

(***************************************************************************)
(* A run that reports success has left a complete .bin; a run whose input  *)
(* was refused has left the output file of an earlier run alone            *)
(* (fexc.c:159-218, 331-337).                                              *)
(***************************************************************************)
ExitHonest ==
    /\ exit = "ok" /\ job.outfmt = "bin" =>
          files[job.out].words = script_generate_bin(tree.script)
    /\ exit # "none" /\ tree.status # "ok" => files[job.out] = before
=============================================================================
